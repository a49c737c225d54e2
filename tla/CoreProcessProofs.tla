-------------------------- MODULE CoreProcessProofs --------------------------
(***************************************************************************)
(* The safety properties of Deletion, for any projects, tombstones,        *)
(* credentials and failures. One inductive invariant carries them all:     *)
(* which steps find which tombstone in which state (Phases), what a        *)
(* recovery pass still has to look at (PassCovers), where the vaults are   *)
(* (VaultsAreNamed, Emptied, RemovedStaysRemovable), and which ids are     *)
(* taken (Births).                                                         *)
(*                                                                         *)
(* And that of CoreClient, for any number of processes, requests, restarts *)
(* and failures: what the client knows of the processes it has spawned     *)
(* (ClientKnows), and which of them a quit waits for (QuitsItsCore).       *)
(***************************************************************************)
EXTENDS CoreProcess, TLAPS

Readable(t) == tomb[t] \in {"staging", "committed"}
InPass == pc = "pick" \/ (recovering /\ pc \in Working)

\* The request being served.
Tasks ==
    /\ task.kind \in {"create", "delete"} => task.target \in Projects
    /\ task.kind = "reset" /\ stored # {} => task.plan
    /\ pc = "register" => /\ task.target \in Projects /\ vault[task.target] = "live"
                          /\ ~row[task.target] /\ task.target \notin deleted
    /\ pc = "create" => \/ task.kind = "reset"
                        \/ task.kind = "delete" /\ row[task.target]

\* The state in which each step finds the tombstone it works on.
Phases ==
    /\ pc = "manifest" => tomb[cur] = "bare"
    /\ pc \in {"stage", "commit", "rollback", "undone"}
         => tomb[cur] = "staging" /\ cur \notin journal
    /\ pc = "mark" => tomb[cur] = "staging" /\ cur \in journal
    /\ pc \in {"credential", "credMark", "clean", "unjournal"} => tomb[cur] = "committed"
    /\ pc = "finalize" => tomb[cur] = "committed" /\ cur \notin journal
    /\ pc \in {"rmUndone", "rmFinal"} => tomb[cur] = "bare"

\* A recovery pass has every tombstone on one of its lists, and nothing is created
\* unless it found them all gone.
PassCovers ==
    /\ pc \in {"create", "manifest", "stage", "commit"} => ~recovering
    /\ pc = "pick" => recovering
    /\ pc = "create" => Present = {}
    /\ recovering /\ pc \in Working => cur \in todo
    /\ InPass => Present \subseteq todo \cup pending
    /\ InPass => \A t \in todo : Readable(t) \/ (pc # "pick" /\ t = cur)

\* A vault that was moved is in a readable tombstone that names its project.
VaultsAreNamed ==
    \A p \in Projects :
        vault[p] \in Tombstones => Readable(vault[p]) /\ p \in members[vault[p]]

\* What the loops over an operation's projects leave behind.
Emptied ==
    /\ pc = "undone" => Staged = {}
    /\ pc = "commit" => ToStage = {}
    /\ pc \in {"unjournal", "finalize", "rmFinal"} => \A p \in members[cur] : vault[p] = "none"
    /\ InPass => \A p \in completed : vault[p] = "none"

\* The vault of a removed project is where recovery removes it.
RemovedStaysRemovable ==
    \A p \in deleted :
        vault[p] \in Tombstones => tomb[vault[p]] = "committed" \/ vault[p] \in journal

\* Only projects that were created have a vault or a row, or are named by anything.
Births ==
    /\ \A p \in Projects : p \notin born => vault[p] = "none" /\ ~row[p]
    /\ deleted \subseteq born /\ confirmed \subseteq born
    /\ InPass => completed \subseteq born
    /\ \A t \in Present : members[t] \subseteq born

\* A reset that has not removed the credentials knows that it must.
CredentialsPlanned ==
    /\ \A t \in Present : kind[t] = "reset" /\ stored # {} => NeedsCredential(t)
    /\ pc = "credMark" => stored = {}
    /\ pc \in {"clean", "unjournal"} /\ kind[cur] = "reset" => stored = {}

IInv == /\ Tasks /\ Phases /\ PassCovers /\ VaultsAreNamed /\ Emptied
        /\ RemovedStaysRemovable /\ Births /\ CredentialsPlanned
        /\ OneOperation /\ JournalNamesTombstones /\ RegisteredVaultSafe
        /\ DeletedStaysDeleted /\ ConfirmedIsGone

-----------------------------------------------------------------------------
(* Types.                                                                   *)

\* Every step keeps the types; a deletion only names projects by the invariant.
LEMMA TypeStep == TypeOK /\ IInv /\ [Next]_vars => TypeOK'
<1> SUFFICES ASSUME TypeOK, IInv, [Next]_vars PROVE TypeOK'
  OBVIOUS
<1> USE DeletionAssumption DEF TypeOK, PCs, Working
<1>1. CASE StartProcess
  BY <1>1 DEF StartProcess, Startup, Fault, NoFault, files, appDb, manifest, pass,
     history
<1>2. CASE RequestReset
  BY <1>2 DEF RequestReset, Fault, NoFault, files, appDb, manifest, pass, history
<1>3. ASSUME NEW p \in Projects, CreateVault(p) PROVE TypeOK'
  BY <1>3 DEF CreateVault, Fault, NoFault, files, appDb, manifest, pass, history
<1>4. ASSUME NEW p \in Projects, RequestDelete(p) PROVE TypeOK'
  BY <1>4 DEF RequestDelete, Fault, NoFault, files, appDb, manifest, pass, history
<1>5. CASE RegisterProject
  <2>1. row' \in [Projects -> BOOLEAN]
    BY <1>5, Zenon DEF RegisterProject
  <2>2. vault' \in [Projects -> {"none", "live"} \cup Tombstones]
    BY <1>5 DEF RegisterProject
  <2>3. faults' \in Nat /\ pc' = "idle"
    BY <1>5 DEF RegisterProject, Fault, NoFault
  <2> QED
    BY <1>5, <2>1, <2>2, <2>3 DEF RegisterProject, files, appDb, manifest, pass,
       history
<1>6. CASE Scan
  BY <1>6 DEF Scan, Present, Fault, NoFault, files, appDb, manifest, pass, history
<1>7. ASSUME NEW t \in Tombstones, Reconcile(t) PROVE TypeOK'
  BY <1>7 DEF Reconcile, AfterMark, Fault, NoFault, files, appDb, manifest, pass,
     history
<1>8. CASE PassEnds
  <2>1. confirmed' \subseteq Projects
    BY <1>8 DEF PassEnds
  <2>2. faults' \in Nat /\ pc' \in {"idle", "create"} /\ recovering' = FALSE
    BY <1>8 DEF PassEnds, Fault, NoFault
  <2> QED
    BY <1>8, <2>1, <2>2 DEF PassEnds, files, appDb, manifest, pass, history
<1>9. CASE CreateDirectory
  <2>1. CASE UNCHANGED <<cur, used, tomb, manifest>>
    BY <1>9, <2>1 DEF CreateDirectory, Fault, NoFault, files, appDb, manifest,
       pass, history
  <2>2. ASSUME NEW t \in Tombstones, cur' = t, used' = used \cup {t}, pc' =
        "manifest",
               NoFault, tomb' = [tomb EXCEPT ![t] = "bare"],
               kind' = [kind EXCEPT ![t] =
                          IF task.kind = "reset" THEN "reset" ELSE "project"],
               members' = [members EXCEPT ![t] =
                             IF task.kind = "reset" THEN {p \in Projects : vault[p]
                             = "live"}
                             ELSE {task.target}],
               credWanted' = [credWanted EXCEPT ![t] = task.plan],
               credDone' = [credDone EXCEPT ![t] = FALSE]
        PROVE  TypeOK'
    <3>1. members' \in [Tombstones -> SUBSET Projects]
      <4>1. task.kind = "reset" \/ task.target \in Projects
        BY <1>9 DEF CreateDirectory, IInv, Tasks
      <4> QED
        BY <2>2, <4>1
    <3>2. credWanted' \in [Tombstones -> BOOLEAN]
      <4>1. task.plan \in BOOLEAN
        BY Zenon
      <4> QED
        BY <2>2, <4>1, Zenon
    <3>3. credDone' \in [Tombstones -> BOOLEAN]
      BY <2>2, Zenon
    <3>4. tomb' \in [Tombstones -> {"absent", "bare", "staging", "committed"}]
          /\ kind' \in [Tombstones -> {"project", "reset"}]
      BY <2>2
    <3>5. pc' = "manifest" /\ cur' \in Tombstones /\ faults' = faults
          /\ used' \subseteq Tombstones
      BY <2>2 DEF NoFault
    <3>6. UNCHANGED <<vault, row, journal, stored, task, todo, pending, completed,
                      recovering, born, deleted, confirmed>>
      BY <1>9 DEF CreateDirectory, appDb, pass
    <3> QED
      BY <3>1, <3>2, <3>3, <3>4, <3>5, <3>6
  <2> QED
    BY <1>9, <2>1, <2>2 DEF CreateDirectory
<1>10. CASE WriteManifest
  BY <1>10 DEF WriteManifest, Fault, NoFault, files, appDb, manifest, pass, history
<1>11. CASE StageVault
  BY <1>11 DEF StageVault, ToStage, Fault, NoFault, files, appDb, manifest, pass,
     history
<1>12. CASE CommitRemoval
  <2>1. row' \in [Projects -> BOOLEAN]
    <3>1. [p \in Projects |-> row[p] /\ p \notin Removed] \in [Projects -> BOOLEAN]
      BY Zenon
    <3> QED
      BY <1>12, <3>1, Zenon DEF CommitRemoval, appDb
  <2>2. journal' \subseteq Tombstones /\ deleted' \subseteq Projects
    BY <1>12 DEF CommitRemoval, appDb
  <2>3. faults' \in Nat /\ pc' \in {"mark", "rollback"}
    BY <1>12 DEF CommitRemoval, Fault, NoFault
  <2> QED
    BY <1>12, <2>1, <2>2, <2>3 DEF CommitRemoval, files, appDb, manifest, pass,
       history
<1>13. CASE MarkCommitted
  BY <1>13 DEF MarkCommitted, AfterMark, Fails, Fault, NoFault, files, appDb,
     manifest, pass, history
<1>14. CASE RemoveCredential
  BY <1>14 DEF RemoveCredential, Fails, Fault, NoFault, files, appDb, manifest,
     pass, history
<1>15. CASE MarkCredential
  <2>1. credDone' \in [Tombstones -> BOOLEAN]
    BY <1>15, Zenon DEF MarkCredential
  <2>2. UNCHANGED <<completed, recovering>> /\ todo' \subseteq Tombstones
        /\ pending' \subseteq Tombstones /\ pc' \in {"pick", "idle", "clean"}
        /\ faults' \in Nat
    BY <1>15 DEF MarkCredential, Fails, Fault, NoFault, pass
  <2> QED
    BY <1>15, <2>1, <2>2 DEF MarkCredential, files, appDb, manifest, pass, history
<1>16. CASE CleanVault
  BY <1>16 DEF CleanVault, Fails, Staged, Fault, NoFault, files, appDb, manifest,
     pass, history
<1>17. CASE DropJournal
  BY <1>17 DEF DropJournal, Fails, Fault, NoFault, files, appDb, manifest, pass,
     history
<1>18. CASE RestoreVault
  BY <1>18 DEF RestoreVault, Fails, Staged, Fault, NoFault, files, appDb, manifest,
     pass, history
<1>19. CASE RemoveManifest
  BY <1>19 DEF RemoveManifest, Fails, Fault, NoFault, files, appDb, manifest, pass,
     history
<1>20. CASE RemoveDirectory
  BY <1>20 DEF RemoveDirectory, Fails, Fault, NoFault, files, appDb, manifest,
     pass, history
<1>21. CASE Crash
  <2>1. faults' \in Nat
    BY <1>21 DEF Crash, Fault
  <2>2. task' \in [kind : {"startup", "create", "delete", "reset"},
                  target : Projects \cup {None}, plan : BOOLEAN]
    BY <1>21, Zenon DEF Crash, Startup
  <2> QED
    BY <1>21, <2>1, <2>2 DEF Crash, files, appDb, manifest, pass, history
<1>22. CASE UNCHANGED vars
  BY <1>22 DEF vars, files, appDb, manifest, pass, history
<1>23. QED
  BY <1>1, <1>2, <1>3, <1>4, <1>5, <1>6, <1>7, <1>8, <1>9, <1>10, <1>11, <1>12,
     <1>13, <1>14, <1>15, <1>16, <1>17, <1>18, <1>19, <1>20, <1>21, <1>22 DEF Next,
     Request, Step

-----------------------------------------------------------------------------
(* Every step preserves the invariant: one step per action, and under it one    *)
(* per conjunct that the action can disturb.                                    *)

\* Whatever step is taken, the operation, the recovery pass, the vaults and the ids
\* stay consistent.
LEMMA InvariantStep == TypeOK /\ TypeOK' /\ IInv /\ [Next]_vars => IInv'
<1> SUFFICES ASSUME TypeOK, TypeOK', IInv, [Next]_vars PROVE IInv'
  OBVIOUS
<1> USE DeletionAssumption
<1>1. CASE StartProcess
  <2>1. UNCHANGED <<vault, tomb, kind, members, credWanted, credDone, row, journal,
        stored, cur, todo, pending, completed, recovering, born, deleted,
        confirmed>>
    BY <1>1 DEF StartProcess, files, appDb, manifest, pass, history
  <2>2. VaultsAreNamed' /\ RemovedStaysRemovable' /\ OneOperation'
        /\ JournalNamesTombstones' /\ RegisteredVaultSafe' /\ DeletedStaysDeleted'
        /\ ConfirmedIsGone'
    BY <2>1 DEF IInv, VaultsAreNamed, RemovedStaysRemovable, OneOperation,
       JournalNamesTombstones, RegisteredVaultSafe, DeletedStaysDeleted,
       ConfirmedIsGone, Present, Readable, Uncommitted
  <2>3. Tasks'
    BY <1>1 DEF StartProcess, Startup, IInv, Tasks
  <2>4. Phases'
    BY <1>1 DEF StartProcess, IInv, Phases
  <2>5. PassCovers'
    BY <1>1 DEF StartProcess, IInv, PassCovers, InPass, Working
  <2>6. Emptied'
    BY <1>1 DEF StartProcess, IInv, Emptied, InPass, Working
  <2>7. Births'
    BY <1>1, <2>1 DEF StartProcess, IInv, Births, InPass, Working, Present
  <2>8. CredentialsPlanned'
    BY <1>1, <2>1 DEF StartProcess, IInv, CredentialsPlanned, NeedsCredential,
       Present
  <2> QED
    BY <2>2, <2>3, <2>4, <2>5, <2>6, <2>7, <2>8 DEF IInv
<1>2. CASE RequestReset
  <2>1. UNCHANGED <<vault, tomb, kind, members, credWanted, credDone, row, journal,
        stored, cur, todo, pending, completed, recovering, born, deleted,
        confirmed>>
    BY <1>2 DEF RequestReset, files, appDb, manifest, pass, history
  <2>2. VaultsAreNamed' /\ RemovedStaysRemovable' /\ OneOperation'
        /\ JournalNamesTombstones' /\ RegisteredVaultSafe' /\ DeletedStaysDeleted'
        /\ ConfirmedIsGone'
    BY <2>1 DEF IInv, VaultsAreNamed, RemovedStaysRemovable, OneOperation,
       JournalNamesTombstones, RegisteredVaultSafe, DeletedStaysDeleted,
       ConfirmedIsGone, Present, Readable, Uncommitted
  <2>3. Tasks'
    BY <1>2 DEF RequestReset, IInv, Tasks
  <2>4. Phases'
    BY <1>2 DEF RequestReset, IInv, Phases
  <2>5. PassCovers'
    BY <1>2 DEF RequestReset, IInv, PassCovers, InPass, Working
  <2>6. Emptied'
    BY <1>2 DEF RequestReset, IInv, Emptied, InPass, Working
  <2>7. Births'
    BY <1>2, <2>1 DEF RequestReset, IInv, Births, InPass, Working, Present
  <2>8. CredentialsPlanned'
    BY <1>2, <2>1 DEF RequestReset, IInv, CredentialsPlanned, NeedsCredential,
       Present
  <2> QED
    BY <2>2, <2>3, <2>4, <2>5, <2>6, <2>7, <2>8 DEF IInv
<1>3. ASSUME NEW p \in Projects, CreateVault(p) PROVE IInv'
  <2>1. UNCHANGED <<tomb, kind, members, credWanted, credDone, row, journal,
        stored, cur, todo, pending, completed, recovering, deleted, confirmed>>
    BY <1>3 DEF CreateVault, files, appDb, manifest, pass, history
  <2>2. OneOperation' /\ JournalNamesTombstones'
    BY <2>1 DEF IInv, OneOperation, JournalNamesTombstones, Present
  <2>3. Tasks'
    BY <1>3, <2>1 DEF CreateVault, IInv, TypeOK, Tasks, Births
  <2>4. Phases'
    BY <1>3 DEF CreateVault, IInv, Phases
  <2>5. PassCovers'
    BY <1>3 DEF CreateVault, IInv, PassCovers, InPass, Working
  <2>6. VaultsAreNamed'
    BY <1>3, <2>1 DEF CreateVault, IInv, VaultsAreNamed, Readable
  <2>7. Emptied'
    BY <1>3 DEF CreateVault, IInv, Emptied, InPass, Working
  <2>8. RemovedStaysRemovable'
    BY <1>3, <2>1 DEF CreateVault, IInv, RemovedStaysRemovable
  <2>9. Births'
    BY <1>3, <2>1 DEF CreateVault, IInv, Births, InPass, Working, Present
  <2>10. CredentialsPlanned'
    BY <1>3, <2>1 DEF CreateVault, IInv, CredentialsPlanned, NeedsCredential,
       Present
  <2>11. RegisteredVaultSafe'
    BY <1>3, <2>1 DEF CreateVault, IInv, RegisteredVaultSafe, Uncommitted
  <2>12. DeletedStaysDeleted'
    BY <1>3, <2>1 DEF CreateVault, IInv, DeletedStaysDeleted, Births
  <2>13. ConfirmedIsGone'
    BY <1>3, <2>1 DEF CreateVault, IInv, ConfirmedIsGone, Births
  <2> QED
    BY <2>2, <2>3, <2>4, <2>5, <2>6, <2>7, <2>8, <2>9, <2>10, <2>11, <2>12, <2>13
       DEF IInv
<1>4. ASSUME NEW p \in Projects, RequestDelete(p) PROVE IInv'
  <2>1. UNCHANGED <<vault, tomb, kind, members, credWanted, credDone, row, journal,
        stored, cur, todo, pending, completed, recovering, born, deleted,
        confirmed>>
    BY <1>4 DEF RequestDelete, files, appDb, manifest, pass, history
  <2>2. VaultsAreNamed' /\ RemovedStaysRemovable' /\ OneOperation'
        /\ JournalNamesTombstones' /\ RegisteredVaultSafe' /\ DeletedStaysDeleted'
        /\ ConfirmedIsGone'
    BY <2>1 DEF IInv, VaultsAreNamed, RemovedStaysRemovable, OneOperation,
       JournalNamesTombstones, RegisteredVaultSafe, DeletedStaysDeleted,
       ConfirmedIsGone, Present, Readable, Uncommitted
  <2>3. Tasks'
    BY <1>4 DEF RequestDelete, IInv, Tasks
  <2>4. Phases'
    BY <1>4 DEF RequestDelete, IInv, Phases
  <2>5. PassCovers'
    BY <1>4 DEF RequestDelete, IInv, PassCovers, InPass, Working
  <2>6. Emptied'
    BY <1>4 DEF RequestDelete, IInv, Emptied, InPass, Working
  <2>7. Births'
    BY <1>4, <2>1 DEF RequestDelete, IInv, Births, InPass, Working, Present
  <2>8. CredentialsPlanned'
    BY <1>4, <2>1 DEF RequestDelete, IInv, CredentialsPlanned, NeedsCredential,
       Present
  <2> QED
    BY <2>2, <2>3, <2>4, <2>5, <2>6, <2>7, <2>8 DEF IInv
<1>5. CASE RegisterProject
  <2>1. UNCHANGED <<tomb, kind, members, credWanted, credDone, journal, stored,
        task, cur, todo, pending, completed, recovering, born, deleted, confirmed>>
    BY <1>5 DEF RegisterProject, files, appDb, manifest, pass, history
  <2>2. OneOperation' /\ JournalNamesTombstones'
    BY <2>1 DEF IInv, OneOperation, JournalNamesTombstones, Present
  <2>3. Tasks'
    BY <1>5 DEF RegisterProject, IInv, Tasks
  <2>4. Phases'
    BY <1>5 DEF RegisterProject, IInv, Phases
  <2>5. PassCovers'
    BY <1>5 DEF RegisterProject, IInv, PassCovers, InPass, Working
  <2>6. VaultsAreNamed'
    BY <1>5, <2>1 DEF RegisterProject, IInv, TypeOK, VaultsAreNamed, Readable
  <2>7. Emptied'
    BY <1>5 DEF RegisterProject, IInv, Emptied, InPass, Working
  <2>8. RemovedStaysRemovable'
    BY <1>5, <2>1 DEF RegisterProject, IInv, TypeOK, RemovedStaysRemovable
  <2>9. Births'
    BY <1>5, <2>1 DEF RegisterProject, IInv, TypeOK, Births, Tasks, InPass,
       Working, Present
  <2>10. CredentialsPlanned'
    BY <1>5, <2>1 DEF RegisterProject, IInv, CredentialsPlanned, NeedsCredential,
       Present
  <2>11. RegisteredVaultSafe'
    BY <1>5 DEF RegisterProject, IInv, TypeOK, RegisteredVaultSafe, Tasks,
       Uncommitted
  <2>12. DeletedStaysDeleted'
    BY <1>5, <2>1 DEF RegisterProject, IInv, TypeOK, DeletedStaysDeleted, Tasks
  <2>13. ConfirmedIsGone'
    BY <1>5, <2>1 DEF RegisterProject, IInv, TypeOK, ConfirmedIsGone, Tasks
  <2> QED
    BY <2>2, <2>3, <2>4, <2>5, <2>6, <2>7, <2>8, <2>9, <2>10, <2>11, <2>12, <2>13
       DEF IInv
<1>6. CASE Scan
  <2>1. UNCHANGED <<vault, tomb, kind, members, credWanted, credDone, row, journal,
        stored, task, cur, born, deleted, confirmed>>
    BY <1>6 DEF Scan, files, appDb, manifest, pass, history
  <2>2. VaultsAreNamed' /\ RemovedStaysRemovable' /\ OneOperation'
        /\ JournalNamesTombstones' /\ RegisteredVaultSafe' /\ DeletedStaysDeleted'
        /\ ConfirmedIsGone'
    BY <2>1 DEF IInv, VaultsAreNamed, RemovedStaysRemovable, OneOperation,
       JournalNamesTombstones, RegisteredVaultSafe, DeletedStaysDeleted,
       ConfirmedIsGone, Present, Readable, Uncommitted
  <2>3. Tasks'
    BY <1>6 DEF Scan, IInv, Tasks
  <2>4. Phases'
    BY <1>6 DEF Scan, IInv, Phases
  <2>5. PassCovers'
    BY <1>6, <2>1 DEF Scan, Unreadable, IInv, TypeOK, PassCovers, InPass, Readable,
       Present, Working
  <2>6. Emptied'
    BY <1>6 DEF Scan, IInv, Emptied, InPass, Working
  <2>7. Births'
    BY <1>6, <2>1 DEF Scan, IInv, Births, InPass, Working, Present
  <2>8. CredentialsPlanned'
    BY <1>6, <2>1 DEF Scan, IInv, CredentialsPlanned, NeedsCredential, Present
  <2> QED
    BY <2>2, <2>3, <2>4, <2>5, <2>6, <2>7, <2>8 DEF IInv
<1>7. ASSUME NEW t \in Tombstones, Reconcile(t) PROVE IInv'
  <2>1. UNCHANGED <<vault, tomb, kind, members, credWanted, credDone, row, journal,
        stored, task, todo, pending, completed, recovering, born, deleted,
        confirmed>>
    BY <1>7 DEF Reconcile, files, appDb, manifest, pass, history
  <2>2. VaultsAreNamed' /\ RemovedStaysRemovable' /\ OneOperation'
        /\ JournalNamesTombstones' /\ RegisteredVaultSafe' /\ DeletedStaysDeleted'
        /\ ConfirmedIsGone'
    BY <2>1 DEF IInv, VaultsAreNamed, RemovedStaysRemovable, OneOperation,
       JournalNamesTombstones, RegisteredVaultSafe, DeletedStaysDeleted,
       ConfirmedIsGone, Present, Readable, Uncommitted
  <2>3. Tasks'
    BY <1>7 DEF Reconcile, AfterMark, IInv, Tasks
  <2>4. Phases'
    BY <1>7, <2>1 DEF Reconcile, AfterMark, Uncommitted, IInv, Phases, PassCovers,
       InPass, Readable
  <2>5. PassCovers'
    BY <1>7, <2>1 DEF Reconcile, AfterMark, IInv, PassCovers, InPass, Readable,
       Present
  <2>6. Emptied'
    BY <1>7, <2>1 DEF Reconcile, AfterMark, IInv, Emptied, InPass
  <2>7. Births'
    BY <1>7, <2>1 DEF Reconcile, IInv, Births, InPass, Present
  <2>8. CredentialsPlanned'
    BY <1>7, <2>1 DEF Reconcile, AfterMark, IInv, CredentialsPlanned, PassCovers,
       NeedsCredential, Present, InPass, Readable
  <2> QED
    BY <2>2, <2>3, <2>4, <2>5, <2>6, <2>7, <2>8 DEF IInv
<1>8. CASE PassEnds
  <2>1. UNCHANGED <<vault, tomb, kind, members, credWanted, credDone, row, journal,
        stored, task, cur, todo, pending, completed, born, deleted>>
    BY <1>8 DEF PassEnds, files, appDb, manifest, pass, history
  <2>2. VaultsAreNamed' /\ RemovedStaysRemovable' /\ OneOperation'
        /\ JournalNamesTombstones' /\ RegisteredVaultSafe' /\ DeletedStaysDeleted'
    BY <2>1 DEF IInv, VaultsAreNamed, RemovedStaysRemovable, OneOperation,
       JournalNamesTombstones, RegisteredVaultSafe, DeletedStaysDeleted, Present,
       Readable, Uncommitted
  <2>3. Tasks'
    BY <1>8, <2>1 DEF PassEnds, Wanted, IInv, Tasks
  <2>4. Phases'
    BY <1>8 DEF PassEnds, IInv, Phases
  <2>5. PassCovers'
    BY <1>8, <2>1 DEF PassEnds, Recovered, IInv, PassCovers, InPass, Present
  <2>6. Emptied'
    BY <1>8 DEF PassEnds, IInv, Emptied, InPass
  <2>7. Births'
    BY <1>8, <2>1 DEF PassEnds, IInv, Births, InPass, Present
  <2>8. CredentialsPlanned'
    BY <1>8, <2>1 DEF PassEnds, IInv, CredentialsPlanned, NeedsCredential, Present
  <2>9. ConfirmedIsGone'
    BY <1>8, <2>1 DEF PassEnds, Wanted, IInv, ConfirmedIsGone, Emptied, InPass
  <2> QED
    BY <2>2, <2>3, <2>4, <2>5, <2>6, <2>7, <2>8, <2>9 DEF IInv
<1>9. CASE CreateDirectory
  <2>1. UNCHANGED <<vault, row, journal, stored, task, todo, pending, completed,
        recovering, born, deleted, confirmed>>
    BY <1>9 DEF CreateDirectory, files, appDb, manifest, pass, history
  <2>2. DeletedStaysDeleted' /\ ConfirmedIsGone'
    BY <2>1 DEF IInv, DeletedStaysDeleted, ConfirmedIsGone
  <2>3. Tasks'
    BY <1>9 DEF CreateDirectory, IInv, Tasks
  <2>4. Phases'
    BY <1>9 DEF CreateDirectory, IInv, TypeOK, Phases
  <2>5. PassCovers'
    BY <1>9, <2>1 DEF CreateDirectory, IInv, PassCovers, InPass
  <2>6. VaultsAreNamed'
    BY <1>9 DEF CreateDirectory, IInv, VaultsAreNamed, PassCovers, Readable, Present
  <2>7. Emptied'
    BY <1>9, <2>1 DEF CreateDirectory, IInv, Emptied, PassCovers, InPass
  <2>8. RemovedStaysRemovable'
    BY <1>9, <2>1 DEF CreateDirectory, IInv, RemovedStaysRemovable, PassCovers,
       Present
  <2>9. Births'
    BY <1>9, <2>1 DEF CreateDirectory, IInv, TypeOK, Births, Tasks, PassCovers,
       InPass, Present
  <2>10. CredentialsPlanned'
    BY <1>9 DEF CreateDirectory, IInv, TypeOK, CredentialsPlanned, Tasks,
       PassCovers, NeedsCredential, Present
  <2>11. OneOperation'
    BY <1>9 DEF CreateDirectory, IInv, TypeOK, OneOperation, PassCovers, Present
  <2>12. JournalNamesTombstones'
    BY <1>9, <2>1 DEF CreateDirectory, IInv, TypeOK, JournalNamesTombstones,
       PassCovers, Present
  <2>13. RegisteredVaultSafe'
    BY <1>9, <2>1 DEF CreateDirectory, IInv, RegisteredVaultSafe, PassCovers,
       Uncommitted, Present
  <2> QED
    BY <2>2, <2>3, <2>4, <2>5, <2>6, <2>7, <2>8, <2>9, <2>10, <2>11, <2>12, <2>13
       DEF IInv
<1>10. CASE WriteManifest
  <2>1. UNCHANGED <<vault, kind, members, credWanted, credDone, row, journal,
        stored, task, cur, todo, pending, completed, recovering, born, deleted,
        confirmed>>
    BY <1>10 DEF WriteManifest, files, appDb, manifest, pass, history
  <2>2. DeletedStaysDeleted' /\ ConfirmedIsGone'
    BY <2>1 DEF IInv, DeletedStaysDeleted, ConfirmedIsGone
  <2>3. Tasks'
    BY <1>10 DEF WriteManifest, IInv, Tasks
  <2>4. Phases'
    BY <1>10, <2>1 DEF WriteManifest, IInv, TypeOK, Phases, JournalNamesTombstones,
       Working
  <2>5. PassCovers'
    BY <1>10, <2>1 DEF WriteManifest, IInv, PassCovers, InPass
  <2>6. VaultsAreNamed'
    BY <1>10, <2>1 DEF WriteManifest, IInv, TypeOK, VaultsAreNamed, Readable
  <2>7. Emptied'
    BY <1>10, <2>1 DEF WriteManifest, IInv, Emptied, InPass, Working
  <2>8. RemovedStaysRemovable'
    BY <1>10, <2>1 DEF WriteManifest, IInv, TypeOK, RemovedStaysRemovable, Phases
  <2>9. Births'
    BY <1>10, <2>1 DEF WriteManifest, IInv, TypeOK, Births, Phases, InPass,
       Working, Present
  <2>10. CredentialsPlanned'
    BY <1>10, <2>1 DEF WriteManifest, IInv, TypeOK, CredentialsPlanned, Phases,
       NeedsCredential, Present
  <2>11. OneOperation'
    BY <1>10 DEF WriteManifest, IInv, TypeOK, OneOperation, Phases, Present
  <2>12. JournalNamesTombstones'
    BY <1>10, <2>1 DEF WriteManifest, IInv, TypeOK, JournalNamesTombstones
  <2>13. RegisteredVaultSafe'
    BY <1>10, <2>1 DEF WriteManifest, IInv, TypeOK, RegisteredVaultSafe, Uncommitted
  <2> QED
    BY <2>2, <2>3, <2>4, <2>5, <2>6, <2>7, <2>8, <2>9, <2>10, <2>11, <2>12, <2>13
       DEF IInv
<1>11. CASE StageVault
  <2>1. UNCHANGED <<tomb, kind, members, credWanted, credDone, row, journal,
        stored, task, cur, todo, pending, completed, recovering, born, deleted,
        confirmed>>
    BY <1>11 DEF StageVault, files, appDb, manifest, pass, history
  <2>2. OneOperation' /\ JournalNamesTombstones'
    BY <2>1 DEF IInv, OneOperation, JournalNamesTombstones, Present
  <2>3. Tasks'
    BY <1>11 DEF StageVault, IInv, Tasks
  <2>4. Phases'
    BY <1>11, <2>1 DEF StageVault, IInv, Phases
  <2>5. PassCovers'
    BY <1>11, <2>1 DEF StageVault, IInv, PassCovers, InPass
  <2>6. VaultsAreNamed'
    BY <1>11, <2>1 DEF StageVault, ToStage, IInv, TypeOK, VaultsAreNamed, Phases,
       Readable
  <2>7. Emptied'
    BY <1>11, <2>1 DEF StageVault, ToStage, IInv, TypeOK, Emptied, InPass, Working
  <2>8. RemovedStaysRemovable'
    BY <1>11, <2>1 DEF StageVault, ToStage, IInv, TypeOK, RemovedStaysRemovable,
       DeletedStaysDeleted
  <2>9. Births'
    BY <1>11, <2>1 DEF StageVault, ToStage, IInv, TypeOK, Births, InPass, Working,
       Present
  <2>10. CredentialsPlanned'
    BY <1>11, <2>1 DEF StageVault, IInv, CredentialsPlanned, NeedsCredential,
       Present
  <2>11. RegisteredVaultSafe'
    BY <1>11, <2>1 DEF StageVault, IInv, TypeOK, RegisteredVaultSafe, Phases,
       Uncommitted, Working
  <2>12. DeletedStaysDeleted'
    BY <1>11, <2>1 DEF StageVault, IInv, TypeOK, DeletedStaysDeleted, Working
  <2>13. ConfirmedIsGone'
    BY <1>11, <2>1 DEF StageVault, ToStage, IInv, TypeOK, ConfirmedIsGone
  <2> QED
    BY <2>2, <2>3, <2>4, <2>5, <2>6, <2>7, <2>8, <2>9, <2>10, <2>11, <2>12, <2>13
       DEF IInv
<1>12. CASE CommitRemoval
  <2>1. UNCHANGED <<vault, tomb, kind, members, credWanted, credDone, stored, task,
        cur, todo, pending, completed, recovering, born, confirmed>>
    BY <1>12 DEF CommitRemoval, files, appDb, manifest, pass, history
  <2>2. VaultsAreNamed' /\ OneOperation'
    BY <2>1 DEF IInv, VaultsAreNamed, OneOperation, Present, Readable
  <2>3. Tasks'
    BY <1>12 DEF CommitRemoval, IInv, Tasks
  <2>4. Phases'
    BY <1>12, <2>1 DEF CommitRemoval, appDb, IInv, Phases
  <2>5. PassCovers'
    BY <1>12, <2>1 DEF CommitRemoval, IInv, PassCovers, InPass
  <2>6. Emptied'
    BY <1>12, <2>1 DEF CommitRemoval, IInv, Emptied, InPass, Working
  <2>7. RemovedStaysRemovable'
    BY <1>12, <2>1 DEF CommitRemoval, appDb, IInv, TypeOK, RemovedStaysRemovable,
       Phases, VaultsAreNamed, OneOperation, Readable, Present
  <2>8. Births'
    BY <1>12, <2>1 DEF CommitRemoval, appDb, IInv, TypeOK, Births, Phases, InPass,
       Working, Present
  <2>9. CredentialsPlanned'
    BY <1>12, <2>1 DEF CommitRemoval, IInv, CredentialsPlanned, NeedsCredential,
       Present
  <2>10. JournalNamesTombstones'
    BY <1>12, <2>1 DEF CommitRemoval, appDb, IInv, JournalNamesTombstones, Phases
  <2>11. RegisteredVaultSafe'
    BY <1>12, <2>1 DEF CommitRemoval, Removed, appDb, IInv, RegisteredVaultSafe,
       VaultsAreNamed, Uncommitted
  <2>12. DeletedStaysDeleted'
    BY <1>12, <2>1 DEF CommitRemoval, Removed, appDb, IInv, TypeOK,
       DeletedStaysDeleted, Emptied, ToStage
  <2>13. ConfirmedIsGone'
    BY <1>12, <2>1 DEF CommitRemoval, appDb, IInv, TypeOK, ConfirmedIsGone
  <2> QED
    BY <2>2, <2>3, <2>4, <2>5, <2>6, <2>7, <2>8, <2>9, <2>10, <2>11, <2>12, <2>13
       DEF IInv
<1>13. CASE MarkCommitted
  <2>1. UNCHANGED <<vault, kind, members, credWanted, credDone, row, journal,
        stored, task, cur, born, deleted, confirmed>>
    BY <1>13 DEF MarkCommitted, files, appDb, manifest, pass, history
  <2>2. DeletedStaysDeleted' /\ ConfirmedIsGone'
    BY <2>1 DEF IInv, DeletedStaysDeleted, ConfirmedIsGone
  <2>3. Tasks'
    BY <1>13 DEF MarkCommitted, AfterMark, Fails, IInv, Tasks
  <2>4. Phases'
    BY <1>13 DEF MarkCommitted, AfterMark, Fails, IInv, TypeOK, Phases
  <2>5. PassCovers'
    BY <1>13 DEF MarkCommitted, AfterMark, Fails, IInv, TypeOK, PassCovers, InPass,
       Readable, Present, Working, pass
  <2>6. VaultsAreNamed'
    BY <1>13, <2>1 DEF MarkCommitted, IInv, TypeOK, VaultsAreNamed, Readable
  <2>7. Emptied'
    BY <1>13 DEF MarkCommitted, AfterMark, Fails, IInv, Emptied, InPass, Working,
       pass
  <2>8. RemovedStaysRemovable'
    BY <1>13, <2>1 DEF MarkCommitted, IInv, TypeOK, RemovedStaysRemovable
  <2>9. Births'
    BY <1>13, <2>1 DEF MarkCommitted, AfterMark, Fails, IInv, TypeOK, Births,
       Phases, InPass, Working, Present, pass
  <2>10. CredentialsPlanned'
    BY <1>13, <2>1 DEF MarkCommitted, AfterMark, Fails, IInv, TypeOK,
       CredentialsPlanned, Phases, NeedsCredential, Present
  <2>11. OneOperation'
    BY <1>13 DEF MarkCommitted, IInv, TypeOK, OneOperation, Phases, Present
  <2>12. JournalNamesTombstones'
    BY <1>13, <2>1 DEF MarkCommitted, IInv, TypeOK, JournalNamesTombstones
  <2>13. RegisteredVaultSafe'
    BY <1>13, <2>1 DEF MarkCommitted, IInv, TypeOK, RegisteredVaultSafe, Phases,
       Uncommitted
  <2> QED
    BY <2>2, <2>3, <2>4, <2>5, <2>6, <2>7, <2>8, <2>9, <2>10, <2>11, <2>12, <2>13
       DEF IInv
<1>14. CASE RemoveCredential
  <2>1. UNCHANGED <<vault, tomb, kind, members, credWanted, credDone, row, journal,
        task, cur, born, deleted, confirmed>>
    BY <1>14 DEF RemoveCredential, files, appDb, manifest, pass, history
  <2>2. VaultsAreNamed' /\ RemovedStaysRemovable' /\ OneOperation'
        /\ JournalNamesTombstones' /\ RegisteredVaultSafe' /\ DeletedStaysDeleted'
        /\ ConfirmedIsGone'
    BY <2>1 DEF IInv, VaultsAreNamed, RemovedStaysRemovable, OneOperation,
       JournalNamesTombstones, RegisteredVaultSafe, DeletedStaysDeleted,
       ConfirmedIsGone, Present, Readable, Uncommitted
  <2>3. Tasks'
    BY <1>14 DEF RemoveCredential, Fails, IInv, Tasks
  <2>4. Phases'
    BY <1>14, <2>1 DEF RemoveCredential, Fails, IInv, Phases
  <2>5. PassCovers'
    BY <1>14, <2>1 DEF RemoveCredential, Fails, IInv, PassCovers, InPass, Readable,
       Present, Working, pass
  <2>6. Emptied'
    BY <1>14, <2>1 DEF RemoveCredential, Fails, IInv, Emptied, InPass, Working, pass
  <2>7. Births'
    BY <1>14, <2>1 DEF RemoveCredential, Fails, IInv, Births, InPass, Working,
       Present, pass
  <2>8. CredentialsPlanned'
    BY <1>14, <2>1 DEF RemoveCredential, Fails, IInv, CredentialsPlanned,
       NeedsCredential, Present
  <2> QED
    BY <2>2, <2>3, <2>4, <2>5, <2>6, <2>7, <2>8 DEF IInv
<1>15. CASE MarkCredential
  <2>1. UNCHANGED <<vault, tomb, kind, members, credWanted, row, journal, stored,
        task, cur, born, deleted, confirmed>>
    BY <1>15 DEF MarkCredential, files, appDb, manifest, pass, history
  <2>2. VaultsAreNamed' /\ RemovedStaysRemovable' /\ OneOperation'
        /\ JournalNamesTombstones' /\ RegisteredVaultSafe' /\ DeletedStaysDeleted'
        /\ ConfirmedIsGone'
    BY <2>1 DEF IInv, VaultsAreNamed, RemovedStaysRemovable, OneOperation,
       JournalNamesTombstones, RegisteredVaultSafe, DeletedStaysDeleted,
       ConfirmedIsGone, Present, Readable, Uncommitted
  <2>3. Tasks'
    BY <1>15 DEF MarkCredential, Fails, IInv, Tasks
  <2>4. Phases'
    BY <1>15 DEF MarkCredential, Fails, IInv, Phases
  <2>5. PassCovers'
    BY <1>15 DEF MarkCredential, Fails, IInv, PassCovers, InPass, Readable,
       Present, Working, pass
  <2>6. Emptied'
    BY <1>15 DEF MarkCredential, Fails, IInv, Emptied, InPass, Working, pass
  <2>7. Births'
    BY <1>15, <2>1 DEF MarkCredential, Fails, IInv, Births, InPass, Working,
       Present, pass
  <2>8. CredentialsPlanned'
    BY <1>15 DEF MarkCredential, IInv, CredentialsPlanned
  <2> QED
    BY <2>2, <2>3, <2>4, <2>5, <2>6, <2>7, <2>8 DEF IInv
<1>16. CASE CleanVault
  <2>1. UNCHANGED <<tomb, kind, members, credWanted, credDone, row, journal,
        stored, task, cur, born, deleted, confirmed>>
    BY <1>16 DEF CleanVault, files, appDb, manifest, pass, history
  <2>2. OneOperation' /\ JournalNamesTombstones'
    BY <2>1 DEF IInv, OneOperation, JournalNamesTombstones, Present
  <2>3. Tasks'
    BY <1>16 DEF CleanVault, Fails, IInv, Tasks
  <2>4. Phases'
    BY <1>16 DEF CleanVault, Fails, IInv, Phases
  <2>5. PassCovers'
    BY <1>16 DEF CleanVault, Fails, IInv, PassCovers, InPass, Readable, Present,
       Working, pass
  <2>6. VaultsAreNamed'
    BY <1>16, <2>1 DEF CleanVault, IInv, TypeOK, VaultsAreNamed, Readable
  <2>7. Emptied'
    BY <1>16, <2>1 DEF CleanVault, Fails, Staged, Competing, IInv, TypeOK, Emptied,
       Phases, VaultsAreNamed, OneOperation, InPass, Working, Readable, Present,
       pass
  <2>8. RemovedStaysRemovable'
    BY <1>16, <2>1 DEF CleanVault, IInv, TypeOK, RemovedStaysRemovable
  <2>9. Births'
    BY <1>16, <2>1 DEF CleanVault, Fails, IInv, TypeOK, Births, InPass, Working,
       Present, pass
  <2>10. CredentialsPlanned'
    BY <1>16, <2>1 DEF CleanVault, Fails, IInv, CredentialsPlanned,
       NeedsCredential, Present
  <2>11. RegisteredVaultSafe'
    BY <1>16, <2>1 DEF CleanVault, Staged, IInv, TypeOK, RegisteredVaultSafe,
       Phases, Uncommitted, Working
  <2>12. DeletedStaysDeleted'
    BY <1>16, <2>1 DEF CleanVault, IInv, TypeOK, DeletedStaysDeleted
  <2>13. ConfirmedIsGone'
    BY <1>16, <2>1 DEF CleanVault, IInv, TypeOK, ConfirmedIsGone
  <2> QED
    BY <2>2, <2>3, <2>4, <2>5, <2>6, <2>7, <2>8, <2>9, <2>10, <2>11, <2>12, <2>13
       DEF IInv
<1>17. CASE DropJournal
  <2>1. UNCHANGED <<vault, tomb, kind, members, credWanted, credDone, row, stored,
        task, cur, born, deleted, confirmed>>
    BY <1>17 DEF DropJournal, files, appDb, manifest, pass, history
  <2>2. VaultsAreNamed' /\ OneOperation' /\ DeletedStaysDeleted' /\ ConfirmedIsGone'
    BY <2>1 DEF IInv, VaultsAreNamed, OneOperation, DeletedStaysDeleted,
       ConfirmedIsGone, Present, Readable
  <2>3. Tasks'
    BY <1>17 DEF DropJournal, Fails, IInv, Tasks
  <2>4. Phases'
    BY <1>17, <2>1 DEF DropJournal, Fails, IInv, Phases
  <2>5. PassCovers'
    BY <1>17, <2>1 DEF DropJournal, Fails, IInv, PassCovers, InPass, Readable,
       Present, Working, pass
  <2>6. Emptied'
    BY <1>17, <2>1 DEF DropJournal, Fails, IInv, Emptied, InPass, Working, pass
  <2>7. RemovedStaysRemovable'
    BY <1>17, <2>1 DEF DropJournal, IInv, RemovedStaysRemovable, Phases
  <2>8. Births'
    BY <1>17, <2>1 DEF DropJournal, Fails, IInv, Births, InPass, Working, Present,
       pass
  <2>9. CredentialsPlanned'
    BY <1>17, <2>1 DEF DropJournal, Fails, IInv, CredentialsPlanned,
       NeedsCredential, Present
  <2>10. JournalNamesTombstones'
    BY <1>17, <2>1 DEF DropJournal, IInv, JournalNamesTombstones
  <2>11. RegisteredVaultSafe'
    BY <1>17, <2>1 DEF DropJournal, IInv, RegisteredVaultSafe, Uncommitted
  <2> QED
    BY <2>2, <2>3, <2>4, <2>5, <2>6, <2>7, <2>8, <2>9, <2>10, <2>11 DEF IInv
<1>18. CASE RestoreVault
  <2>1. UNCHANGED <<tomb, kind, members, credWanted, credDone, row, journal,
        stored, task, cur, born, deleted, confirmed>>
    BY <1>18 DEF RestoreVault, files, appDb, manifest, pass, history
  <2>2. OneOperation' /\ JournalNamesTombstones'
    BY <2>1 DEF IInv, OneOperation, JournalNamesTombstones, Present
  <2>3. Tasks'
    BY <1>18 DEF RestoreVault, Fails, IInv, Tasks
  <2>4. Phases'
    BY <1>18, <2>1 DEF RestoreVault, Fails, IInv, Phases
  <2>5. PassCovers'
    BY <1>18 DEF RestoreVault, Fails, IInv, PassCovers, InPass, Readable, Present,
       Working, pass
  <2>6. VaultsAreNamed'
    BY <1>18, <2>1 DEF RestoreVault, IInv, TypeOK, VaultsAreNamed, Readable
  <2>7. Emptied'
    BY <1>18, <2>1 DEF RestoreVault, Fails, Staged, IInv, TypeOK, Emptied, InPass,
       Working, pass
  <2>8. RemovedStaysRemovable'
    BY <1>18, <2>1 DEF RestoreVault, IInv, TypeOK, RemovedStaysRemovable
  <2>9. Births'
    BY <1>18, <2>1 DEF RestoreVault, Fails, Staged, IInv, TypeOK, Births, InPass,
       Working, Present, pass
  <2>10. CredentialsPlanned'
    BY <1>18, <2>1 DEF RestoreVault, Fails, IInv, CredentialsPlanned,
       NeedsCredential, Present
  <2>11. RegisteredVaultSafe'
    BY <1>18, <2>1 DEF RestoreVault, IInv, TypeOK, RegisteredVaultSafe, Uncommitted
  <2>12. DeletedStaysDeleted'
    BY <1>18, <2>1 DEF RestoreVault, Staged, IInv, TypeOK, DeletedStaysDeleted,
       Phases, RemovedStaysRemovable, Working
  <2>13. ConfirmedIsGone'
    BY <1>18, <2>1 DEF RestoreVault, Staged, IInv, TypeOK, ConfirmedIsGone, Working
  <2> QED
    BY <2>2, <2>3, <2>4, <2>5, <2>6, <2>7, <2>8, <2>9, <2>10, <2>11, <2>12, <2>13
       DEF IInv
<1>19. CASE RemoveManifest
  <2>1. UNCHANGED <<vault, kind, members, credWanted, credDone, row, journal,
        stored, task, cur, born, deleted, confirmed>>
    BY <1>19 DEF RemoveManifest, files, appDb, manifest, pass, history
  <2>2. DeletedStaysDeleted' /\ ConfirmedIsGone'
    BY <2>1 DEF IInv, DeletedStaysDeleted, ConfirmedIsGone
  <2>3. Tasks'
    BY <1>19 DEF RemoveManifest, Fails, IInv, Tasks
  <2>4. Phases'
    BY <1>19 DEF RemoveManifest, Fails, IInv, TypeOK, Phases, Working
  <2>5. PassCovers'
    BY <1>19 DEF RemoveManifest, Fails, IInv, TypeOK, PassCovers, InPass, Readable,
       Present, Working, pass
  <2>6. VaultsAreNamed'
    BY <1>19, <2>1 DEF RemoveManifest, IInv, TypeOK, VaultsAreNamed, Emptied,
       Readable, Staged
  <2>7. Emptied'
    BY <1>19, <2>1 DEF RemoveManifest, Fails, IInv, Emptied, InPass, Working, pass
  <2>8. RemovedStaysRemovable'
    BY <1>19, <2>1 DEF RemoveManifest, IInv, TypeOK, RemovedStaysRemovable,
       VaultsAreNamed, Emptied, Staged
  <2>9. Births'
    BY <1>19, <2>1 DEF RemoveManifest, Fails, IInv, TypeOK, Births, Phases, InPass,
       Working, Present, pass
  <2>10. CredentialsPlanned'
    BY <1>19, <2>1 DEF RemoveManifest, Fails, IInv, TypeOK, CredentialsPlanned,
       Phases, NeedsCredential, Present
  <2>11. OneOperation'
    BY <1>19 DEF RemoveManifest, IInv, TypeOK, OneOperation, Phases, Present
  <2>12. JournalNamesTombstones'
    BY <1>19, <2>1 DEF RemoveManifest, IInv, TypeOK, JournalNamesTombstones, Phases
  <2>13. RegisteredVaultSafe'
    BY <1>19, <2>1 DEF RemoveManifest, IInv, TypeOK, RegisteredVaultSafe,
       VaultsAreNamed, Emptied, Uncommitted, Staged
  <2> QED
    BY <2>2, <2>3, <2>4, <2>5, <2>6, <2>7, <2>8, <2>9, <2>10, <2>11, <2>12, <2>13
       DEF IInv
<1>20. CASE RemoveDirectory
  <2>1. UNCHANGED <<vault, kind, members, credWanted, credDone, row, journal,
        stored, task, cur, born, deleted>>
    BY <1>20 DEF RemoveDirectory, files, appDb, manifest, pass, history
  <2>2. DeletedStaysDeleted'
    BY <2>1 DEF IInv, DeletedStaysDeleted
  <2>3. Tasks'
    BY <1>20 DEF RemoveDirectory, Fails, IInv, Tasks
  <2>4. Phases'
    BY <1>20 DEF RemoveDirectory, Fails, IInv, Phases
  <2>5. PassCovers'
    BY <1>20 DEF RemoveDirectory, Fails, IInv, TypeOK, PassCovers, InPass,
       Readable, Present, Working
  <2>6. VaultsAreNamed'
    BY <1>20, <2>1 DEF RemoveDirectory, IInv, TypeOK, VaultsAreNamed, Phases,
       Readable
  <2>7. Emptied'
    BY <1>20 DEF RemoveDirectory, Fails, IInv, Emptied, InPass, Working
  <2>8. RemovedStaysRemovable'
    BY <1>20, <2>1 DEF RemoveDirectory, IInv, TypeOK, RemovedStaysRemovable, Phases
  <2>9. Births'
    BY <1>20, <2>1 DEF RemoveDirectory, Fails, IInv, TypeOK, Births, Phases,
       InPass, Working, Present
  <2>10. CredentialsPlanned'
    BY <1>20, <2>1 DEF RemoveDirectory, Fails, IInv, TypeOK, CredentialsPlanned,
       NeedsCredential, Present
  <2>11. OneOperation'
    BY <1>20 DEF RemoveDirectory, IInv, TypeOK, OneOperation, Present
  <2>12. JournalNamesTombstones'
    BY <1>20, <2>1 DEF RemoveDirectory, IInv, TypeOK, JournalNamesTombstones, Phases
  <2>13. RegisteredVaultSafe'
    BY <1>20, <2>1 DEF RemoveDirectory, IInv, TypeOK, RegisteredVaultSafe, Phases,
       Uncommitted
  <2>14. ConfirmedIsGone'
    BY <1>20, <2>1 DEF RemoveDirectory, IInv, TypeOK, ConfirmedIsGone, Emptied,
       RegisteredVaultSafe
  <2> QED
    BY <2>2, <2>3, <2>4, <2>5, <2>6, <2>7, <2>8, <2>9, <2>10, <2>11, <2>12, <2>13,
       <2>14 DEF IInv
<1>21. CASE Crash
  <2>1. UNCHANGED <<vault, tomb, kind, members, credWanted, credDone, row, journal,
        stored, born, deleted, confirmed>>
    BY <1>21 DEF Crash, files, appDb, manifest, pass, history
  <2>2. VaultsAreNamed' /\ RemovedStaysRemovable' /\ OneOperation'
        /\ JournalNamesTombstones' /\ RegisteredVaultSafe' /\ DeletedStaysDeleted'
        /\ ConfirmedIsGone'
    BY <2>1 DEF IInv, VaultsAreNamed, RemovedStaysRemovable, OneOperation,
       JournalNamesTombstones, RegisteredVaultSafe, DeletedStaysDeleted,
       ConfirmedIsGone, Present, Readable, Uncommitted
  <2>3. Tasks'
    BY <1>21 DEF Crash, Startup, IInv, Tasks
  <2>4. Phases'
    BY <1>21 DEF Crash, IInv, Phases
  <2>5. PassCovers'
    BY <1>21 DEF Crash, IInv, PassCovers, InPass
  <2>6. Emptied'
    BY <1>21 DEF Crash, IInv, Emptied
  <2>7. Births'
    BY <1>21, <2>1 DEF Crash, IInv, Births, Present
  <2>8. CredentialsPlanned'
    BY <1>21, <2>1 DEF Crash, IInv, CredentialsPlanned, NeedsCredential, Present
  <2> QED
    BY <2>2, <2>3, <2>4, <2>5, <2>6, <2>7, <2>8 DEF IInv
<1>22. CASE UNCHANGED vars
  BY <1>22 DEF vars, files, appDb, pass, history, IInv, Tasks, Phases, PassCovers,
     VaultsAreNamed, Emptied, RemovedStaysRemovable, Births, CredentialsPlanned,
     OneOperation, JournalNamesTombstones, RegisteredVaultSafe,
     DeletedStaysDeleted, ConfirmedIsGone, InPass, NeedsCredential, Present,
     Readable, Staged, ToStage, Uncommitted, Working
<1> QED
  BY <1>1, <1>2, <1>3, <1>4, <1>5, <1>6, <1>7, <1>8, <1>9, <1>10, <1>11, <1>12,
     <1>13, <1>14, <1>15, <1>16, <1>17, <1>18, <1>19, <1>20, <1>21, <1>22 DEF Next,
     Request, Step

-----------------------------------------------------------------------------
(* The theorems.                                                            *)

\* Nothing exists yet in the initial states.
LEMMA InvariantInit == Init => TypeOK /\ IInv
<1> SUFFICES ASSUME Init PROVE TypeOK /\ IInv
  OBVIOUS
<1> USE DeletionAssumption DEF Init
<1>1. TypeOK
  <2>1. row \in [Projects -> BOOLEAN]
    BY Zenon
  <2>2. credWanted \in [Tombstones -> BOOLEAN] /\ credDone \in [Tombstones -> BOOLEAN]
    BY Zenon
  <2>3. task \in [kind : {"startup", "create", "delete", "reset"},
                  target : Projects \cup {None}, plan : BOOLEAN]
    BY Zenon DEF Startup
  <2> QED
    BY <2>1, <2>2, <2>3 DEF TypeOK, PCs, Working
<1>2. Tasks /\ Phases /\ PassCovers
  BY DEF Tasks, Startup, Phases, PassCovers, InPass
<1>3. VaultsAreNamed /\ Emptied /\ RemovedStaysRemovable /\ RegisteredVaultSafe
  BY DEF VaultsAreNamed, Emptied, InPass, RemovedStaysRemovable, RegisteredVaultSafe
<1>4. Births /\ CredentialsPlanned /\ OneOperation
  BY DEF Births, InPass, CredentialsPlanned, OneOperation, Present
<1>5. JournalNamesTombstones /\ DeletedStaysDeleted /\ ConfirmedIsGone
  BY DEF JournalNamesTombstones, DeletedStaysDeleted, ConfirmedIsGone
<1> QED
  BY <1>1, <1>2, <1>3, <1>4, <1>5 DEF IInv

\* Both invariants hold in every behaviour.
LEMMA Invariants == Spec => [](TypeOK /\ IInv)
<1>1. TypeOK /\ IInv /\ [Next]_vars => (TypeOK /\ IInv)'
  BY TypeStep, InvariantStep
<1> QED
  BY InvariantInit, <1>1, PTL DEF Spec

\* Every variable keeps its type, and a step of an operation has an operation.
THEOREM TypeCorrect == Spec => []TypeOK
BY Invariants, PTL

\* Whatever fails and wherever the process dies, the vault of a registered project
\* is in its place or in a tombstone that recovery rolls back (INTERFACES.md:102-103).
THEOREM RegisteredVaultsAreSafe == Spec => []RegisteredVaultSafe
BY Invariants, PTL DEF IInv

\* No restart and no retry brings a removed vault or its row back
\* (INTERFACES.md:104-105).
THEOREM DeletionIsFinal == Spec => []DeletedStaysDeleted
BY Invariants, PTL DEF IInv

\* A project reported as deleted has no vault left, neither in its place nor in a
\* tombstone, also when recovery did the work (service.py:245-288).
THEOREM ConfirmationIsTrue == Spec => []ConfirmedIsGone
BY Invariants, PTL DEF IInv

\* At most one tombstone exists at any time, for any number of operations
\* (service.py:245-251, 304-310).
THEOREM OneOperationAtATime == Spec => []OneOperation
BY Invariants, PTL DEF IInv

\* The journal never names a tombstone that recovery cannot read, so the check of
\* service.py:401-406 never refuses for the service's own sake.
THEOREM JournalIsReadable == Spec => []JournalNamesTombstones
BY Invariants, PTL DEF IInv

\* A reset never forgets its tombstone while a credential it found is still stored,
\* whatever removal failed before (service.py:555-580).
THEOREM ResetRemovesCredentials == Spec => []ResetForgetsCredential
<1>1. IInv => ResetForgetsCredential
  BY DEF IInv, CredentialsPlanned, ResetForgetsCredential
<1> QED
  BY Invariants, <1>1, PTL

-----------------------------------------------------------------------------
(* The desktop's side: CoreClient.                                         *)

USE DEF K!ClientAssumption

\* What the client knows of its processes: it has spawned those it names, what waits for an
\* answer waits for the one it holds, and one whose close is awaited with a timer was killed.
ClientKnows ==
    /\ child # None => proc[child] # "none"
    /\ \A p \in killed : proc[p] # "none"
    /\ shut.stage # "none" => shut.target \in Cores /\ proc[shut.target] # "none"
    /\ \A c \in K!Calls : K!Pending(c) => call[c] = child
    /\ errorTimer => child \in killed
    /\ shut.stage = "killing" /\ child = shut.target => child \in killed

\* A shutdown that the application waits for is of the process it holds, if any, and only such
\* a shutdown asks the process to end.
QuitsItsCore ==
    /\ app = "shutdown" /\ child # None => shut.stage # "none" /\ child = shut.target
    /\ shut.stage = "asked" => app \in {"shutdown", "exited"}

ClientInv == K!TypeOK /\ ClientKnows /\ QuitsItsCore /\ OneCore

\* Scheduling a restart keeps the types of the controller.
LEMMA ScheduleTypes ==
    ASSUME K!TypeOK, K!Schedule
    PROVE  attempts' \in 0..MaxAttempts /\ restartTimer' \in BOOLEAN /\ exhausted' \in BOOLEAN
<1>1. attempts' = attempts \/ (~(attempts >= MaxAttempts) /\ attempts' = attempts + 1)
  BY Zenon DEF K!Schedule
<1>2. attempts' \in 0..MaxAttempts
  BY <1>1, ClientAssumed DEF K!TypeOK
<1>3. restartTimer' \in BOOLEAN /\ exhausted' \in BOOLEAN
  BY DEF K!Schedule, K!TypeOK
<1> QED
  BY <1>2, <1>3

\* TypeOK in parts.
StateTypes ==
    /\ status \in {"stopped", "starting", "ready", "unavailable", "stopping"}
    /\ startPromise \in {"none", "open", "ready", "failed"}
    /\ lifecycle \in {"none", "expected", "unexpected"}
    /\ boot \in {"begin", "start", "hello", "health", "failing", "idle"}
    /\ app \in {"running", "exports", "shutdown", "exited"}
SwitchTypes ==
    /\ metadata \in BOOLEAN /\ startTimer \in BOOLEAN /\ intentional \in BOOLEAN
    /\ errorTimer \in BOOLEAN /\ hurried \in BOOLEAN
ProcessTypes ==
    /\ child \in Cores \cup {None}
    /\ shut \in [stage : {"none", "asked", "closing", "killing"}, target : Cores \cup {None}]
    /\ proc \in [Cores -> {"none", "booting", "up", "dead"}]
    /\ out \in [Cores -> SUBSET (K!Calls \cup {"ready"})]
    /\ killed \subseteq Cores /\ stuck \subseteq Cores
ControllerTypes ==
    /\ attempts \in 0..MaxAttempts
    /\ restartTimer \in BOOLEAN /\ stabilityTimer \in BOOLEAN /\ inFlight \in BOOLEAN
    /\ crashDuring \in BOOLEAN /\ exhausted \in BOOLEAN /\ windows \in 0..MaxStable

\* What the restart controller does keeps the types of its variables.
LEMMA ControllerKeeps ==
    ASSUME K!TypeOK, K!UnexpectedClose \/ UNCHANGED K!controller \/ K!AttemptEnds
    PROVE  ControllerTypes'
<1>1. CASE UNCHANGED K!controller
  BY <1>1 DEF K!TypeOK, K!controller, ControllerTypes
<1>2. CASE K!UnexpectedClose
  BY <1>2, ScheduleTypes DEF K!TypeOK, K!UnexpectedClose, K!controller, ControllerTypes
<1>3. CASE K!AttemptEnds
  BY <1>3, ScheduleTypes DEF K!TypeOK, K!AttemptEnds, ControllerTypes
<1> QED
  BY <1>1, <1>2, <1>3

\* Sending a call to the core keeps the types of the calls.
LEMMA SendKeeps ==
    ASSUME K!TypeOK, NEW c \in K!Calls, K!Send(c)
    PROVE  call' \in [K!Calls -> {"none", "ok", "failed"} \cup Cores]
<1>1. K!Refused \/ child \in Cores
  BY DEF K!Refused, K!TypeOK
<1>2. (IF K!Refused THEN "failed" ELSE child) \in {"none", "ok", "failed"} \cup Cores
  BY <1>1
<1> QED
  BY <1>2 DEF K!Send, K!TypeOK

\* Starting either leaves the processes as they are or spawns one when there is none.
Spawns ==
    /\ child = None /\ child' \in Cores
    /\ proc[child'] = "none" /\ proc' = [proc EXCEPT ![child'] = "booting"]
StartTypes ==
    /\ status \in {"stopped", "starting", "ready", "unavailable", "stopping"}
    /\ metadata \in BOOLEAN /\ startTimer \in BOOLEAN /\ intentional \in BOOLEAN
    /\ startPromise \in {"none", "open", "ready", "failed"} /\ clientFaults \in 0..MaxClientFaults

\* A start spawns at most one core, a fresh one, when the client has none.
LEMMA StartSpawns ==
    ASSUME K!Start
    PROVE  UNCHANGED <<call, out, stuck>> /\ (UNCHANGED <<child, proc>> \/ Spawns)
<1>1. UNCHANGED <<call, out, stuck>>
  BY DEF K!Start, K!world
<1>2. \/ UNCHANGED <<child, proc>>
      \/ /\ child = None /\ \E p \in Cores : proc[p] = "none"
         /\ child' = K!Fresh /\ proc' = [proc EXCEPT ![K!Fresh] = "booting"]
  BY DEF K!Start, K!world
<1>3. ASSUME \E p \in Cores : proc[p] = "none" PROVE K!Fresh \in Cores /\ proc[K!Fresh] = "none"
  BY <1>3 DEF K!Fresh
<1> QED
  BY <1>1, <1>2, <1>3 DEF Spawns

\* A start keeps the types of the client.
LEMMA StartKeepsTypes ==
    ASSUME K!TypeOK, K!Start
    PROVE  StartTypes'
<1>1. K!NoFault \/ K!Fault("spawn")
  BY DEF K!Start
<1>2. clientFaults' \in 0..MaxClientFaults
  BY <1>1, ClientAssumed DEF K!NoFault, K!Fault, K!TypeOK
<1>3. /\ status' \in {"stopped", "starting", "ready", "unavailable", "stopping"}
      /\ startPromise' \in {"none", "open", "ready", "failed"}
  BY DEF K!Start, K!TypeOK
<1>4. metadata' \in BOOLEAN /\ startTimer' \in BOOLEAN /\ intentional' \in BOOLEAN
  BY DEF K!Start, K!TypeOK
<1> QED
  BY <1>2, <1>3, <1>4 DEF StartTypes

\* The application does not start a process once it waits for the shutdown.
LEMMA NoneToStart ==
    ASSUME ClientInv, K!Turns, child = None
    PROVE  app # "shutdown"
<1> SUFFICES ASSUME app = "shutdown" PROVE FALSE
  OBVIOUS
<1> USE DEF ClientInv
<1>1. shut.stage # "none" /\ ~(shut.stage \in {"closing", "killing"} /\ child # shut.target)
  BY DEF K!Turns, K!Awaiting
<1>2. shut.target # None
  BY <1>1, ClientAssumed DEF ClientKnows
<1>3. shut.stage = "asked"
  BY <1>1, <1>2 DEF K!TypeOK
<1>4. K!Pending("shutdown") /\ "shutdown" \in K!Calls
  BY <1>3 DEF K!Turns, K!Awaiting, K!Calls
<1> QED
  BY <1>4, ClientAssumed DEF ClientKnows, K!Pending

\* Each action of the client, the controller and the cores keeps the inductive invariant.
LEMMA ClientStep == ClientInv /\ [K!Next]_(K!vars) => ClientInv'
<1> SUFFICES ASSUME ClientInv, [K!Next]_(K!vars) PROVE ClientInv'
  OBVIOUS
<1> USE DEF ClientInv, K!transport, K!children, K!controller, K!world
<1>1. ASSUME app # "exited", K!BootGoesOn PROVE ClientInv'
  <2>1. K!TypeOK'
    <3>1. StateTypes'
      BY <1>1 DEF K!BootGoesOn, K!Send, K!Refused, K!TypeOK, StateTypes
    <3>2. SwitchTypes'
      BY <1>1 DEF K!BootGoesOn, K!Send, K!Refused, K!TypeOK, SwitchTypes
    <3>3. call' \in [K!Calls -> {"none", "ok", "failed"} \cup Cores]
      <4>1. K!Send("boot")
        BY <1>1 DEF K!BootGoesOn, K!Calls
      <4>2. "boot" \in K!Calls /\ "shutdown" \in K!Calls
        BY DEF K!Calls
      <4> QED
        BY <4>1, <4>2, SendKeeps
    <3>4. ProcessTypes'
      BY <1>1 DEF K!BootGoesOn, K!Send, K!Refused, K!TypeOK, ProcessTypes
    <3>5. clientFaults' \in 0..MaxClientFaults
      BY <1>1, ClientAssumed DEF K!BootGoesOn, K!Send, K!Refused, K!TypeOK
    <3>6. ControllerTypes'
      BY <1>1 DEF K!BootGoesOn, K!Send, K!Refused, K!TypeOK, ControllerTypes
    <3> QED
      BY <3>1, <3>2, <3>3, <3>4, <3>5, <3>6
      DEF K!TypeOK, StateTypes, SwitchTypes, ProcessTypes, ControllerTypes
  <2>2. ClientKnows'
    BY <1>1, ClientAssumed DEF K!BootGoesOn, K!Send, K!Refused, K!TypeOK, ClientKnows, K!Pending
  <2>3. QuitsItsCore'
    BY <1>1, ClientAssumed DEF K!BootGoesOn, K!Send, K!Refused, K!TypeOK, ClientKnows,
       QuitsItsCore, K!Pending
  <2>4. OneCore'
    BY <1>1, ClientAssumed DEF K!BootGoesOn, K!Send, K!Refused, K!TypeOK, ClientKnows,
       QuitsItsCore, OneCore, K!OneCore, K!Alive
  <2> QED
    BY <2>1, <2>2, <2>3, <2>4
<1>2. ASSUME app # "exited", K!BootFails PROVE ClientInv'
  <2>1. K!TypeOK'
    <3>1. StateTypes'
      BY <1>2 DEF K!BootFails, K!Rejected, K!Pending, K!Kill, K!FailureStatus, K!Lifecycle,
         K!Fault, K!NoFault, K!TypeOK, StateTypes
    <3>2. SwitchTypes'
      BY <1>2 DEF K!BootFails, K!Rejected, K!Pending, K!Kill, K!FailureStatus, K!Lifecycle,
         K!Fault, K!NoFault, K!TypeOK, SwitchTypes
    <3>3. call' \in [K!Calls -> {"none", "ok", "failed"} \cup Cores]
      BY <1>2, ClientAssumed DEF K!BootFails, K!Rejected, K!Pending, K!Kill, K!FailureStatus,
         K!Lifecycle, K!Fault, K!NoFault, K!TypeOK
    <3>4. ProcessTypes'
      BY <1>2 DEF K!BootFails, K!Rejected, K!Pending, K!Kill, K!FailureStatus, K!Lifecycle,
         K!Fault, K!NoFault, K!TypeOK, ProcessTypes
    <3>5. clientFaults' \in 0..MaxClientFaults
      BY <1>2, ClientAssumed DEF K!BootFails, K!Rejected, K!Pending, K!Kill, K!FailureStatus,
         K!Lifecycle, K!Fault, K!NoFault, K!TypeOK
    <3>6. ControllerTypes'
      BY <1>2 DEF K!BootFails, K!Rejected, K!Pending, K!Kill, K!FailureStatus, K!Lifecycle,
         K!Fault, K!NoFault, K!TypeOK, ControllerTypes
    <3> QED
      BY <3>1, <3>2, <3>3, <3>4, <3>5, <3>6
      DEF K!TypeOK, StateTypes, SwitchTypes, ProcessTypes, ControllerTypes
  <2>2. ClientKnows'
    BY <1>2, ClientAssumed DEF K!BootFails, K!Rejected, K!Pending, K!Kill, K!FailureStatus,
       K!Lifecycle, K!Fault, K!NoFault, K!TypeOK, ClientKnows
  <2>3. QuitsItsCore'
    BY <1>2, ClientAssumed DEF K!BootFails, K!Rejected, K!Pending, K!Kill, K!FailureStatus,
       K!Lifecycle, K!Fault, K!NoFault, K!TypeOK, ClientKnows, QuitsItsCore
  <2>4. OneCore'
    BY <1>2, ClientAssumed DEF K!BootFails, K!Rejected, K!Pending, K!Kill, K!FailureStatus,
       K!Lifecycle, K!Fault, K!NoFault, K!TypeOK, ClientKnows, QuitsItsCore, OneCore,
       K!OneCore, K!Alive
  <2> QED
    BY <2>1, <2>2, <2>3, <2>4
<1>3. ASSUME app # "exited", K!BootEnds PROVE ClientInv'
  <2>a. ControllerTypes'
    BY <1>3, ControllerKeeps DEF K!BootEnds
  <2>1. K!TypeOK'
    BY <2>a, <1>3, ClientAssumed DEF K!BootEnds, K!AttemptEnds, K!BootReady, K!BootFailed,
       K!TypeOK, ControllerTypes
  <2>2. ClientKnows'
    BY <1>3, ClientAssumed DEF K!BootEnds, K!AttemptEnds, K!BootReady, K!BootFailed, K!TypeOK,
       ClientKnows, K!Pending
  <2>3. QuitsItsCore'
    BY <1>3, ClientAssumed DEF K!BootEnds, K!AttemptEnds, K!BootReady, K!BootFailed, K!TypeOK,
       ClientKnows, QuitsItsCore, K!Pending
  <2>4. OneCore'
    BY <1>3, ClientAssumed DEF K!BootEnds, K!AttemptEnds, K!BootReady, K!BootFailed, K!TypeOK,
       ClientKnows, QuitsItsCore, OneCore, K!OneCore, K!Alive
  <2> QED
    BY <2>1, <2>2, <2>3, <2>4
<1>4. ASSUME app # "exited", K!ShutdownAnswered PROVE ClientInv'
  <2>1. K!TypeOK'
    BY <1>4, ClientAssumed DEF K!ShutdownAnswered, K!Pending, K!TypeOK
  <2>2. ClientKnows'
    BY <1>4, ClientAssumed DEF K!ShutdownAnswered, K!Pending, K!TypeOK, ClientKnows
  <2>3. QuitsItsCore'
    BY <1>4, ClientAssumed DEF K!ShutdownAnswered, K!Pending, K!TypeOK, ClientKnows,
       QuitsItsCore
  <2>4. OneCore'
    BY <1>4, ClientAssumed DEF K!ShutdownAnswered, K!Pending, K!TypeOK, ClientKnows,
       QuitsItsCore, OneCore, K!OneCore, K!Alive
  <2> QED
    BY <2>1, <2>2, <2>3, <2>4
<1>5. ASSUME app # "exited", K!ShutdownClosed PROVE ClientInv'
  <2>1. K!TypeOK'
    BY <1>5, ClientAssumed DEF K!ShutdownClosed, K!Stopped, K!TypeOK
  <2>2. ClientKnows'
    BY <1>5, ClientAssumed DEF K!ShutdownClosed, K!Stopped, K!TypeOK, ClientKnows, K!Pending
  <2>3. QuitsItsCore'
    BY <1>5, ClientAssumed DEF K!ShutdownClosed, K!Stopped, K!TypeOK, ClientKnows,
       QuitsItsCore, K!Pending
  <2>4. OneCore'
    BY <1>5, ClientAssumed DEF K!ShutdownClosed, K!Stopped, K!TypeOK, ClientKnows,
       QuitsItsCore, OneCore, K!OneCore, K!Alive
  <2> QED
    BY <2>1, <2>2, <2>3, <2>4
<1>6. ASSUME app # "exited", K!QuitDone PROVE ClientInv'
  <2>1. K!TypeOK'
    BY <1>6, ClientAssumed DEF K!QuitDone, K!TypeOK
  <2>2. ClientKnows'
    BY <1>6, ClientAssumed DEF K!QuitDone, K!TypeOK, ClientKnows, K!Pending
  <2>3. QuitsItsCore'
    BY <1>6, ClientAssumed DEF K!QuitDone, K!TypeOK, ClientKnows, QuitsItsCore, K!Pending
  <2>4. OneCore'
    BY <1>6, ClientAssumed DEF K!QuitDone, K!TypeOK, ClientKnows, QuitsItsCore, OneCore,
       K!OneCore, K!Alive
  <2> QED
    BY <2>1, <2>2, <2>3, <2>4
<1>7. ASSUME K!Turns, K!Bootstrap PROVE ClientInv'
  <2>0. K!Start
    BY <1>7 DEF K!Bootstrap
  <2>9. UNCHANGED <<lifecycle, errorTimer, shut, app, killed, hurried>>
    BY <1>7 DEF K!Bootstrap
  <2>8. ControllerTypes' /\ boot' \in {boot, "start"}
    BY <1>7 DEF K!Bootstrap, K!controller, K!TypeOK, ControllerTypes
  <2>7. UNCHANGED <<call, out, stuck>> /\ (UNCHANGED <<child, proc>> \/ Spawns)
    BY <2>0, StartSpawns DEF K!transport, K!world
  <2>6. Spawns => app # "shutdown"
    BY <1>7, NoneToStart DEF Spawns
  <2>1. K!TypeOK'
    <3>1. StartTypes'
      BY <2>0, StartKeepsTypes DEF K!transport, StartTypes, K!TypeOK
    <3>2. child' \in Cores \cup {None} /\ proc' \in [Cores -> {"none", "booting", "up", "dead"}]
      BY <2>7 DEF Spawns, K!TypeOK
    <3> QED
      BY <2>7, <2>8, <2>9, <3>1, <3>2 DEF StartTypes, K!TypeOK, ControllerTypes
  <2>2. ClientKnows'
    <3>1. CASE UNCHANGED <<child, proc>>
      BY <2>7, <2>9, <3>1 DEF ClientKnows, K!Pending
    <3>2. CASE Spawns
      BY <2>7, <2>9, <3>2, ClientAssumed DEF Spawns, ClientKnows, K!Pending, K!TypeOK
    <3> QED
      BY <2>7, <3>1, <3>2
  <2>3. QuitsItsCore'
    BY <2>6, <2>7, <2>9 DEF QuitsItsCore
  <2>4. OneCore'
    <3>1. CASE UNCHANGED <<child, proc>>
      BY <2>9, <3>1 DEF OneCore, K!OneCore, K!Alive
    <3>2. CASE Spawns
      BY <1>7, <2>9, <3>2, ClientAssumed DEF Spawns, OneCore, K!OneCore, K!Alive, K!TypeOK,
         K!Turns
    <3> QED
      BY <2>7, <3>1, <3>2
  <2> QED
    BY <2>1, <2>2, <2>3, <2>4
<1>8. ASSUME K!Turns, K!RestartFires PROVE ClientInv'
  <2>0. K!Start \/ UNCHANGED <<status, K!transport, child, call, K!world, clientFaults>>
    BY <1>8 DEF K!RestartFires
  <2>9. UNCHANGED <<lifecycle, errorTimer, shut, app, killed, hurried>>
    BY <1>8 DEF K!RestartFires
  <2>8. ControllerTypes' /\ boot' \in {boot, "start"}
    BY <1>8 DEF K!RestartFires, K!TypeOK, ControllerTypes
  <2>7. UNCHANGED <<call, out, stuck>> /\ (UNCHANGED <<child, proc>> \/ Spawns)
    BY <2>0, StartSpawns DEF K!transport, K!world
  <2>6. Spawns => app # "shutdown"
    BY <1>8, NoneToStart DEF Spawns
  <2>1. K!TypeOK'
    <3>1. StartTypes'
      BY <2>0, StartKeepsTypes DEF K!transport, StartTypes, K!TypeOK
    <3>2. child' \in Cores \cup {None} /\ proc' \in [Cores -> {"none", "booting", "up", "dead"}]
      BY <2>7 DEF Spawns, K!TypeOK
    <3> QED
      BY <2>7, <2>8, <2>9, <3>1, <3>2 DEF StartTypes, K!TypeOK, ControllerTypes
  <2>2. ClientKnows'
    <3>1. CASE UNCHANGED <<child, proc>>
      BY <2>7, <2>9, <3>1 DEF ClientKnows, K!Pending
    <3>2. CASE Spawns
      BY <2>7, <2>9, <3>2, ClientAssumed DEF Spawns, ClientKnows, K!Pending, K!TypeOK
    <3> QED
      BY <2>7, <3>1, <3>2
  <2>3. QuitsItsCore'
    BY <2>6, <2>7, <2>9 DEF QuitsItsCore
  <2>4. OneCore'
    <3>1. CASE UNCHANGED <<child, proc>>
      BY <2>9, <3>1 DEF OneCore, K!OneCore, K!Alive
    <3>2. CASE Spawns
      BY <1>8, <2>9, <3>2, ClientAssumed DEF Spawns, OneCore, K!OneCore, K!Alive, K!TypeOK,
         K!Turns
    <3> QED
      BY <2>7, <3>1, <3>2
  <2> QED
    BY <2>1, <2>2, <2>3, <2>4
<1>9. ASSUME K!Turns, K!StabilityFires PROVE ClientInv'
  <2>1. K!TypeOK'
    <3>1. StateTypes'
      BY <1>9 DEF K!StabilityFires, K!TypeOK, StateTypes
    <3>2. SwitchTypes'
      BY <1>9 DEF K!StabilityFires, K!TypeOK, SwitchTypes
    <3>3. call' \in [K!Calls -> {"none", "ok", "failed"} \cup Cores]
      BY <1>9, ClientAssumed DEF K!StabilityFires, K!TypeOK
    <3>4. ProcessTypes'
      BY <1>9 DEF K!StabilityFires, K!TypeOK, ProcessTypes
    <3>5. clientFaults' \in 0..MaxClientFaults
      BY <1>9, ClientAssumed DEF K!StabilityFires, K!TypeOK
    <3>6. ControllerTypes'
      <4>1. attempts' = attempts \/ attempts' = 0
        BY <1>9 DEF K!StabilityFires
      <4>2. attempts' \in 0..MaxAttempts
        BY <4>1, ClientAssumed DEF K!TypeOK
      <4>3. windows' \in 0..MaxStable
        BY <1>9, ClientAssumed DEF K!StabilityFires, K!TypeOK
      <4>4. /\ UNCHANGED <<restartTimer, inFlight, crashDuring>>
            /\ stabilityTimer' = FALSE /\ exhausted' \in BOOLEAN
        BY <1>9 DEF K!StabilityFires
      <4> QED
        BY <4>2, <4>3, <4>4 DEF K!TypeOK, ControllerTypes
    <3> QED
      BY <3>1, <3>2, <3>3, <3>4, <3>5, <3>6
      DEF K!TypeOK, StateTypes, SwitchTypes, ProcessTypes, ControllerTypes
  <2>2. ClientKnows'
    BY <1>9, ClientAssumed DEF K!StabilityFires, K!TypeOK, ClientKnows, K!Pending
  <2>3. QuitsItsCore'
    BY <1>9, ClientAssumed DEF K!StabilityFires, K!TypeOK, ClientKnows, QuitsItsCore,
       K!Pending, K!Turns, K!Awaiting
  <2>4. OneCore'
    BY <1>9, ClientAssumed DEF K!StabilityFires, K!TypeOK, ClientKnows, QuitsItsCore, OneCore,
       K!OneCore, K!Alive
  <2> QED
    BY <2>1, <2>2, <2>3, <2>4
<1>10. ASSUME K!Turns, K!ReadyArrives PROVE ClientInv'
  <2>1. K!TypeOK'
    BY <1>10, ClientAssumed DEF K!ReadyArrives, K!TypeOK
  <2>2. ClientKnows'
    BY <1>10, ClientAssumed DEF K!ReadyArrives, K!TypeOK, ClientKnows, K!Pending
  <2>3. QuitsItsCore'
    BY <1>10, ClientAssumed DEF K!ReadyArrives, K!TypeOK, ClientKnows, QuitsItsCore, K!Pending,
       K!Turns, K!Awaiting
  <2>4. OneCore'
    BY <1>10, ClientAssumed DEF K!ReadyArrives, K!TypeOK, ClientKnows, QuitsItsCore, OneCore,
       K!OneCore, K!Alive
  <2> QED
    BY <2>1, <2>2, <2>3, <2>4
<1>11. ASSUME K!Turns, K!ResponseArrives PROVE ClientInv'
  <2>1. K!TypeOK'
    BY <1>11, ClientAssumed DEF K!ResponseArrives, K!TypeOK
  <2>2. ClientKnows'
    BY <1>11, ClientAssumed DEF K!ResponseArrives, K!TypeOK, ClientKnows, K!Pending
  <2>3. QuitsItsCore'
    BY <1>11, ClientAssumed DEF K!ResponseArrives, K!TypeOK, ClientKnows, QuitsItsCore,
       K!Pending, K!Turns, K!Awaiting
  <2>4. OneCore'
    BY <1>11, ClientAssumed DEF K!ResponseArrives, K!TypeOK, ClientKnows, QuitsItsCore,
       OneCore, K!OneCore, K!Alive
  <2> QED
    BY <2>1, <2>2, <2>3, <2>4
<1>12. ASSUME K!Turns, K!ExitArrives PROVE ClientInv'
  <2>1. K!TypeOK'
    BY <1>12, ClientAssumed DEF K!ExitArrives, K!Lifecycle, K!TypeOK
  <2>2. ClientKnows'
    BY <1>12, ClientAssumed DEF K!ExitArrives, K!Lifecycle, K!TypeOK, ClientKnows, K!Pending
  <2>3. QuitsItsCore'
    BY <1>12, ClientAssumed DEF K!ExitArrives, K!Lifecycle, K!TypeOK, ClientKnows,
       QuitsItsCore, K!Pending, K!Turns, K!Awaiting
  <2>4. OneCore'
    BY <1>12, ClientAssumed DEF K!ExitArrives, K!Lifecycle, K!TypeOK, ClientKnows,
       QuitsItsCore, OneCore, K!OneCore, K!Alive
  <2> QED
    BY <2>1, <2>2, <2>3, <2>4
<1>13. ASSUME K!Turns, K!CloseArrives PROVE ClientInv'
  <2>a. ControllerTypes'
    BY <1>13, ControllerKeeps DEF K!CloseArrives, K!Finalize
  <2>1. K!TypeOK'
    <3>1. StateTypes'
      BY <1>13 DEF K!CloseArrives, K!Finalize, K!FinalStatus, K!Rejected, K!RejectStart,
         K!Lifecycle, K!Pending, K!TypeOK, StateTypes
    <3>2. SwitchTypes'
      BY <1>13 DEF K!CloseArrives, K!Finalize, K!FinalStatus, K!Rejected, K!RejectStart,
         K!Lifecycle, K!Pending, K!TypeOK, SwitchTypes
    <3>3. call' \in [K!Calls -> {"none", "ok", "failed"} \cup Cores]
      BY <1>13, ClientAssumed DEF K!CloseArrives, K!Finalize, K!FinalStatus, K!Rejected,
         K!RejectStart, K!Lifecycle, K!Pending, K!TypeOK
    <3>4. ProcessTypes'
      BY <1>13 DEF K!CloseArrives, K!Finalize, K!FinalStatus, K!Rejected, K!RejectStart,
         K!Lifecycle, K!Pending, K!TypeOK, ProcessTypes
    <3>5. clientFaults' \in 0..MaxClientFaults
      BY <1>13, ClientAssumed DEF K!CloseArrives, K!Finalize, K!FinalStatus, K!Rejected,
         K!RejectStart, K!Lifecycle, K!Pending, K!TypeOK
    <3> QED
      BY <2>a, <3>1, <3>2, <3>3, <3>4, <3>5
      DEF K!TypeOK, StateTypes, SwitchTypes, ProcessTypes, ControllerTypes
  <2>2. ClientKnows'
    BY <1>13, ClientAssumed DEF K!CloseArrives, K!Finalize, K!FinalStatus, K!Rejected,
       K!RejectStart, K!Lifecycle, K!Pending, K!TypeOK, ClientKnows
  <2>3. QuitsItsCore'
    BY <1>13, ClientAssumed DEF K!CloseArrives, K!Finalize, K!FinalStatus, K!Rejected,
       K!RejectStart, K!Lifecycle, K!Pending, K!TypeOK, ClientKnows, QuitsItsCore, K!Turns,
       K!Awaiting
  <2>4. OneCore'
    BY <1>13, ClientAssumed DEF K!CloseArrives, K!Finalize, K!FinalStatus, K!Rejected,
       K!RejectStart, K!Lifecycle, K!Pending, K!TypeOK, ClientKnows, QuitsItsCore, OneCore,
       K!OneCore, K!Alive
  <2> QED
    BY <2>1, <2>2, <2>3, <2>4
<1>14. ASSUME K!Turns, K!RequestExpires PROVE ClientInv'
  <2>1. K!TypeOK'
    BY <1>14, ClientAssumed DEF K!RequestExpires, K!Pending, K!TypeOK
  <2>2. ClientKnows'
    BY <1>14, ClientAssumed DEF K!RequestExpires, K!Pending, K!TypeOK, ClientKnows
  <2>3. QuitsItsCore'
    BY <1>14, ClientAssumed DEF K!RequestExpires, K!Pending, K!TypeOK, ClientKnows,
       QuitsItsCore, K!Turns, K!Awaiting
  <2>4. OneCore'
    BY <1>14, ClientAssumed DEF K!RequestExpires, K!Pending, K!TypeOK, ClientKnows,
       QuitsItsCore, OneCore, K!OneCore, K!Alive
  <2> QED
    BY <2>1, <2>2, <2>3, <2>4
<1>15. ASSUME K!Turns, K!ChildFails PROVE ClientInv'
  <2>1. K!TypeOK'
    <3>1. StateTypes'
      BY <1>15 DEF K!ChildFails, K!BeginFailure, K!FailureStatus, K!Kill, K!Rejected,
         K!RejectStart, K!Lifecycle, K!Pending, K!Fault, K!NoFault, K!TypeOK, StateTypes
    <3>2. SwitchTypes'
      BY <1>15 DEF K!ChildFails, K!BeginFailure, K!FailureStatus, K!Kill, K!Rejected,
         K!RejectStart, K!Lifecycle, K!Pending, K!Fault, K!NoFault, K!TypeOK, SwitchTypes
    <3>3. call' \in [K!Calls -> {"none", "ok", "failed"} \cup Cores]
      BY <1>15, ClientAssumed DEF K!ChildFails, K!BeginFailure, K!FailureStatus, K!Kill,
         K!Rejected, K!RejectStart, K!Lifecycle, K!Pending, K!Fault, K!NoFault, K!TypeOK
    <3>4. ProcessTypes'
      BY <1>15 DEF K!ChildFails, K!BeginFailure, K!FailureStatus, K!Kill, K!Rejected,
         K!RejectStart, K!Lifecycle, K!Pending, K!Fault, K!NoFault, K!TypeOK, ProcessTypes
    <3>5. clientFaults' \in 0..MaxClientFaults
      BY <1>15, ClientAssumed DEF K!ChildFails, K!BeginFailure, K!FailureStatus, K!Kill,
         K!Rejected, K!RejectStart, K!Lifecycle, K!Pending, K!Fault, K!NoFault, K!TypeOK
    <3>6. ControllerTypes'
      BY <1>15 DEF K!ChildFails, K!BeginFailure, K!FailureStatus, K!Kill, K!Rejected,
         K!RejectStart, K!Lifecycle, K!Pending, K!Fault, K!NoFault, K!TypeOK, ControllerTypes
    <3> QED
      BY <3>1, <3>2, <3>3, <3>4, <3>5, <3>6
      DEF K!TypeOK, StateTypes, SwitchTypes, ProcessTypes, ControllerTypes
  <2>2. ClientKnows'
    BY <1>15, ClientAssumed DEF K!ChildFails, K!BeginFailure, K!FailureStatus, K!Kill,
       K!Rejected, K!RejectStart, K!Lifecycle, K!Pending, K!Fault, K!NoFault, K!TypeOK,
       ClientKnows
  <2>3. QuitsItsCore'
    BY <1>15, ClientAssumed DEF K!ChildFails, K!BeginFailure, K!FailureStatus, K!Kill,
       K!Rejected, K!RejectStart, K!Lifecycle, K!Pending, K!Fault, K!NoFault, K!TypeOK,
       ClientKnows, QuitsItsCore, K!Turns, K!Awaiting
  <2>4. OneCore'
    BY <1>15, ClientAssumed DEF K!ChildFails, K!BeginFailure, K!FailureStatus, K!Kill,
       K!Rejected, K!RejectStart, K!Lifecycle, K!Pending, K!Fault, K!NoFault, K!TypeOK,
       ClientKnows, QuitsItsCore, OneCore, K!OneCore, K!Alive
  <2> QED
    BY <2>1, <2>2, <2>3, <2>4
<1>16. ASSUME K!Turns, K!ShutdownKills PROVE ClientInv'
  <2>1. K!TypeOK'
    <3>1. StateTypes'
      BY <1>16 DEF K!ShutdownKills, K!Kill, K!Impatient, ClientKnows, K!TypeOK, StateTypes
    <3>2. SwitchTypes'
      BY <1>16 DEF K!ShutdownKills, K!Kill, K!Impatient, ClientKnows, K!TypeOK, SwitchTypes
    <3>3. call' \in [K!Calls -> {"none", "ok", "failed"} \cup Cores]
      BY <1>16, ClientAssumed DEF K!ShutdownKills, K!Kill, K!Impatient, ClientKnows, K!TypeOK
    <3>4. ProcessTypes'
      BY <1>16 DEF K!ShutdownKills, K!Kill, K!Impatient, ClientKnows, K!TypeOK, ProcessTypes
    <3>5. clientFaults' \in 0..MaxClientFaults
      BY <1>16, ClientAssumed DEF K!ShutdownKills, K!Kill, K!Impatient, ClientKnows, K!TypeOK
    <3>6. ControllerTypes'
      BY <1>16 DEF K!ShutdownKills, K!Kill, K!Impatient, ClientKnows, K!TypeOK, ControllerTypes
    <3> QED
      BY <3>1, <3>2, <3>3, <3>4, <3>5, <3>6
      DEF K!TypeOK, StateTypes, SwitchTypes, ProcessTypes, ControllerTypes
  <2>2. ClientKnows'
    BY <1>16, ClientAssumed DEF K!ShutdownKills, K!Kill, K!Impatient, K!TypeOK, ClientKnows,
       K!Pending
  <2>3. QuitsItsCore'
    BY <1>16, ClientAssumed DEF K!ShutdownKills, K!Kill, K!Impatient, K!TypeOK, ClientKnows,
       QuitsItsCore, K!Pending, K!Turns, K!Awaiting
  <2>4. OneCore'
    BY <1>16, ClientAssumed DEF K!ShutdownKills, K!Kill, K!Impatient, K!TypeOK, ClientKnows,
       QuitsItsCore, OneCore, K!OneCore, K!Alive
  <2> QED
    BY <2>1, <2>2, <2>3, <2>4
<1>17. ASSUME K!Turns, K!ShutdownGivesUp PROVE ClientInv'
  <2>a. ControllerTypes'
    BY <1>17, ControllerKeeps DEF K!ShutdownGivesUp, K!Finalize
  <2>1. K!TypeOK'
    BY <2>a, <1>17, ClientAssumed DEF K!ShutdownGivesUp, K!Finalize, K!FinalStatus, K!Rejected,
       K!RejectStart, K!Lifecycle, K!Pending, K!TypeOK, ControllerTypes
  <2>2. ClientKnows'
    BY <1>17, ClientAssumed DEF K!ShutdownGivesUp, K!Finalize, K!FinalStatus, K!Rejected,
       K!RejectStart, K!Lifecycle, K!Pending, K!TypeOK, ClientKnows
  <2>3. QuitsItsCore'
    BY <1>17, ClientAssumed DEF K!ShutdownGivesUp, K!Finalize, K!FinalStatus, K!Rejected,
       K!RejectStart, K!Lifecycle, K!Pending, K!TypeOK, ClientKnows, QuitsItsCore, K!Turns,
       K!Awaiting
  <2>4. OneCore'
    BY <1>17, ClientAssumed DEF K!ShutdownGivesUp, K!Finalize, K!FinalStatus, K!Rejected,
       K!RejectStart, K!Lifecycle, K!Pending, K!TypeOK, ClientKnows, QuitsItsCore, OneCore,
       K!OneCore, K!Alive
  <2> QED
    BY <2>1, <2>2, <2>3, <2>4
<1>18. ASSUME K!Turns, K!AppRequests PROVE ClientInv'
  <2>1. K!TypeOK'
    <3>1. StateTypes'
      BY <1>18 DEF K!AppRequests, K!Send, K!Refused, K!TypeOK, StateTypes
    <3>2. SwitchTypes'
      BY <1>18 DEF K!AppRequests, K!Send, K!Refused, K!TypeOK, SwitchTypes
    <3>3. call' \in [K!Calls -> {"none", "ok", "failed"} \cup Cores]
      <4>1. \E c \in K!Calls : K!Send(c)
        BY <1>18 DEF K!AppRequests, K!Calls
      <4>2. "boot" \in K!Calls /\ "shutdown" \in K!Calls
        BY DEF K!Calls
      <4> QED
        BY <4>1, <4>2, SendKeeps
    <3>4. ProcessTypes'
      BY <1>18 DEF K!AppRequests, K!Send, K!Refused, K!TypeOK, ProcessTypes
    <3>5. clientFaults' \in 0..MaxClientFaults
      BY <1>18, ClientAssumed DEF K!AppRequests, K!Send, K!Refused, K!TypeOK
    <3>6. ControllerTypes'
      BY <1>18 DEF K!AppRequests, K!Send, K!Refused, K!TypeOK, ControllerTypes
    <3> QED
      BY <3>1, <3>2, <3>3, <3>4, <3>5, <3>6
      DEF K!TypeOK, StateTypes, SwitchTypes, ProcessTypes, ControllerTypes
  <2>2. ClientKnows'
    BY <1>18, ClientAssumed DEF K!AppRequests, K!Send, K!Refused, K!TypeOK, ClientKnows,
       K!Pending
  <2>3. QuitsItsCore'
    BY <1>18, ClientAssumed DEF K!AppRequests, K!Send, K!Refused, K!TypeOK, ClientKnows,
       QuitsItsCore, K!Pending, K!Turns, K!Awaiting
  <2>4. OneCore'
    BY <1>18, ClientAssumed DEF K!AppRequests, K!Send, K!Refused, K!TypeOK, ClientKnows,
       QuitsItsCore, OneCore, K!OneCore, K!Alive
  <2> QED
    BY <2>1, <2>2, <2>3, <2>4
<1>19. ASSUME K!Turns, K!Quit PROVE ClientInv'
  <2>1. K!TypeOK'
    <3>1. StateTypes'
      BY <1>19 DEF K!Quit, K!TypeOK, StateTypes
    <3>2. SwitchTypes'
      BY <1>19 DEF K!Quit, K!TypeOK, SwitchTypes
    <3>3. call' \in [K!Calls -> {"none", "ok", "failed"} \cup Cores]
      BY <1>19, ClientAssumed DEF K!Quit, K!TypeOK
    <3>4. ProcessTypes'
      BY <1>19 DEF K!Quit, K!TypeOK, ProcessTypes
    <3>5. clientFaults' \in 0..MaxClientFaults
      BY <1>19, ClientAssumed DEF K!Quit, K!TypeOK
    <3>6. ControllerTypes'
      BY <1>19 DEF K!Quit, K!TypeOK, ControllerTypes
    <3> QED
      BY <3>1, <3>2, <3>3, <3>4, <3>5, <3>6
      DEF K!TypeOK, StateTypes, SwitchTypes, ProcessTypes, ControllerTypes
  <2>2. ClientKnows'
    BY <1>19, ClientAssumed DEF K!Quit, K!TypeOK, ClientKnows, K!Pending
  <2>3. QuitsItsCore'
    BY <1>19, ClientAssumed DEF K!Quit, K!TypeOK, ClientKnows, QuitsItsCore, K!Pending,
       K!Turns, K!Awaiting
  <2>4. OneCore'
    BY <1>19, ClientAssumed DEF K!Quit, K!TypeOK, ClientKnows, QuitsItsCore, OneCore,
       K!OneCore, K!Alive
  <2> QED
    BY <2>1, <2>2, <2>3, <2>4
<1>20. ASSUME K!Turns, K!ExportsStopped PROVE ClientInv'
  <2>1. K!TypeOK'
    <3>1. StateTypes'
      BY <1>20 DEF K!ExportsStopped, K!Shutdown, K!Send, K!Refused, K!TypeOK, StateTypes
    <3>2. SwitchTypes'
      BY <1>20 DEF K!ExportsStopped, K!Shutdown, K!Send, K!Refused, K!TypeOK, SwitchTypes
    <3>3. call' \in [K!Calls -> {"none", "ok", "failed"} \cup Cores]
      <4>1. K!Send("shutdown") \/ UNCHANGED call
        BY <1>20 DEF K!ExportsStopped, K!Calls, K!Shutdown
      <4>2. "boot" \in K!Calls /\ "shutdown" \in K!Calls
        BY DEF K!Calls
      <4> QED
        BY <4>1, <4>2, SendKeeps DEF K!TypeOK
    <3>4. ProcessTypes'
      BY <1>20 DEF K!ExportsStopped, K!Shutdown, K!Send, K!Refused, K!TypeOK, ProcessTypes
    <3>5. clientFaults' \in 0..MaxClientFaults
      BY <1>20, ClientAssumed DEF K!ExportsStopped, K!Shutdown, K!Send, K!Refused, K!TypeOK
    <3>6. ControllerTypes'
      BY <1>20 DEF K!ExportsStopped, K!Shutdown, K!Send, K!Refused, K!TypeOK, ControllerTypes
    <3> QED
      BY <3>1, <3>2, <3>3, <3>4, <3>5, <3>6
      DEF K!TypeOK, StateTypes, SwitchTypes, ProcessTypes, ControllerTypes
  <2>2. ClientKnows'
    BY <1>20, ClientAssumed DEF K!ExportsStopped, K!Shutdown, K!Send, K!Refused, K!TypeOK,
       ClientKnows, K!Pending
  <2>3. QuitsItsCore'
    BY <1>20, ClientAssumed DEF K!ExportsStopped, K!Shutdown, K!Send, K!Refused, K!TypeOK,
       ClientKnows, QuitsItsCore, K!Pending, K!Turns, K!Awaiting
  <2>4. OneCore'
    BY <1>20, ClientAssumed DEF K!ExportsStopped, K!Shutdown, K!Send, K!Refused, K!TypeOK,
       ClientKnows, QuitsItsCore, OneCore, K!OneCore, K!Alive
  <2> QED
    BY <2>1, <2>2, <2>3, <2>4
<1>21. ASSUME K!Turns, K!QuitAgain PROVE ClientInv'
  <2>1. K!TypeOK'
    BY <1>21, ClientAssumed DEF K!QuitAgain, K!TypeOK
  <2>2. ClientKnows'
    BY <1>21, ClientAssumed DEF K!QuitAgain, K!TypeOK, ClientKnows, K!Pending
  <2>3. QuitsItsCore'
    BY <1>21, ClientAssumed DEF K!QuitAgain, K!TypeOK, ClientKnows, QuitsItsCore, K!Pending,
       K!Turns, K!Awaiting
  <2>4. OneCore'
    BY <1>21, ClientAssumed DEF K!QuitAgain, K!TypeOK, ClientKnows, QuitsItsCore, OneCore,
       K!OneCore, K!Alive
  <2> QED
    BY <2>1, <2>2, <2>3, <2>4
<1>22. ASSUME NEW p \in Cores, K!CoreReady(p) PROVE ClientInv'
  <2>1. K!TypeOK'
    BY <1>22, ClientAssumed DEF K!CoreReady, K!TypeOK
  <2>2. ClientKnows'
    BY <1>22, ClientAssumed DEF K!CoreReady, K!TypeOK, ClientKnows, K!Pending
  <2>3. QuitsItsCore'
    BY <1>22, ClientAssumed DEF K!CoreReady, K!TypeOK, ClientKnows, QuitsItsCore, K!Pending
  <2>4. OneCore'
    BY <1>22, ClientAssumed DEF K!CoreReady, K!TypeOK, ClientKnows, QuitsItsCore, OneCore,
       K!OneCore, K!Alive
  <2> QED
    BY <2>1, <2>2, <2>3, <2>4
<1>23. ASSUME NEW p \in Cores, K!CoreAnswers(p) PROVE ClientInv'
  <2>1. K!TypeOK'
    BY <1>23, ClientAssumed DEF K!CoreAnswers, K!TypeOK
  <2>2. ClientKnows'
    BY <1>23, ClientAssumed DEF K!CoreAnswers, K!TypeOK, ClientKnows, K!Pending
  <2>3. QuitsItsCore'
    BY <1>23, ClientAssumed DEF K!CoreAnswers, K!TypeOK, ClientKnows, QuitsItsCore, K!Pending
  <2>4. OneCore'
    BY <1>23, ClientAssumed DEF K!CoreAnswers, K!TypeOK, ClientKnows, QuitsItsCore, OneCore,
       K!OneCore, K!Alive
  <2> QED
    BY <2>1, <2>2, <2>3, <2>4
<1>24. ASSUME NEW p \in Cores, K!CoreDies(p) PROVE ClientInv'
  <2>1. K!TypeOK'
    <3>1. StateTypes'
      BY <1>24 DEF K!CoreDies, K!TypeOK, StateTypes
    <3>2. SwitchTypes'
      BY <1>24 DEF K!CoreDies, K!TypeOK, SwitchTypes
    <3>3. call' \in [K!Calls -> {"none", "ok", "failed"} \cup Cores]
      BY <1>24, ClientAssumed DEF K!CoreDies, K!TypeOK
    <3>4. ProcessTypes'
      BY <1>24 DEF K!CoreDies, K!TypeOK, ProcessTypes
    <3>5. clientFaults' \in 0..MaxClientFaults
      <4>1. K!Fault("crash") \/ K!NoFault
        BY <1>24 DEF K!CoreDies
      <4> QED
        BY <4>1, ClientAssumed DEF K!Fault, K!NoFault, K!TypeOK
    <3>6. ControllerTypes'
      BY <1>24 DEF K!CoreDies, K!TypeOK, ControllerTypes
    <3> QED
      BY <3>1, <3>2, <3>3, <3>4, <3>5, <3>6
      DEF K!TypeOK, StateTypes, SwitchTypes, ProcessTypes, ControllerTypes
  <2>2. ClientKnows'
    BY <1>24, ClientAssumed DEF K!CoreDies, K!TypeOK, ClientKnows, K!Pending
  <2>3. QuitsItsCore'
    BY <1>24, ClientAssumed DEF K!CoreDies, K!TypeOK, ClientKnows, QuitsItsCore, K!Pending
  <2>4. OneCore'
    BY <1>24, ClientAssumed DEF K!CoreDies, K!TypeOK, ClientKnows, QuitsItsCore, OneCore,
       K!OneCore, K!Alive
  <2> QED
    BY <2>1, <2>2, <2>3, <2>4
<1>25. ASSUME NEW p \in Cores, K!CoreSticks(p) PROVE ClientInv'
  <2>1. K!TypeOK'
    BY <1>25, ClientAssumed DEF K!CoreSticks, K!Fault, K!TypeOK
  <2>2. ClientKnows'
    BY <1>25, ClientAssumed DEF K!CoreSticks, K!Fault, K!TypeOK, ClientKnows, K!Pending
  <2>3. QuitsItsCore'
    BY <1>25, ClientAssumed DEF K!CoreSticks, K!Fault, K!TypeOK, ClientKnows, QuitsItsCore,
       K!Pending
  <2>4. OneCore'
    BY <1>25, ClientAssumed DEF K!CoreSticks, K!Fault, K!TypeOK, ClientKnows, QuitsItsCore,
       OneCore, K!OneCore, K!Alive
  <2> QED
    BY <2>1, <2>2, <2>3, <2>4
<1>26. CASE UNCHANGED K!vars
  BY <1>26 DEF K!vars, K!transport, K!children, K!controller, K!world, K!TypeOK, ClientKnows,
     QuitsItsCore, OneCore, K!OneCore,
     K!Pending, K!Alive
<1> QED
  BY <1>1, <1>2, <1>3, <1>4, <1>5, <1>6, <1>7, <1>8, <1>9, <1>10, <1>11, <1>12, <1>13, <1>14,
     <1>15, <1>16, <1>17, <1>18, <1>19, <1>20, <1>21, <1>22, <1>23, <1>24, <1>25, <1>26
     DEF K!Next, K!Microtask, K!Turns, K!Core, K!Finished

\* The desktop starts with no core, in the inductive invariant.
LEMMA ClientInit == K!Init => ClientInv
<1> SUFFICES ASSUME K!Init PROVE ClientInv
  OBVIOUS
<1>1. /\ call \in [K!Calls -> {"none", "ok", "failed"} \cup Cores]
      /\ shut \in [stage : {"none", "asked", "closing", "killing"}, target : Cores \cup {None}]
  BY DEF K!Init
<1>2. /\ proc \in [Cores -> {"none", "booting", "up", "dead"}]
      /\ out \in [Cores -> SUBSET (K!Calls \cup {"ready"})]
  BY DEF K!Init
<1>3. attempts \in 0..MaxAttempts /\ windows \in 0..MaxStable /\ clientFaults \in 0..MaxClientFaults
  BY ClientAssumed DEF K!Init
<1>4. K!TypeOK
  BY <1>1, <1>2, <1>3 DEF K!Init, K!TypeOK
<1> QED
  BY <1>4, ClientAssumed DEF K!Init, ClientInv, ClientKnows, QuitsItsCore, OneCore, K!OneCore,
     K!Pending, K!Alive

\* The invariant of the client holds in every behaviour.
LEMMA ClientInvariant == K!Spec => []ClientInv
  BY ClientInit, ClientStep, PTL DEF K!Spec

\* The variables have their types, whatever processes, requests and failures there are.
THEOREM ClientTypesHold == K!Spec => [](K!TypeOK)
<1>1. ClientInv => K!TypeOK
  BY DEF ClientInv
<1> QED
  BY <1>1, ClientInvariant, PTL

\* A core that nobody has told to end is the one the client holds, and a quit that is waited
\* for leaves none behind, for any number of processes, restarts and failures
\* (main.ts:787-791, core-client.ts:406-447).
THEOREM OneCoreLives == K!Spec => []OneCore
<1>1. ClientInv => OneCore
  BY DEF ClientInv
<1> QED
  BY <1>1, ClientInvariant, PTL
=============================================================================
