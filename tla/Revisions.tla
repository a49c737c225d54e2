------------------------------ MODULE Revisions ------------------------------
(***************************************************************************)
(* The revisions of one presentation (core/presenter_core/presentation/    *)
(* editing.py, revisions.py), its reviewed edit plans (edit_plans.py,      *)
(* transactions.py), and its import and deletion (ingestion/service.py,    *)
(* ipc/core.py): rows of the project's database that name packages in the  *)
(* project's sources directory.                                            *)
(*                                                                         *)
(* Core runs these operations one at a time, on its control thread; what   *)
(* comes between their steps is a crash, or the failure of a step. A step  *)
(* is one change of the directory or one transaction. The bytes of a       *)
(* package are a name for who wrote them; a digest tells all of them       *)
(* apart. Two fresh identifiers are never equal.                           *)
(***************************************************************************)
EXTENDS Naturals, FiniteSets, FiniteSetsExt

CONSTANTS
    None, Original,  \* no value; the imported revision, and its bytes
    Ids,             \* fresh identifiers of revisions and plans: bounds their number
    MaxPlans,        \* MAX_REVIEW_PLANS
    Faults,          \* the kinds of failure that may happen
    MaxFaults        \* bound: failures

FaultKinds == {"crash", "write", "commit", "unlink"}
ASSUME RevisionAssumption ==
    /\ {None, Original} \cap Ids = {} /\ None # Original
    /\ MaxPlans \in Nat /\ Faults \subseteq FaultKinds /\ MaxFaults \in Nat

Revs == Ids \cup {Original}

\* Packages: the imported snapshot, revisions and those being written, plans and
\* what an edit plan is composed in.
File(kind, i) == [kind |-> kind, id |-> i]
Files == [kind : {"tmp", "revision", "plan", "stage"}, id : Ids] \cup {File("source", Original)}

VARIABLES
    disk,      \* the bytes of each package; None if there is none
    doc,       \* the row of documents: "none", its parse_status, or "gone"
    revs,      \* the rows of presentation_revisions
    head,      \* presentation_revision_heads
    plans,     \* _plans: reviews under way, in memory
    op,        \* the operation that runs, and what it has still to do
    up,        \* "down", or whether the running core has reconciled the project
    base,      \* history: the bytes that bytes were made from
    shown,     \* history: the bytes a preview was opened on
    ever,      \* history: identifiers of revisions that were once recorded
    deleting,  \* history: a deletion has begun
    faults

vars == <<disk, doc, revs, head, plans, op, up, base, shown, ever, deleting, faults>>
history == <<base, shown, ever, deleting>>
rows == <<doc, revs, head>>

Row  == [id : Revs, parent : Revs \cup {None}, number : Nat, bytes : Revs, plan : Ids \cup {None}]
Plan == [id : Ids, baseline : Revs, bytes : Revs, opened : BOOLEAN]
Idle == [does |-> "nothing", id |-> None, bytes |-> None, plan |-> None]

Fault(k) == k \in Faults /\ faults < MaxFaults /\ faults' = faults + 1
NoFault  == faults' = faults

Init ==
    /\ disk = [f \in Files |-> None] /\ doc = "none" /\ revs = {} /\ head = None
    /\ plans = {} /\ op = Idle /\ up = "fresh"
    /\ base = [i \in Revs |-> None] /\ shown = {} /\ ever = {} /\ deleting = FALSE
    /\ faults = 0

Running == up # "down" /\ op = Idle
RowOf(r) == CHOOSE v \in revs : v.id = r
FileOf(r) == IF r = Original THEN File("source", Original) ELSE File("revision", r)
PlanFile(p) == File("plan", p.id)

\* open_verified_snapshot, _verified_revision, inspect_pptx_snapshot: the package
\* is there and has the recorded digest.
Verified(v) == disk[FileOf(v.id)] = v.bytes
\* An identifier, and bytes, that nothing was ever named by.
Fresh(i) ==
    /\ i \notin ever \cup shown
    /\ \A f \in Files : disk[f] # i /\ (f.id = i => disk[f] = None)
    /\ \A v \in revs : v.bytes # i
    /\ \A p \in plans : p.id # i

-----------------------------------------------------------------------------
(* Private packages.                                                       *)

\* prepare: no more than MAX_REVIEW_PLANS at a time.
MayPrepare == Cardinality(plans) < MaxPlans

\* MUTANT: packages an edit plan was composed in are not looked for.
IgnoresStages(d, live) ==
    [f \in Files |-> IF f.kind = "plan" /\ f \notin {PlanFile(p) : p \in live}
                     THEN None ELSE d[f]]

\* reconcile_project: what no live plan holds is removed.
Reconciled(d, live) ==
    [f \in Files |-> IF f.kind \in {"plan", "stage"} /\ f \notin {PlanFile(p) : p \in live}
                     THEN None ELSE d[f]]

\* project.open reconciles; a running core may be asked to at any time.
OpenProject ==
    /\ Running /\ disk' = Reconciled(disk, plans) /\ up' = "reconciled"
    /\ NoFault /\ UNCHANGED <<rows, plans, op, history>>

-----------------------------------------------------------------------------
(* Import.                                                                 *)

ImportCopies ==
    /\ Running /\ doc = "none" /\ disk[FileOf(Original)] = None
    /\ disk' = [disk EXCEPT ![FileOf(Original)] = Original]
    /\ op' = [Idle EXCEPT !.does = "import"]
    /\ NoFault /\ UNCHANGED <<rows, plans, up, history>>

\* The document, record_original_revision and the head, in one transaction.
ImportRecords ==
    /\ op.does = "import"
    /\ \/ /\ doc' = "pending" /\ head' = Original
          /\ revs' = {[id |-> Original, parent |-> None, number |-> 1, bytes |-> Original,
                       plan |-> None]}
          /\ op' = [op EXCEPT !.does = "parse"]
          /\ NoFault /\ UNCHANGED disk
       \/ /\ Fault("commit") /\ op' = Idle
          /\ disk' = [disk EXCEPT ![FileOf(Original)] = None]
          /\ UNCHANGED rows
    /\ UNCHANGED <<plans, up, history>>

ImportParses ==
    /\ op.does = "parse" /\ op' = Idle
    /\ doc' \in {"ready", "error"}
    /\ NoFault /\ UNCHANGED <<disk, revs, head, plans, up, history>>

\* reindex_source, of the current revision.
Reindex ==
    /\ Running /\ doc \in {"pending", "error"}
    /\ Verified(RowOf(head)) /\ doc' = "ready"
    /\ NoFault /\ UNCHANGED <<disk, revs, head, plans, op, up, history>>

-----------------------------------------------------------------------------
(* _commit_revision, for an edit and for a plan that is applied.           *)

\* MUTANT: an edit writes into the package it read.
InPlace(i) == FileOf(head)

Staged(i) == File("tmp", i)

\* The package is written beside the others; what cannot be written is removed.
Write(i, bytes, plan) ==
    /\ Fresh(i)
    /\ disk' = [disk EXCEPT ![Staged(i)] = bytes]
    /\ op' = [does |-> "install", id |-> i, bytes |-> bytes, plan |-> plan]

Edit(i) ==
    /\ Running /\ doc = "ready" /\ Verified(RowOf(head))
    /\ Write(i, i, None)
    /\ base' = [base EXCEPT ![i] = RowOf(head).bytes]
    /\ NoFault /\ UNCHANGED <<rows, plans, up, shown, ever, deleting>>

\* os.replace, inside the transaction.
Install ==
    /\ op.does = "install"
    /\ \/ /\ NoFault /\ op' = [op EXCEPT !.does = "commit"]
          /\ disk' = [disk EXCEPT ![Staged(op.id)] = None, ![FileOf(op.id)] = op.bytes]
       \/ /\ Fault("write") /\ op' = Idle
          /\ disk' = [disk EXCEPT ![Staged(op.id)] = None]
    /\ UNCHANGED <<rows, plans, up, history>>

NextNumber == Max({v.number : v \in revs}) + 1

\* The row, the head and the audit record become durable together, or not.
CommitRevision ==
    /\ op.does = "commit"
    /\ \/ /\ NoFault
          /\ revs' = revs \cup {[id |-> op.id, parent |-> head, number |-> NextNumber,
                                 bytes |-> op.bytes, plan |-> op.plan]}
          /\ head' = op.id /\ ever' = ever \cup {op.id}
          /\ op' = IF op.plan = None THEN Idle ELSE [op EXCEPT !.does = "drop"]
          /\ UNCHANGED disk
       \/ /\ Fault("commit") /\ op' = Idle
          /\ disk' = [disk EXCEPT ![FileOf(op.id)] = None]
          /\ UNCHANGED <<revs, head, ever>>
    /\ UNCHANGED <<doc, plans, up, base, shown, deleting>>

-----------------------------------------------------------------------------
(* restore_revision and step_revision.                                     *)

Restore(r) ==
    /\ Running /\ r \in {v.id : v \in revs} /\ Verified(RowOf(r))
    /\ head' = r
    /\ NoFault /\ UNCHANGED <<disk, doc, revs, plans, op, up, history>>

Undo == revs # {} /\ \E r \in Revs : r = RowOf(head).parent /\ Restore(r)

\* A revision with several children has no redo.
Redo == \E v \in revs : {w \in revs : w.parent = head} = {v} /\ Restore(v.id)

-----------------------------------------------------------------------------
(* Edit plans.                                                             *)

\* prepare: the operations are composed in a private package.
Prepare(i) ==
    /\ Running /\ doc = "ready" /\ Verified(RowOf(head))
    /\ MayPrepare /\ Fresh(i)
    /\ disk' = [Reconciled(disk, plans) EXCEPT ![File("stage", i)] = i]
    /\ base' = [base EXCEPT ![i] = RowOf(head).bytes]
    /\ op' = [Idle EXCEPT !.does = "copy", !.id = i]
    /\ NoFault /\ UNCHANGED <<rows, plans, up, shown, ever, deleting>>

\* The composition is copied for review.
CopyPlan ==
    /\ op.does = "copy"
    /\ \/ /\ NoFault /\ op' = [op EXCEPT !.does = "register"]
          /\ disk' = [disk EXCEPT ![File("plan", op.id)] = op.id]
       \/ /\ Fault("write") /\ op' = Idle
          /\ disk' = [disk EXCEPT ![File("stage", op.id)] = None]
    /\ UNCHANGED <<rows, plans, up, history>>

\* The composition is closed, and the plan can be reviewed.
RegisterPlan ==
    /\ op.does = "register" /\ op' = Idle
    /\ disk' = [disk EXCEPT ![File("stage", op.id)] = None]
    /\ plans' = plans \cup {[id |-> op.id, baseline |-> head, bytes |-> op.id, opened |-> FALSE]}
    /\ NoFault /\ UNCHANGED <<rows, up, history>>

\* MUTANT: a plan is applied to whatever revision is current.
AnyHead(p) == TRUE

\* _current.
AtBaseline(p) == p.baseline = head

PlanVerified(p) == disk[PlanFile(p)] = p.bytes

OpenPreview(p) ==
    /\ Running /\ doc = "ready" /\ AtBaseline(p) /\ PlanVerified(p) /\ ~p.opened
    /\ plans' = (plans \ {p}) \cup {[p EXCEPT !.opened = TRUE]}
    /\ shown' = shown \cup {p.bytes}
    /\ NoFault /\ UNCHANGED <<disk, rows, op, up, base, ever, deleting>>

\* apply, of a plan that was opened for review; the bytes that are published are
\* those of the plan's package.
Apply(p, i) ==
    /\ Running /\ doc = "ready" /\ AtBaseline(p) /\ PlanVerified(p) /\ p.opened
    /\ Write(i, disk[PlanFile(p)], p.id)
    /\ NoFault /\ UNCHANGED <<rows, plans, up, history>>

\* _drop: rejected, expired, or its source or the core closed.
Drop(p) == /\ plans' = plans \ {p}
           /\ disk' = [disk EXCEPT ![PlanFile(p)] = None]

DropApplied ==
    /\ op.does = "drop" /\ op' = Idle
    /\ \E p \in plans : p.id = op.plan /\ Drop(p)
    /\ NoFault /\ UNCHANGED <<rows, up, history>>

Reject(p) == Running /\ Drop(p) /\ NoFault /\ UNCHANGED <<rows, op, up, history>>

-----------------------------------------------------------------------------
(* delete_source.                                                          *)

\* close_source: plans go, and what they left.
Delete ==
    /\ Running /\ doc \in {"pending", "ready", "error"}
    /\ plans' = {} /\ disk' = Reconciled(disk, {})
    /\ op' = [Idle EXCEPT !.does = "delete"] /\ deleting' = TRUE
    /\ NoFault /\ UNCHANGED <<rows, up, base, shown, ever>>

\* before_source_delete removes the revisions, and the snapshot follows; a
\* package that cannot be removed ends the attempt.
Recorded == {FileOf(v.id) : v \in revs}
ToRemove == {f \in Recorded : disk[f] # None}
RemoveFile ==
    /\ op.does = "delete"
    /\ \E f \in ToRemove :
        /\ f.kind = "source" => ToRemove = {f}
        /\ \/ NoFault /\ disk' = [disk EXCEPT ![f] = None] /\ UNCHANGED op
           \/ Fault("unlink") /\ op' = Idle /\ UNCHANGED disk
    /\ UNCHANGED <<rows, plans, up, history>>

Removed == ToRemove = {}

\* _delete_document_record: the lineage goes with the document.
DeleteRecord ==
    /\ op.does = "delete" /\ Removed /\ op' = Idle
    /\ \/ NoFault /\ doc' = "gone" /\ revs' = {} /\ head' = None
       \/ Fault("commit") /\ UNCHANGED rows
    /\ UNCHANGED <<disk, plans, up, history>>

-----------------------------------------------------------------------------
\* The core is killed, or ends with its plans dropped.
Crash ==
    /\ up # "down" /\ Fault("crash")
    /\ up' = "down" /\ plans' = {} /\ op' = Idle
    /\ UNCHANGED <<disk, rows, history>>

Close ==
    /\ Running /\ up' = "down" /\ plans' = {}
    /\ disk' = [f \in Files |-> IF f \in {PlanFile(p) : p \in plans} THEN None ELSE disk[f]]
    /\ NoFault /\ UNCHANGED <<rows, op, history>>

Restart ==
    /\ up = "down" /\ up' = "fresh"
    /\ NoFault /\ UNCHANGED <<disk, rows, plans, op, history>>

Next ==
    \/ OpenProject
    \/ ImportCopies \/ ImportRecords \/ ImportParses \/ Reindex
    \/ Install \/ CommitRevision
    \/ \E i \in Ids : Edit(i) \/ Prepare(i)
    \/ \E r \in Revs : Restore(r)
    \/ Undo \/ Redo
    \/ CopyPlan \/ RegisterPlan
    \/ \E p \in plans : OpenPreview(p) \/ Reject(p) \/ \E i \in Ids : Apply(p, i)
    \/ DropApplied
    \/ Delete \/ RemoveFile \/ DeleteRecord
    \/ Crash \/ Close \/ Restart

Spec == Init /\ [][Next]_vars

-----------------------------------------------------------------------------
\* The types of the variables; a presentation has a head as long as it has rows.
TypeOK ==
    /\ disk \in [Files -> Revs \cup {None}]
    /\ doc \in {"none", "pending", "ready", "error", "gone"}
    /\ revs \subseteq Row /\ head \in Revs \cup {None} /\ (head = None <=> revs = {})
    /\ plans \subseteq Plan /\ Cardinality(plans) <= MaxPlans
    /\ op \in [does : {"nothing", "import", "parse", "install", "commit", "drop", "copy",
                       "register", "delete"},
               id : Ids \cup {None}, bytes : Revs \cup {None}, plan : Ids \cup {None}]
    /\ up \in {"down", "fresh", "reconciled"}
    /\ base \in [Revs -> Revs \cup {None}] /\ shown \subseteq Revs /\ ever \subseteq Ids
    /\ deleting \in BOOLEAN /\ faults \in 0..MaxFaults

\* Every recorded revision keeps its package with the recorded bytes, through
\* edits, undo, failures and crashes, until a deletion begins; and then no other
\* bytes take its place (editing.py:2632-2760; "Normal editing never mutates
\* this snapshot").
RevisionsIntact == \A v \in revs :
    \/ Verified(v)
    \/ deleting /\ disk[FileOf(v.id)] = None

\* What is published was made from its parent, so no edit is lost; and what an
\* edit plan publishes is what the user was shown (edit_plans.py:200-262,
\* transactions.py:314-360).
BuildsOnParent == \A v \in revs : v.id # Original =>
    /\ \E w \in revs : w.id = v.parent /\ base[v.bytes] = w.bytes
    /\ v.plan # None => v.bytes \in shown

\* A project that was opened holds the private packages of its live plans and no
\* others, whatever crashed before, and each can be read (edit_plans.py:68-97).
PrivateReconciled ==
    up = "reconciled" /\ op = Idle =>
        {f \in Files : f.kind \in {"plan", "stage"} /\ disk[f] # None} = {PlanFile(p) : p \in plans}

=============================================================================
