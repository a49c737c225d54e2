------------------------------ MODULE Retrieval ------------------------------
(***************************************************************************)
(* The semantic index of one project:                                      *)
(* core/presenter_core/retrieval/service.py (HybridRetrievalService), with *)
(* the operations of ingestion, knowledge, Teach, Challenge and the        *)
(* presentation editor that change what it indexes.                        *)
(*                                                                         *)
(* A generation is a matrix file, with one vector per row, and rows of     *)
(* embedding_vectors that say which entity a vector belongs to. The        *)
(* control thread changes the content and rebuilds the index; Live Assist  *)
(* workers query it meanwhile, every statement of a query reading the      *)
(* database as it is at that moment. Both share two caches that no lock    *)
(* guards: the loaded matrix and, for each generation, the number of its   *)
(* mappings whose entity is current.                                       *)
(***************************************************************************)
EXTENDS Naturals, FiniteSets, SequencesExt

CONSTANTS
    Revisions,       \* the revisions of the presentation; each has one chunk
    Original,        \* the imported one
    Documents,       \* supporting documents, of one chunk each
    Items,           \* knowledge items
    Workers,         \* the Live Assist workers
    MaxGenerations,  \* bound: rebuilds that get as far as a matrix
    Faults,          \* the kinds of failure of this instance
    MaxFaults        \* bound: failures of any kind

Entities == Revisions \cup Documents \cup Items

FaultKinds == {"crash", "model", "disk", "commit", "unlink"}

ASSUME RetrievalAssumption ==
    /\ IsFiniteSet(Entities) /\ Original \in Revisions
    /\ Revisions \cap Documents = {} /\ Revisions \cap Items = {}
    /\ Documents \cap Items = {}
    /\ MaxGenerations \in Nat \ {0} /\ MaxFaults \in Nat /\ Faults \subseteq FaultKinds

VARIABLES
    head, made, parsed,   \* the current revision; those that exist; those with chunks
    docs, items,          \* imported documents, confirmed knowledge items
    active, rowOf,        \* the active generation and its embedding_vectors
    vectors,              \* what each generation's matrix holds, row by row
    files, staging,       \* generations with a matrix file, with a staging file
    counts, loaded,       \* _mapping_count_cache and _matrix_cache
    cpc,                  \* the control thread
    wpc,                  \* the workers, and what each has read so far:
    gen, count,           \*   the generation and its mapping count,
    matrix, scored,       \*   the generation of its matrix, and the scored rows
    changed, residue,     \* history: content changed since the last activation;
                          \*   a clean-up was missed since the last one
    faults

content == <<head, made, parsed, docs, items>>
index   == <<active, rowOf>>
disk    == <<vectors, files, staging>>
caches  == <<counts, loaded>>
queries == <<wpc, gen, count, matrix, scored>>
history == <<changed, residue>>
vars == <<content, index, disk, caches, cpc, queries, history, faults>>

None == 0
Generations == 1..MaxGenerations

Init ==
    /\ head = Original /\ made = {Original} /\ parsed = {Original}
    /\ docs = {} /\ items = {}
    /\ active = None /\ rowOf = <<>>
    /\ vectors = <<>> /\ files = {} /\ staging = {}
    /\ counts = <<>> /\ loaded = None
    /\ cpc = "idle"
    /\ wpc = [w \in Workers |-> "idle"]
    /\ gen = [w \in Workers |-> None] /\ count = [w \in Workers |-> 0]
    /\ matrix = [w \in Workers |-> None] /\ scored = [w \in Workers |-> {}]
    /\ changed = FALSE /\ residue = FALSE
    /\ faults = 0

Fault(k) == k \in Faults /\ faults < MaxFaults /\ faults' = faults + 1
NoFault == UNCHANGED faults
-----------------------------------------------------------------------------
(* What is current, and what of it a generation maps.                        *)

\* The chunks of the head revision and of the documents, and the items.
Current == ({head} \cap parsed) \cup docs \cup items

\* The mappings of generation g: retiring one deletes them.
MappingsOf(g) == IF g = active THEN rowOf ELSE <<>>

\* _current_mapping_count
MappedCurrent(g) == Cardinality(DOMAIN MappingsOf(g) \cap Current)

Unmap(S) == rowOf' = [e \in DOMAIN rowOf \ S |-> rowOf[e]]

\* A change of the content leaves the files, the caches and the queries alone.
ContentChanges ==
    /\ changed' = TRUE
    /\ UNCHANGED <<disk, caches, queries, active, residue, faults>>
-----------------------------------------------------------------------------
(* Changes of the content. Handlers of the presentation and of the sources   *)
(* end by forgetting the counts ("forget"); those of knowledge items then    *)
(* synchronize the index ("sync").                                           *)

\* An edit of the presentation: a new revision without chunks becomes the head.
\* Four handlers do not forget the counts: apply_rehearsal_edit, replace_fonts,
\* copy_object_format and insert_media.
EditPresentation(r) ==
    /\ cpc = "idle" /\ r \notin made
    /\ made' = made \cup {r} /\ head' = r
    /\ cpc' \in {"forget", "idle"}
    /\ ContentChanges /\ UNCHANGED <<parsed, docs, items, rowOf>>

\* restore_revision and step_revision
MoveHead(r) ==
    /\ cpc = "idle" /\ r \in made \ {head}
    /\ head' = r /\ cpc' = "forget"
    /\ ContentChanges /\ UNCHANGED <<made, parsed, docs, items, rowOf>>

\* source.reindex of the presentation: the head gets its chunks. Chunks that it
\* had come back with the same ids, and their mappings are restored.
ReindexPresentation ==
    /\ cpc = "idle"
    /\ parsed' = parsed \cup {head} /\ cpc' = "forget"
    /\ ContentChanges /\ UNCHANGED <<head, made, docs, items, rowOf>>

ImportDocument(d) ==
    /\ cpc = "idle" /\ d \notin docs
    /\ docs' = docs \cup {d} /\ cpc' = "forget"
    /\ ContentChanges /\ UNCHANGED <<head, made, parsed, items, rowOf>>

\* source.delete: a trigger takes the mappings of the deleted chunks.
DeleteDocument(d) ==
    /\ cpc = "idle" /\ d \in docs
    /\ docs' = docs \ {d} /\ Unmap({d}) /\ cpc' = "forget"
    /\ ContentChanges /\ UNCHANGED <<head, made, parsed, items>>

\* knowledge.delete
DeleteItem(k) ==
    /\ cpc = "idle" /\ k \in items
    /\ items' = items \ {k} /\ Unmap({k}) /\ cpc' = "sync"
    /\ ContentChanges /\ UNCHANGED <<head, made, parsed, docs>>

\* teach.confirm_knowledge_item, and challenge.save_preferred_answer, which may
\* replace the item of an earlier answer.
ConfirmItem(k) ==
    /\ cpc = "idle" /\ k \notin items
    /\ \E old \in {{}} \cup {{o} : o \in items} :
         /\ items' = (items \cup {k}) \ old
         /\ Unmap(old)
    /\ cpc' = "sync"
    /\ ContentChanges /\ UNCHANGED <<head, made, parsed, docs>>

\* invalidate_project_mappings, after a change of the sources...
Forget ==
    /\ cpc = "forget" /\ counts' = <<>> /\ cpc' = "idle"
    /\ UNCHANGED <<content, index, disk, loaded, queries, history, faults>>

\* ... and in _synchronize_semantic_index, which rebuilds an index that there is.
ForgetAndSync ==
    /\ cpc = "sync" /\ counts' = <<>>
    /\ cpc' = IF active = None THEN "idle" ELSE "rebuild"
    /\ UNCHANGED <<content, index, disk, loaded, queries, history, faults>>
-----------------------------------------------------------------------------
(* retrieval.health, and the steps of a rebuild.                             *)

\* _cleanup_orphan_files: every matrix but the active one goes; one that cannot
\* be removed stays. m is the matrix loaded before.
CleanUp(m) ==
    LET orphans == (files \ {active}) \cup staging
    IN  /\ loaded' = IF orphans = {} THEN m ELSE None
        /\ \/ /\ files' = files \cap {active} /\ staging' = {}
              /\ residue' = FALSE /\ NoFault
           \/ /\ Fault("unlink") /\ orphans # {}
              /\ residue' = TRUE /\ UNCHANGED <<files, staging>>

\* What _cached_current_mapping_count leaves in the cache.
Cached(g) ==
    IF g = None \/ g \in DOMAIN counts THEN counts
    ELSE [x \in DOMAIN counts \cup {g} |->
             IF x = g THEN MappedCurrent(g) ELSE counts[x]]

\* The active matrix, loaded if its file is there.
LoadedActive == IF active \in files THEN active ELSE None

Health ==
    /\ cpc = "idle"
    /\ counts' = Cached(active)
    /\ CleanUp(LoadedActive)
    /\ UNCHANGED <<content, index, vectors, cpc, queries, changed>>

StartRebuild ==
    /\ cpc = "idle" /\ Len(vectors) < MaxGenerations /\ cpc' = "rebuild"
    /\ UNCHANGED <<content, index, disk, caches, queries, history, faults>>

\* The order in which a rebuild reads what is current.
Order == SetToSeq(Current)

\* The vectors of the new generation: one of the active matrix where its entity
\* has one, an embedding of the entity otherwise.
NewVectors ==
    [i \in DOMAIN Order |->
        IF active \in files /\ Order[i] \in DOMAIN rowOf
        THEN vectors[active][rowOf[Order[i]]] ELSE Order[i]]

RebuildFails(k) == Fault(k) /\ cpc' = "idle"

\* The model is not there, as always once the bound is reached, or the matrix cannot
\* be written: the request fails, its staging file is removed.
RebuildUnavailable ==
    /\ cpc = "rebuild"
    /\ \/ RebuildFails("model") \/ RebuildFails("disk")
       \/ Len(vectors) = MaxGenerations /\ cpc' = "idle" /\ NoFault
    /\ loaded' \in {loaded, LoadedActive}
    /\ UNCHANGED <<content, index, disk, counts, queries, history>>

StageMatrix ==
    /\ cpc = "rebuild" /\ Len(vectors) < MaxGenerations
    /\ vectors' = Append(vectors, NewVectors)
    /\ staging' = staging \cup {Len(vectors) + 1}
    /\ loaded' = LoadedActive
    /\ cpc' = "staged"
    /\ UNCHANGED <<content, index, files, counts, queries, history, faults>>

New == Len(vectors)

ReplaceFile ==
    /\ cpc = "staged"
    /\ staging' = staging \ {New}
    /\ \/ files' = files \cup {New} /\ cpc' = "written" /\ NoFault
       \/ RebuildFails("disk") /\ UNCHANGED files
    /\ UNCHANGED <<content, index, vectors, caches, queries, history>>

\* What the finally clause of a rebuild leaves when it was not activated.
WithoutNew == files \ {New}

\* MUTANT: the new generation adds its mappings to those of the old one.
AddedRows == [e \in Current \cup DOMAIN rowOf |->
                 IF e \in DOMAIN rowOf THEN rowOf[e]
                 ELSE Len(vectors[New])]

\* The mappings of the new generation.
NewRows == [e \in Current |-> CHOOSE i \in DOMAIN Order : Order[i] = e]

\* _activate_generation: one transaction makes the new generation the active one
\* and deletes all others with their mappings.
Activate ==
    /\ cpc = "written"
    /\ \/ /\ active' = New /\ rowOf' = NewRows /\ changed' = FALSE
          /\ cpc' = "activated" /\ NoFault /\ UNCHANGED files
       \/ /\ RebuildFails("commit") /\ files' = WithoutNew
          /\ UNCHANGED <<index, changed>>
    /\ UNCHANGED <<content, vectors, staging, caches, queries, residue>>

ForgetActivated ==
    /\ cpc = "activated" /\ counts' = <<>> /\ cpc' = "clean"
    /\ UNCHANGED <<content, index, disk, loaded, queries, history, faults>>

CleanRebuilt ==
    /\ cpc = "clean" /\ cpc' = "idle"
    /\ CleanUp(None)
    /\ UNCHANGED <<content, index, vectors, counts, queries, changed>>
-----------------------------------------------------------------------------
(* The semantic part of a worker's query. Without a usable generation the    *)
(* query ends early, with its lexical candidates.                            *)

At(w, from, to) == wpc[w] = from /\ wpc' = [wpc EXCEPT ![w] = to]

\* _active_generation
ReadGeneration(w) ==
    /\ active # None /\ At(w, "idle", "count")
    /\ gen' = [gen EXCEPT ![w] = active]
    /\ UNCHANGED <<content, index, disk, caches, cpc, count, matrix, scored, history,
                   faults>>

\* The count of _cached_current_mapping_count, read from the cache or, if it has
\* none, from the database...
ReadCount(w) ==
    LET hit == gen[w] \in DOMAIN counts
    IN  /\ At(w, "count", IF hit THEN "load" ELSE "store")
        /\ count' = [count EXCEPT ![w] = IF hit THEN counts[gen[w]]
                                         ELSE MappedCurrent(gen[w])]
        /\ UNCHANGED <<content, index, disk, caches, cpc, gen, matrix, scored, history,
                       faults>>

\* MUTANT: the cache is keyed by the project alone.
AnyGeneration(w) == active

\* The generation for which a worker stores the count.
CountKey(w) == gen[w]

\* ... and stored for the next query.
StoreCount(w) ==
    /\ At(w, "store", "load")
    /\ counts' = [g \in DOMAIN counts \cup {CountKey(w)} |->
                     IF g = CountKey(w) THEN count[w] ELSE counts[g]]
    /\ UNCHANGED <<content, index, disk, loaded, cpc, gen, count, matrix, scored,
                   history, faults>>

\* MUTANT: the loaded matrix is taken whatever generation it is of.
AnyLoaded(w) == loaded # None

\* The cached matrix is the one of the query's generation.
MatrixCached(w) == loaded = gen[w]

Unread(w) == /\ gen' = [gen EXCEPT ![w] = None]
             /\ count' = [count EXCEPT ![w] = 0]
             /\ matrix' = [matrix EXCEPT ![w] = None]
             /\ scored' = [scored EXCEPT ![w] = {}]

\* _load_generation, from the cache or the file; both need the file to be there.
LoadMatrix(w) ==
    LET from == IF MatrixCached(w) THEN loaded ELSE gen[w]
    IN  /\ gen[w] \in files
        /\ At(w, "load", "search")
        /\ matrix' = [matrix EXCEPT ![w] = from] /\ loaded' = from
        /\ UNCHANGED <<content, index, disk, counts, cpc, gen, count, scored, history,
                       faults>>

MatrixGone(w) ==
    /\ gen[w] \notin files
    /\ At(w, "load", "idle") /\ Unread(w)
    /\ loaded' = None
    /\ UNCHANGED <<content, index, disk, counts, cpc, history, faults>>

\* _eligible_row_indices and the search: mappings of superseded chunks are left out
\* only when the count says that there are some, those of deleted items always.
Search(w) ==
    LET rows == MappingsOf(gen[w])
        eligible == IF count[w] < Len(vectors[matrix[w]])
                    THEN DOMAIN rows \cap Current ELSE DOMAIN rows \ (Items \ items)
    IN  /\ At(w, "search", "join")
        /\ scored' = [scored EXCEPT ![w] = {rows[e] : e \in eligible}]
        /\ count' = [count EXCEPT ![w] = 0]
        /\ UNCHANGED <<content, index, disk, caches, cpc, gen, matrix, history, faults>>

\* _rows_for_semantic_candidates: the entities that the scored rows stand for.
Hits(w) ==
    LET rows == MappingsOf(gen[w])
    IN  {e \in DOMAIN rows \cap Current : rows[e] \in scored[w]}

\* The query returns its hits, each with the score of its row.
Answer(w) ==
    /\ At(w, "join", "idle") /\ Unread(w)
    /\ UNCHANGED <<content, index, disk, caches, cpc, history, faults>>
-----------------------------------------------------------------------------
\* The process dies and starts again: the caches and the queries are gone.
Crash ==
    /\ Fault("crash")
    /\ counts' = <<>> /\ loaded' = None /\ cpc' = "idle"
    /\ wpc' = [w \in Workers |-> "idle"]
    /\ gen' = [w \in Workers |-> None] /\ count' = [w \in Workers |-> 0]
    /\ matrix' = [w \in Workers |-> None] /\ scored' = [w \in Workers |-> {}]
    /\ residue' = (residue \/ cpc \in {"staged", "written", "activated", "clean"})
    /\ UNCHANGED <<content, index, disk, changed>>

ContentRequest ==
    \/ \E r \in Revisions : EditPresentation(r) \/ MoveHead(r)
    \/ ReindexPresentation
    \/ \E d \in Documents : ImportDocument(d) \/ DeleteDocument(d)
    \/ \E k \in Items : DeleteItem(k) \/ ConfirmItem(k)

Rebuild ==
    \/ RebuildUnavailable \/ StageMatrix \/ ReplaceFile \/ Activate
    \/ ForgetActivated \/ CleanRebuilt

Query(w) ==
    \/ ReadGeneration(w) \/ ReadCount(w) \/ StoreCount(w)
    \/ LoadMatrix(w) \/ MatrixGone(w) \/ Search(w) \/ Answer(w)

Next ==
    \/ ContentRequest \/ Forget \/ ForgetAndSync
    \/ Health \/ StartRebuild \/ Rebuild
    \/ \E w \in Workers : Query(w)
    \/ Crash

Spec == Init /\ [][Next]_vars
-----------------------------------------------------------------------------
TypeOK ==
    /\ head \in made /\ made \subseteq Revisions /\ parsed \subseteq made
    /\ docs \subseteq Documents /\ items \subseteq Items
    /\ vectors \in Seq(Seq(Entities)) /\ Len(vectors) <= MaxGenerations
    /\ active \in 0..Len(vectors) /\ loaded \in 0..Len(vectors)
    /\ files \subseteq 1..Len(vectors) /\ staging \subseteq 1..Len(vectors)
    /\ DOMAIN rowOf \subseteq Entities /\ DOMAIN counts \subseteq 1..Len(vectors)
    /\ cpc \in {"idle", "forget", "sync", "rebuild", "staged", "written",
                "activated", "clean"}
    /\ wpc \in [Workers -> {"idle", "count", "store", "load", "search", "join"}]
    /\ gen \in [Workers -> 0..Len(vectors)] /\ matrix \in [Workers -> 0..Len(vectors)]
    /\ DOMAIN count = Workers /\ DOMAIN scored = Workers

\* The score of a hit is that of its own vector: though the index is rebuilt under a
\* query, rows of one generation are never looked up in the matrix of another
\* (retrieval 518-645, 944-978).
ScoresAreOwn ==
    \A w \in Workers : wpc[w] = "join" =>
        \A e \in Hits(w) :
            /\ rowOf[e] \in DOMAIN vectors[matrix[w]]
            /\ vectors[matrix[w]][rowOf[e]] = e

\* At every moment, and so after a crash, the active generation has its matrix, and
\* each mapping names a row of it that holds the vector of its entity (retrieval
\* 366-388, 723-790, 1473-1498).
IndexSurvives ==
    active # None =>
        /\ active \in files
        /\ \A e \in DOMAIN rowOf :
             rowOf[e] \in DOMAIN vectors[active] /\ vectors[active][rowOf[e]] = e

\* A rebuild repairs a stale count: until the content changes again, what the cache
\* holds for the active generation is true, whatever queries were running over the
\* activation (retrieval 388-393, 1064-1078).
RebuildRepairsCount ==
    active \in DOMAIN counts /\ ~changed => counts[active] = MappedCurrent(active)

\* After a rebuild, also one that failed, or a health check there is one matrix,
\* unless a clean-up was cut short or a file could not be removed (retrieval 396-400,
\* 477-480, 1473-1498).
OneMatrix ==
    cpc = "idle" /\ ~residue => files \subseteq {active} /\ staging = {}

=============================================================================
