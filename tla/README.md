# Presenter Copilot in TLA+

TLA+ specifications of the Presenter Copilot core (`src/core/presenter_core`) and of the
desktop's side of the core process (`src/apps/desktop`), model-checked with TLC on small
instances, with machine-checked proofs (TLAPS) of their safety invariants for every
instance. What is specified is where the program has real
concurrency, real crash recovery or durable state that several operations share; the
parts left out, and why, are in section 6.

Line numbers refer to `src/core/presenter_core` unless a path says otherwise; "asr",
"storage", "retrieval" and so on stand for that package's `service.py`.

## 1. The system

An Electron desktop (`src/apps/desktop`) starts a Python sidecar, the core, and talks to
it in NDJSON over stdio. `ipc/server.py` reads one request, has `ipc/core.py` dispatch it
to a service, writes the reply, and only then reads the next one: every request handler
runs on **one control thread**. Each project has a vault (a directory with its own SQLite
database); `app.db` holds the registry of projects and the deletion journal. Other
threads come from the audio driver, the ASR workers, Live Assist, the rehearsal analysis
jobs, provider calls, the PowerPoint watcher and the ChatGPT sign-in. They share memory
with the control thread under locks, and the project databases under SQLite transactions.

| Component | State it keeps | Operations and callers | What makes it correct | Module |
|---|---|---|---|---|
| ASR capture slot, `asr/` | one `_ActiveCapture`: frame queue, open utterance, final queue, retained final, flags; model and microphone handles | `asr.start/stop/cancel` on the control thread; audio callback; ingestion and decoder threads | no final lost or reordered; stop ends; a cancel keeps nothing; handles outlive their workers | `ASRCapture` |
| Sessions and runs, `session/`, `run/` | session rows, utterances | `session.start/stop/delete`, `persist_final_utterance` from the decoder, reconciliation at start and `project.open` | a transcript is in order and complete; a row outlives what works on it | `ASRCapture`, `SlideTracking`, `LiveAssist`, `AnalysisJobs` |
| Deletion journal, `storage/` | tombstone directories and manifests, journal and registry rows | `project.delete`, reset, recovery | nothing registered is lost, nothing deleted returns, every deletion ends | `Deletion` |
| Slide tracking, `presentation/service.py` | watcher thread, mode, current slide, slide events | detect, manual navigation, stop; the watcher | a manual slide stays; the timeline is true and in order | `SlideTracking` |
| Provider execution, `providers/execution.py` | provider-run rows, budget, privacy decision | `execute` from any service; a thread per call | a late or forbidden answer is never used | `ProviderExecution` |
| Rehearsal analysis jobs | job map, cancellation flags, findings | start, cancel, poll, drain; worker threads | an accepted cancel stores nothing; drained means no worker | `AnalysisJobs` |
| Live Assist, `live/` | register of assists, partial and final cues | request, cancel, stop; a worker per request | no orphaned partial cue, nothing outlives a session | `LiveAssist` |
| Revisions, `presentation/editing.py`, `revisions.py`, `edit_plans.py` | revision rows, head, packages on disk, plans under review | import, edit, undo, redo, restore, plans, deletion | a recorded package stays intact; an edit builds on its parent | `Revisions` |
| Slide edits, `presentation/editing.py`, `slide_sections.py`, `slide_reuse.py` | the slides of a revision, their order, sections, links and parts | create, duplicate, reuse, delete, reorder, link, replace; one request each | links lead where they led; a copy shares nothing that is edited in place | `Deck` |
| Rehearsal coverage, `presentation/rehearsal_coverage.py` | none; joins two revisions and a timeline | a report | a slide is shown its own observations | `RehearsalCoverage` |
| Retrieval, `retrieval/` | index generations, matrix files, two caches | health, rebuild, query; every change of content | a hit has its own score; the active index is whole | `Retrieval` |
| Codex provider, `providers/codex.py` | one child process, account state, cancellation flags | sign-in, sign-out, status; generations on provider threads | one runtime; an answer is of its own turn; nobody hangs | `CodexRuntime` |
| ChatGPT plan sign-in, `providers/chatgpt_plan_auth.py` | token vault, one pending sign-in | sign-in, cancel, sign-out, reset, refresh; a thread per sign-in | a cancelled sign-in stores nothing; signed out stays out | `PlanSignIn` |
| Desktop shell, `core-client.ts`, `restart-controller.ts`, `main.ts` | child process, pending requests, timers, restart budget | start, request, shutdown, automatic restart, quit | one core; a lost core comes back; a quit ends | `CoreClient` |
| Project registry, credentials | registry rows, vaults, key stores | create, open, delete; cleanup in a reset | a row has a vault; a finished reset left no key | `Deletion`, `ProviderExecution` |
| Teach, Challenge | turn and candidate rows | single requests | each turn is answered once | Teach's voice answer in `ASRCapture` |
| Ingestion, knowledge | documents, chunks, items | single requests | rows and index agree | in `Revisions`, `Retrieval` |
| Audience, speaker, decisions, transcript, migrations, format code | rows, files | single requests | little interaction | none |

How they interact: the decoder thread calls the run service (one SQLite transaction per
final) and emits `asr.final`; `session.stop` must get the capture stopped before it ends
the row; Teach gets its answer through the capture's finalizer; `session.delete` drains
the analysis jobs and purges the assists before, and after, the row is gone; assists and
jobs call providers through `ProviderExecution`, and Codex is such a provider; every edit
commits a revision, invalidates the cached counts of the index and re-indexes; a reset
removes the credentials, the Codex runtime and the plan vault. Start-up reconciles
deletions, then session rows; opening a project reconciles private packages.

What is hard here: the interleavings of the capture threads around a stop, a cancel and a
failure; retries of a stop; the process dying between durable writes no two of which
share a transaction with the file system; late results of assists, jobs, provider calls,
watchers and sign-ins; caches read without a lock; a child process whose events, timers
and failures arrive in any order. `PROJECT.json` lists these hazards at their lines.

## 2. Modules

| Module | What it is |
|---|---|
| `ASRCapture` | the capture slot, its four threads, and the session rows around it |
| `Deletion` | deletions, resets and their recovery, one action per durable write |
| `SlideTracking` | the slide on screen, two kinds of thread that persist it |
| `ProviderExecution` | one bounded provider call; no next-state relation of its own |
| `AnalysisJobs` | the jobs of rehearsal analysis; extends `ProviderExecution` |
| `CancellableWork` | what is promised of work that can be cancelled: the abstract specification of `AnalysisJobs` |
| `LiveAssist` | requests of Live Assist and their workers; extends `ProviderExecution` |
| `CoreClient` | the desktop's side of the core process |
| `Revisions` | packages, revision rows and edit plans of one presentation |
| `Retrieval` | the semantic index of one project, and queries of it |
| `CodexRuntime` | the Codex child process and the generations on it |
| `PlanSignIn` | the vault of ChatGPT plan accounts and the pending sign-in |
| `Deck` | the slides of one presentation through its edits |
| `RehearsalCoverage` | the report on a rehearsal of an earlier revision; extends `Deck` |
| `Presentations` | `Revisions` and `Deck`, side by side |
| `Accounts` | `PlanSignIn` and `CodexRuntime`, side by side |
| `CoreProcess` | `Deletion` and `CoreClient`, side by side |
| `LiveSession` | `LiveAssist` and `SlideTracking`, side by side |
| `MC...` | the values of an instance's constants, and its symmetry; `MCDecks` has sample presentations |
| `ASRCaptureProofs`, `CoreProcessProofs`, `ProviderExecutionProofs`, `AnalysisJobsProofs`, `LiveSessionProofs`, `RetrievalProofs`, `PresentationsProofs`, `AccountsProofs` | theorems and proofs (section 5) |

The four modules that put two components side by side declare the variables of both and
name the second by `INSTANCE`. The two share no state in the code either; a step of one
leaves the other alone, so an instance looks at one of them at a time, and a theorem is of
the one whose `Spec` it names (`C!Spec`, `K!Spec`, `P!Spec`, `D!Spec` for the second).

A definition marked `MUTANT` states how a plausible mistake would change the
definition that follows it. Each property listed for a passing run has one with
which TLC finds that property violated, so the property does depend on the code.

Conventions. An action is what one thread does in one critical section or one
transaction, or between two of them where nothing it touches is shared. Failures are
drawn from the set `Faults`, `MaxFaults` of them in a behaviour. Every bound of an
instance (`Max...`) is named in its module and is in a guard.

### 2.1 ASRCapture

One action is what one thread does in one critical section of `_lock`, or between two
of them where nothing it touches is shared.

| Thread | Variables | Actions | Code |
|---|---|---|---|
| control | `cpc`, `op` | `StartSession` `StopIdleSession` `OpenProject` `Start` `StartLoadModel` `StartOpenDevice` `StartDevice` `AbortStart` `AbortRelease` `RequestStop` `StopDevice` `JoinWorkers` `FinalizeTeach` `ReleaseCapture` | asr 307-436, 464-708, 1430-1466 |
| callback | (`frames`) | `AudioFrame` `InputLost` | asr 846-874 |
| ingestion | `ipc`, `clock`, `speech`, `seg` | `Ingest...` `QueueHasRoom` `QueueNeverDrains` | asr 876-968, 1005-1090 |
| decoder | `dpc`, `cur`, `curPartial` | `TakeFinal` `TakePartial` `DecoderFinishes` `DecodePartial` `DecodeFinal` `DiscardCancelled` `ResolveBlank` `KeepPart` `CommitFinal` `EmitFinal` `RetainFailedFinal` `DecoderExit` | asr 970-1003, 1092-1301; run 218-333 |
| environment | `faults` | `Crash`, and a failing disjunct in each step that can fail | storage 199-240 |

Shared between them: `accepting` `stopReq` `cancelReq` `fatal` `attempts` (the flags
of `_ActiveCapture`), the frame queue (`frames`, `sentinel`), the partials
(`utterance`, `partialReq`, `latest`), the finals (`finals`, `pending` =
`pending_final_retry`), and Teach's text (`parts`). `status` and `transcript` are
durable. `begun`, `settled`, `announced`, `submissions` and `overrun` are
history, which the program does not keep.

Abstractions. Frames are counted, not recorded: whether a frame starts, continues
or ends speech is the segmenter's threshold arithmetic and here a free choice, so
every segmentation of the audio is covered. A final is its start and end time. The
codes of `fatal_error_code` are two: `ASR_BACKPRESSURE`, which the code treats
specially, and any other. The 500 ms throttle of partials is a free choice. A final
decoded again has the same text. All sessions belong to one project. Time-outs of
`join` are failures of kind `timeout`: without that failure a join waits.

Not modelled: `close`, `configure`, the device test and the model downloads, which
run without a capture, and a restart of the sidecar while its old process lives.

### 2.2 Deletion

Each action is one durable write, and the process may die between any two of them.

| Code | Actions |
|---|---|
| `project.create` (project 99-158) | `CreateVault` `RegisterProject` |
| `project.delete` (project 288-316), reset (`ipc/core.py` 1669-1707), start-up (`ipc/core.py` 339) | `RequestDelete` `RequestReset` `StartProcess` |
| `reconcile_deletions` (storage 389-441) | `Scan` `Reconcile` `PassEnds` |
| staging and the commit (tombstones 62-172, storage 443-487) | `CreateDirectory` `WriteManifest` `StageVault` `CommitRemoval` |
| completing (storage 489-540) | `MarkCommitted` `RemoveCredential` `MarkCredential` `CleanVault` `DropJournal` |
| undoing (tombstones 174-212), `_remove_operation` (488-522) | `RestoreVault` `RemoveManifest` `RemoveDirectory` |

Durable: `vault` (where each vault is), `tomb` and the manifest's fields, `row`,
`journal`, `stored`. `pc`, `task`, `cur` and the recovery lists `todo`, `pending`,
`completed` die with the process. A request that fails goes back to `idle` and leaves
what it did; the same step failing inside a recovery pass puts the operation on
`pending` and goes on: `Fails` is both.

Abstractions. A manifest write is atomic, as `_write_manifest` replaces a temporary
file. A tombstone without a readable manifest is `bare`, whatever else is wrong with
it. A reset's logs, diagnostics and model cache are removed with the vaults. The
stored OpenAI and OpenRouter keys are one, `key`: the code treats them alike, and the
ChatGPT plan vault, `plan`, differently. Only the state before the first reset fills
the stores: a credential saved while a reset is pending is not modelled (it would
let the stuck resets of section 4 end).

### 2.3 SlideTracking

| Who | Actions | Code (presentation) |
|---|---|---|
| request thread | `StartRun` `Persisted`; `Detect` `Follow`; `Override` `Step` `Navigate`; `Switch` `Join` `Switched`; `StopRun` `PopRun` `EndSession` | 71-118; 124-155; 157-200; 351-362; 269-280, session 165-216 |
| watcher | `StartWatcher` `Poll` `ReadShow` `Leave` | 313-349 |
| either, in `_persist_slide` | `Check` `ReadLatest` `ReadEnded` `ReadFull` `Insert` `InsertFails` `Apply` | 364-439 |
| PowerPoint | `Move` | external |

A run is one `_ActivePresentation`: stopping and starting again makes a new one, whose
fields an old watcher no longer sees. `timeline` and `active` are durable. Time is the
number of inserts: each takes the database longer than the millisecond that the
timestamps resolve. `chosen` (what the presenter took control with), `overrun` and
`disturbed` are history. Not modelled: how the adapter talks to PowerPoint (an answer
is a slide or none), queries of slides and state.

### 2.4 ProviderExecution, AnalysisJobs, CancellableWork

`ProviderExecution` is `execute` (execution 194-379): `Call` `Authorize` `RecordRun`
`Recheck` `Invoke`, then the wait for the provider's thread, which ends in
`WaitAnswered`, `WaitCancelled` or `WaitExpires`, then `Validate` and `FinishRun` or
`FinishFails`. `Answer` is the provider's thread (external); nobody can stop it.
`ChangePolicy` (project 190-285) and `OpenProject` (storage 199-224, which marks every
run in flight as interrupted) are requests. `policy` is a privacy mode with its
acknowledgement, `context` a version of everything `before_provider` compares: payload
rules and the choice of a route are data, and one provider is tried.

| Code | Actions of `AnalysisJobs` |
|---|---|
| `start`, `cancel` (rehearsal_analysis_jobs 93-149, 190-201) | `Start`, `RequestCancel` / `Cancel` |
| `drain` and its callers (247-291; session 314-392) | `StartDrain` `DrainPending` `DrainDone` `DeleteSession` |
| `_run` (203-245) | `Begin` ... `Exit` |
| the analysis (rehearsal_semantic_analysis 78-174) | `Prepare` `Execute` `Executed` |
| storing (rehearsal_analysis_store 230-316, jobs 204-223) | `OpenTransaction` `Committing` `Commit` `Complete` |
| anything that changes what the analysis read | `ProjectChanges` |

`CancellableWork` has five phases of a piece of work and says that an accepted cancel
keeps the result from being stored. `AnalysisJobs` maps a job's state, its place and
the stored findings to a phase (`Promise`); `KeepsPromise` is the refinement.

### 2.5 LiveAssist

| Code (live) | Actions |
|---|---|
| requests: `request` 697-804, cancel, stop, purge 915-970, `project.open` | `Request` `Cancel` `StopSession` `SessionStopped` `DeleteStopped` `DeleteRow` `PurgeSession` `PurgeDone` `PurgeGivesUp` `Reopen` |
| worker 1020-1595 | `SavePartial` `AnswerLocally` `AskProvider` `NotAsked` `Execute` `Executed` `ReadCue` `WriteCue` `Announce` `End` |

A cue is saved in two steps, `ReadCue` and `WriteCue`: SQLite opens the transaction with
the first write, after the reads that decide what to write. Retrieval is a step of the
worker that reads nothing of this model. Not modelled: dismiss, expand, the display
mark, the limit on cues, SQLite errors while a partial cue is discarded, a second Live
session.

### 2.6 CoreClient

| Code (`src/apps/desktop/src/main`) | Actions |
|---|---|
| `bootstrapCore`, main 767-804 | `Bootstrap` `BootGoesOn` `BootFails` `BootEnds` |
| core-client 243-309 | `Start` |
| core-client 522-633 | `ReadyArrives` `ResponseArrives` `ChildFails` `ExitArrives` `CloseArrives` |
| core-client 311-384 | `AppRequests` `RequestExpires` |
| core-client 394-447 | `Shutdown` `ShutdownAnswered` `ShutdownClosed` `ShutdownKills` `ShutdownGivesUp` |
| restart-controller 62-154 | `Schedule` `RestartFires` `StabilityFires` |
| main 1479-1602 | `Quit` `ExportsStopped` `QuitDone` `QuitAgain` |
| the process | `CoreReady` `CoreAnswers` `CoreDies` `CoreSticks` (external) |

An action is one turn of the event loop; what awaits a promise goes on in `Microtask`,
before the next turn. Timers carry no clock: an armed one may fire at any time. The
renderer, windows and the other IPC handlers are left out.

### 2.7 Revisions

| Code (`presentation/`, `ingestion/`) | Actions |
|---|---|
| import, ingestion 106-231; re-index 342-475 | `ImportCopies` `ImportRecords` `ImportParses` `Reindex` |
| an edit, editing 608-663 and 2642-2759 | `Edit` `Install` `CommitRevision` |
| restore, undo, redo, editing 2496-2630 | `Restore` `Undo` `Redo` |
| plans, edit_plans 99-335, transactions 180-349 | `Prepare` `CopyPlan` `RegisterPlan` `OpenPreview` `Apply` `DropApplied` `Reject` |
| deletion, `ipc/core.py` 1741, revisions 214-247, ingestion 288-340 | `Delete` `RemoveFile` `DeleteRecord` |
| reconciliation, edit_plans 68-97 | `Reconciled`, in `OpenProject` |
| the process | `Crash` `Close` `Restart` |

The bytes of a package are a name for who wrote them, so that a digest tells all of
them apart. The 60-odd edit methods are one action, `Edit`: they differ in the bytes.
Not modelled: the temporary file of an import, a new import after an orphaned
snapshot, plans that change nothing, plans of several stages, failing removals of
private packages, a reader's handles and their time to live, export, the refusals
during an active session, the provenance check of provider plans.

### 2.8 Retrieval

| Code (retrieval) | Actions |
|---|---|
| `health` 97-168; `rebuild` 170-189 and what it calls | `Health`; `StartRebuild` `StageMatrix` `ReplaceFile` `Activate` (723-794) `ForgetActivated` `CleanRebuilt` `RebuildFails` `RebuildUnavailable` |
| changes by ingestion, knowledge, Teach and editing | `ImportDocument` `DeleteDocument` `DeleteItem` `ConfirmItem` `EditPresentation` `MoveHead` `ReindexPresentation`; their invalidations `Forget` `ForgetAndSync` |
| a query of a Live Assist worker | `ReadGeneration` `ReadCount` `StoreCount` `LoadMatrix` `MatrixGone` `Search` `Answer` |
| the process | `Crash` |

Each statement of a query reads the database as it then is. A vector is the entity it
was made of, so a score is right if it is the entity's own. Not modelled: a change of
the model, filters beyond live use, ranking, lexical search, `_mark_document_error`, the
eviction of a project, several projects. A file that Windows keeps mapped cannot be
removed: the fault `unlink`.

### 2.9 CodexRuntime

| Code (providers/codex.py) | Actions |
|---|---|
| `sign_in` 441-474, `auth_status` 410-439, `sign_out` 476-486, `health` 397-408, `close` 584-591 | `SignIn` `Status` `SignOut` `Health` `Shutdown` and `ControlStep` |
| `generate` 488-582 and `cancel`, on a provider's thread | `Begin` `Lock` `GenStep` |
| its caller, execution 420-470 | `Abandon` `Collect` |
| the runtime, 208-267 | `EndTurn` `Die` `FinishLogin` and the failing outcomes of an rpc |

An rpc is one step, which ends within its 5 seconds with an answer or without. The
swap of `_server` in `close` is atomic, an error is set or not, several rpcs in a row by
which nothing is decided are one step, an overflow of the event queue is `Die`. The core
may shut down at any point, so the instance may stop.

### 2.10 PlanSignIn

| Code (providers/chatgpt_plan_auth.py) | Actions |
|---|---|
| `sign_in` 141-221, `select` 223-246, `cancel` 248-258 | `SignIn` `Select` `Cancel` |
| `sign_out` 260-292, `clear_for_reset` 359-397, `close` 416-423 | `Begin` with `SignOut` `Reset` `Quit` |
| `_access_token_for` 640-698 | `Refresh` `Refreshed` |
| the thread, 425-574 | `ThreadStep` |

What happens under `_lock` is one step, the HTTP requests under it included; a refresh
asks OpenAI without the lock and is two. Tokens are the grant they belong to. A refresh
is a step of the control thread, as decisions and the model list are requests. Not
modelled: the check of the host id, status, model list and caches, the HTTP protocol.
The core ends, so the instance may stop.

### 2.11 Deck

| Code (`presentation/`) | Actions |
|---|---|
| editing 1452-1704, 4881-5527 | `CreateSlide` `DuplicateSlide` |
| slide_reuse 130-561 | `ReuseSlide` |
| editing 4702-4880, 1208-1256, 6422-6571 | `DeleteSlide` `ReorderSlides` |
| slide_sections | `SetSlideSections`, and `Synced` in every edit of the order |
| click_actions 56-239 | `SetLink` |
| editing 2887-3117, 763-854, chart_editing 248-397 | `ReplaceSpeakerNotes` `ReplacePictureImage` `ReplaceChartData` |

A slide is its number in the package, the name of its part, the parts with its notes, chart
and picture, and its link; `data` is what a part holds, named by the edit that wrote it. So
a part that two slides share, or a name that is used again, shows. `born` tells slides apart
that the package does not. Not modelled: objects, animations, themes, layouts, tables and
text, which are each edited within one slide; the read-back validation of an edit, as the
properties say that it has nothing to refuse; and the OOXML of all this.

### 2.12 RehearsalCoverage

`Rehearse` binds a session to the slides of the current revision and records which were
shown and spoken to; `Report` joins that revision and the current one as `inspect_coverage`
(rehearsal_coverage 84-104) does. Not modelled: durations, and how events become visits.

## 3. Runs

| Run | Instance | States | Checks |
|---|---|---|---|
| `asr_safety` | a Run, a Teach and a Workspace session, 3 frames, any 2 failures of 10 kinds | 1.66 M | workers hold their resources, a cancel keeps nothing, Teach submits once, announced finals are durable |
| `asr_backlog` | one Run session, 5 frames, final queue of 1, 2 failures of decode, commit, loss and join | 0.53 M | no final lost short of an overrun, none overtaken; a stop returns (liveness) |
| `asr_retry` | the smallest that shows it | | an expected violation, section 4 |
| `deletion_recovery` | 2 projects, 2 operations, both kinds of credential, any 3 failures of 6 kinds | 0.21 M | registered vaults are safe, deleted ones stay deleted, replies are true, credentials go; recovery ends (liveness) |
| `slides_safety` | 3 slides, one hidden, 3 events, 2 watchers, 2 runs, 2 requests, 1 move, 1 failure, no assists | 0.30 M | manual control holds, the timeline is faithful; a followed run follows (liveness) |
| `jobs_safety` | 2 jobs, 2 sessions, 2 active and 1 retained at most, 1 change, 1 failure | 0.70 M | findings rest on audited runs, a deleted session has no worker; the refinement; jobs settle (liveness) |
| `assist_safety` | 2 assists, 1 change, 2 failures | 1.07 M | no orphaned partial cue, nothing outlives the session, announced cues are stored |
| `client_safety` | 3 cores, 1 restart, 1 stability window, 1 failure, 1 request, files left alone | 0.26 M | one core; recovery or exhaustion, a quit ends (liveness) |
| `presentations_safety` | 4 fresh ids, 2 plans, 2 failures; or 2 sample presentations and one to reuse slides of, 4 slides at most, 3 edits | 0.30 M | packages of revisions intact, each made from its parent, private ones reconciled; links lead, sections follow, an edit leaves other slides alone |
| `retrieval_safety` | 2 revisions, 1 document, 1 item, 1 worker, 2 generations, 1 failure | 5.2 M | own scores, a whole index, repaired counts |
| `accounts_safety` | 2 accounts, 3 sign-ins, 2 failures; or 2 generations, 2 invocation ids, 2 runtimes, 1 failure | 2.3 M | a cancelled sign-in stores nothing, signed out stays out; one runtime, own answers, turns stop, nobody waits for ever |
| `coverage_added` | the presentations of `presentations_safety` | | an expected violation, section 4 |

Why the bounds are enough.

* *ASR.* Five frames are two utterances and an open one (a frame to open one, a frame
  to close it): with a final queue of one this is one final at the decoder, one queued,
  and one that a stop flushes and that waits for room, the fullest state the code
  distinguishes; a larger queue bound adds only positions of the same kind, and the
  bound itself is proved for all sizes. Three frames reach a final and an open
  utterance, in each of the modes. A capture is what a capture slot has one of.
* *Deletion.* Two operations suffice because `OneOperation` is proved: recovery ends an
  operation before the next begins. Three failures are one more than a failure and one
  in its handling: one while the recovery of the first two runs.
* *Slides.* Two watchers and two runs are an abandoned watcher beside a live one and a
  run beside its successor; a third differs from neither. Three slides with one hidden
  give `next` and `previous` a slide to skip and a different one to land on.
* *Jobs, assists.* Two are a piece of work and the one that supersedes, evicts or waits
  for it; they only meet in the map and in the session row. The proofs hold for any
  number.
* *Client.* Three cores are one that died, one that the restart began, and one more
  that must be the last with one attempt.
* *Revisions.* Four ids are an edit, a plan, what is applied from it, and one more edit
  after an undo: the head can leave a plan's baseline and come back.
* *Retrieval.* Two generations are the active and the next; one worker, because the
  caches tolerate the control thread as well as a second worker, and the proofs do not
  fix the number.
* *Codex.* Two generations, as `_generation` lets one run and the other wait; two
  runtimes, a closed one and its successor; two ids, so that an id is used again.
* *Plan sign-in.* Three sign-ins for two accounts authorise one account again, with a
  sign-in for the other before, between or after.
* *Deck.* Three edits of three slides copy a slide, edit the copy and then the source, or
  delete one and create another under its number; the highest slide number, 260, is three
  above that of the last slide, so it is reached.

Two failures are a failure and one in the handling of it. Where there is one, the
properties with it hold of the failure in any state of the others. Ids are finite and each is used once; when they are spent the
instance still serves requests, and deadlock is checked in every run but two:
`accounts_safety`, in which the core may end, and `coverage_added`. The failure budgets are bounds of the
instances; the proofs hold for any budget.

### Fairness

* `ASRCapture`: weak fairness of the control thread's started request, of ingestion
  and of the decoder. Each is an operating-system thread that is never suspended by the
  program; a bounded wait of the code that would time out is a step. No fairness of
  requests, of audio or of failures. `RetriedSpec` adds a user who keeps
  asking for the stop, which is what the replies of a failed stop tell them to do.
* `Deletion`: weak fairness of the request's steps, weak fairness of the restart of a
  dead process (the desktop restarts its sidecar, and recovery of deletions is its first
  act), and strong fairness of a reset request: the claims are about users who ask
  again, "retry is safe" being the text of each error. Strong, because requests come
  only when the thread is idle, again and again but not for ever.
* `SlideTracking`: weak fairness of the request being served and of each watcher.
* `AnalysisJobs`: weak fairness of the workers, whose wait in `execute` has a budget.
  None of the providers: they owe no answer.
* `CoreClient`: the event loop's microtasks and the events that are due; armed timers
  fire; the end of the exports arrives; a process that was killed or has been told
  to end and is not stuck ends.
* `LiveAssist`, `Revisions`, `Deck`, `Retrieval`, `CodexRuntime`, `PlanSignIn`: only
  safety is checked. `ThreadsGoOn` is the safety form of a liveness property: no reachable state
  has a thread that waits for what nobody will do. Whether a thread has a step is `Moves`, a
  predicate of the state made of the guards that the actions themselves use; on this instance
  it was compared once, in every state, with whether a step of the thread is enabled.

## 4. Where the code and its documents disagree

Two are runs. `asr_retry`: a decode fails while the next utterance is open; ingestion
leaves without flushing it (asr 885-890), `active.utterance` stays set, and each later
stop finds an unresolved final (565-569), although the retained final was decoded. The
capture cannot be released, where docs/MVP/INTERFACES.md:468-470 promises a retry.

`coverage_added`: a new slide gets the number above the highest of the current revision
(editing 6067, 5116; slide_reuse 561). When the slide with the highest number was deleted,
the next one takes its number and so its identity, a hash of the number (fidelity 911), by
which the report joins the two revisions (rehearsal_coverage 84-104): the new slide is shown
what was recorded of the deleted one, where docs/PRODUCTION_READINESS.md:1822-1824 has
"newly added slides" without observations.

The rest was met while modelling and is told here for the maintainers; no run of the
project states it. Properties that had to exclude such a case say so.

**ASR.** With the decoder dead and the queue full, `_enqueue_final` overwrites
`pending_final_retry` (1074) and one final is lost: the overrun that
`FinalsAccountedUnlessOverrun` excludes. A second capture in a session counts
from zero again, and `persist_final_utterance` refuses its finals as out of order (run
302-310). A blank final clears an error of the ingestion thread (1172-1176), and the
failed Teach attempt then submits an answer. `project.open` aborts the row of a Run this
very process is capturing (storage 199-224). The marker of a stop can be skipped when the
frame queue is full, and ingestion then leaves after an empty wait of its own (500-503,
893-895). `ASR_BACKPRESSURE` is masked by a later decode failure and cleared with it.

**Deletion.** A crash between `mkdir` and the manifest (tombstones 91-105), or between
the removals of the two (515-516), leaves a directory that start-up refuses for ever
(`ipc/core.py` 339). A crash after a credential was removed and before the manifest
says so makes every retry report `CREDENTIAL_CLEANUP_INCOMPLETE`, as only a credential
this attempt found counts (providers 413). With only a ChatGPT plan vault stored the same
happens without any failure: its removal is never counted (providers 398-413).
`ReadableTombstonesResolve` excludes exactly these.

**Slides.** A failing adapter does not fall back to manual control, as
docs/MVP/ARCHITECTURE.md:553 has it; the watcher goes on polling.

**Live Assist.** The worker's last check (live 1577) is before the save: a cue can be
stored, and announced, after a cancel or a stop was confirmed; TEST_PLAN.md:435-436 says a
late result is discarded. The reads of `CueService.save` are outside its transaction, so a
dismissal in between is undone by the final save. `AssistService.close` is never called.
`session.delete` of a session that is already stopped purges the assists only after the
row is gone. `project.open` aborts the row of a live session without cancelling its
assists; a successful cue may later cite a run that was marked as an error.

**Desktop.** A late `core.ready` sets the status to "ready" while the child is being
terminated, or has already been finalized, and the next `start()` then resolves without
spawning. Stdout of a finalized child is still read. A quit before `core.ready` waits its
full time before it kills; a second quit does not wait for the first. A synchronous spawn
failure of the first start never reaches the restart controller. Nothing watches over a
core that hangs after it was ready. A request that timed out is offered for retry though
the core may still execute it.

**Revisions.** A crash leaves packages that the deletion of the source does not remove,
as no row names them (docs/PRESENTATION_WORKSPACE/ARCHITECTURE.md:215, AI_EDITING.md:330,
ROADMAP.md:479).

**Retrieval.** The cached count of current mappings goes stale where an edit does not
invalidate it: the handlers of `apply_rehearsal_edit` (`ipc/core.py` 638-639),
`replace_fonts` (945-947), `copy_object_format` (948-950), `insert_media` (1056-1058), and
the replacement of a knowledge item by Challenge; docs/MVP/DATA_MODEL.md:468-472 says it is
invalidated. A worker that counts before a change and stores after the invalidation does
the same (retrieval 1064-1078). Coverage can then exceed one, and the mask for superseded
chunks is skipped (TEST_PLAN.md:73-79). `RebuildRepairsCount` says that it ends with the
next rebuild.

**Codex.** A generation in flight during a sign-out or shutdown gets the isolation error,
and the status is "error" instead of "signed_out" (docs/PROVIDERS.md:234-235); its own
`close()` may close the runtime of a newer sign-in. A cancel that arrives after `generate`
dropped its key leaves a set event under `id(invocation)`; a later invocation with the same
id is cancelled unasked (execution 446-453). A reply to `account/read` in hand while another
thread closes leaves `_signed_in` set without a server. A purge between `login/start` and
the note of its id leaves a stale login: the next sign-in returns "signing_in" without a
browser until a sign-out. A `turn/start` that is not answered leaves a turn running
(docs/PROVIDERS.md:266). After a runtime has died, the next sign-in fails once, and so does
the reset that begins with a sign-out.

**Plan sign-in.** A refresh in flight overwrites the tokens of a re-authorisation
(chatgpt_plan_auth 667-698). When the vault cannot be written after a revocation the
revoked tokens stay. A cancel after the exchange drops the tokens without revoking them;
re-authorising an account does not revoke its old grant; the same person without a target
account becomes two accounts; a sign-in while a cancelled one still closes is swallowed;
the socket closing between the check of the flag and `select` may read as a failed login.

**Challenge, Teach.** At `MAX_ANSWER_VERSIONS_PER_QUESTION` a retried question awaits an
answer that can only be refused (challenge 839-868, 729-737). `save_preferred_answer`
replaces a knowledge item without `before_knowledge_delete`. "The latest question" is
ordered by milliseconds of the wall clock and then by a random id.

**Jobs.** After a `close` that failed because of a worker, the server exits or the service
refuses new jobs.

## 5. Proofs

All are for arbitrary constants under the modules' named assumptions, of `Spec`, without
fairness. TLC evaluates the assumptions on the instances.

**ASRCapture.** `ASRCaptureProofs` proves `TypeCorrect` one action at a time, in three
groups of conjuncts, then strengthens each invariant and proves that every action
preserves the strengthening; `AllInvariants` puts them together.

* `HandlesHeld` (`WorkersHoldResources`): needs to know at which steps of the control
  thread workers can be alive (`ControlInv`), and that a decoder restarted after a
  failed release only leaves (`ModelInv`): `_release` may have dropped the model.
* `MicrophoneHasOwner`: needs the owner's row active from `Start` to `StartDevice`.
* `RetryIsNeverBlocked`: a final is retained only when the capture no longer accepts
  audio, so that no later backpressure can overwrite its error.
* `BacklogIsBounded`: the queue exceeds its bound by one only while the restarted
  decoder has not taken its first final.
* `PartialIsOfOpenUtterance`, `CancelledIsDiscarded`, `TeachIsSubmittedOnce`,
  `AnnouncedFinalsAreDurable`: see the strengthenings in the module.
* `FinalsAreInOrder` (`NoOvertaking`) and `FinalsAreAccounted`: what is settled, then the
  final in the decoder's hand or retained for retry, then the queue, then the utterance
  that is spoken stand in the order of speech (`InLine` in `OrderInv`), as long as no
  overrun dropped one and the capture is not cancelled. `HandInv` says at which places the
  decoder holds a final, so that the hand and the retained final are never two. A failed
  final is put back in front of the queue: the lemmas on queues say what that keeps.

**Deletion (`CoreProcessProofs`).** None of the six invariants is inductive. `RegisteredVaultSafe` says a
registered vault is in place or in a tombstone recovery will roll back; for it to
survive a cleanup one must know that a tombstone being cleaned was committed
(`Phases`), that a vault is only in a tombstone that names it (`VaultsAreNamed`), and
that no second operation exists whose commit would remove the row (`OneOperation`, for
which `PassCovers` says that a recovery pass has every tombstone on a list).
`DeletedStaysDeleted` needs that a removed project's vault is in a tombstone recovery
counts as committed (`RemovedStaysRemovable`), `ConfirmedIsGone` what the loops leave
behind (`Emptied`) and that ids are fresh (`Births`), `ResetForgetsCredential` that a
reset that found credentials knows it (`CredentialsPlanned`). Their conjunction `IInv`
was first checked by TLC on the instance of `deletion_recovery`. `TypeStep` and
`InvariantStep` take it through each action, `Invariants` is the temporal step.

**Provider calls.** `ProviderExecutionProofs` has the lemmas that the two services
share: each step of a call keeps `ExecInv`. Its part `CallsOK` says that a call under way
was approved by the policy it was made under, that the wait of a call that goes on was
not overdue, and that a recorded success was answered in time (`Earned`).

**LiveAssist (`LiveSessionProofs`).** `PartialCuesHaveWorkers`, `DeletedSessionsAreEmpty`,
`AnnouncedCuesAreStored` and `SuccessesAreEarned`. The inductive invariant `AssistInv`
adds which workers are registered (`WorkersRegistered`), that a stop under way has
cancelled every registered assist (`StopCancels`), and at which stage of a worker its cue
is final (`ReadyIsFinal`).

**AnalysisJobs.** The inductive invariant `JobInv` adds to the properties that the state of
a job fits the stage of its worker (`StatesFitStages`), which states go with a
cancellation (`CancelsAreKnown`), that what lives is in the map (`LiveIsTracked`), which
is bounded (`MapIsBounded`), that a drain before a deletion selects all that could still
store (`DrainCovers`), and that what an open transaction has found stays true until it
commits (`FindingsAreAudited`). From it follow `FindingsRestOnRuns`, `DeletionsAreClean`,
`PollsAreTrue`, and, step by step, the refinement `JobsKeepPromise`: every step of
`AnalysisJobs` is a step of `CancellableWork` or changes nothing of it.

**Retrieval.** `IndexInv` adds that only generations that have been active are queried or
counted (`OnlyActivated`), that a new matrix has the vector of the i-th current entity in
row i (`MatrixIsOfCurrent`), that a query searches the matrix of its own generation
(`MatrixIsOfQuery`), that a count about to be stored is true while the content has not
changed (`CountsInHand`), and what each step of a rebuild may leave on the disk (`Tidy`).
From it: `IndexAlwaysSurvives`, `ScoresAreAlwaysOwn`, `RebuildsRepairCounts`,
`OneMatrixIsLeft`. That a new matrix enumerates the current entities rests on the
library's facts about injections of finite sets (`OrderEnumerates`).

**SlideTracking (`LiveSessionProofs`).** `SlideInv` has two ideas. A run has one watcher at
most that is alive (`WatchersAreKnown`), and the registered run is the latest
(`RunsAreLatest`), so whoever still persists for another run does nothing to this one. And a
watcher of a manual run can only leave, or wait to be told, unless the request thread is at
that moment joining it (`WatcherLeaves`); from this `ControlIsHeld`, hence `ManualHolds`.
For the timeline, as long as no two threads persisted at once and no run went on with the
rows of another (`disturbed`), the thread that persists is alone (`OnePersists`) and its time
is later than every time stored (`TimesArePast`), so that `Insert`, which may put an event
anywhere among equal times, appends it; `ChangesInOrder` then follows it to the current
slide.

**CoreClient (`CoreProcessProofs`).** `OneCoreLives`: what awaits an answer awaits the child
the client holds, an armed error timer is for a child that was killed (`ClientKnows`), and a
shutdown the application waits for is of that child (`QuitsItsCore`); a spawn finds no child,
so the new one is alone.

**Revisions (`PresentationsProofs`).** `RevisionInv`: ids are used once and the head has a row
(`RowsAreNamed`), what is being published or composed was made from the head and is not yet
in the place of a recorded package (`PublishesOnHead`, `ComposesOnHead`), a plan's package is
there and was made from its baseline (`PlansHaveBases`), and the private packages are those
of plans and of the composition under way (`PrivateAreHeld`). From it `RecordedPackagesStay`,
`RevisionsBuildOnParents`, `PrivatePackagesAreHeld`, `AppliedPlansFit`.

**Deck (`PresentationsProofs`).** `LinksAlwaysLead`: every edit of the order is a slide put
in, taken out, or a permutation, and the lemmas say which slides are there after each; a new
slide has a part no other has, so no link comes to lead to it unasked, and a slide is taken
out only if no link leads to it. `EditsSpareOthers`: what is written is none of what another
slide has. That rests on the slides of a deck being different in their identifiers, parts and
notes (`SlidesDiffer` in `TypeOK`, which is inductive with `LinksLead`, `DeckInv`), on the
names an edit draws (`FreshNames`: the highest identifier and the lowest number are free;
`NameIsNew`: no earlier revision has a name with this one's number), and on parts of
different kinds having different names (`KindsApart`), so that a copy of a part is a copy of
the right one (`CopyHolds`). Shared pictures stay shared: an edit of one is a part of its own
(`OwnPart`). Each edit is a lemma (`CreateStep`, ..., `OwnPart`) on one of three ways to
commit: a slide added (`SlideAdded`), edited in its place (`SlideEdited`), or none new
(`SparesAll`). Assumed of an imported presentation (`DeckAssumption`): its slides have
different identifiers and parts, its links lead, the parts that its slides have are there, and
a notes part is of one slide, as the format has it (deletion and duplication check that its
relationship leads back, editing 4665-4681, 5184-5199; the replacement of notes does not).

`SectionsAlwaysFollow`: after any edit the sections are runs of the slides, in order, and no
more slides have left their section than must. Three parts. First, `_stable` returns a
longest increasing choice: `PilesOf` says what the piles of the patience sort hold after the
first k positions (each is an increasing choice of its number, and ends with the lowest
position that any of that number can end with), `PlacedStep` that one more position keeps it,
and `StableLongest` that the last pile is a longest. Second, `Owner` gives each slide a
section, never a lower one than the slide before (`OwnersInOrder`), because the slides that
stay are in the order they had, and `FlattenPieces` says that what `Divided` makes of that is
the slides cut into runs. Third, `SectionsInv`: sections list slides in their order
(`InOrder`), which every edit of the slides keeps (`OrderFollows`, `BeginningsFollow`).
Where the argument is by induction on a length it takes the least length at which the claim
fails, as the library's induction theorems cannot be used. `InOrder` is assumed of an
imported presentation, as sections are runs of slides in the format. Of one where they
are not, `sync_sections` would keep the crossing (it gives stable slides the sections they
had); the code knows of such files and says that saving the sections rebuilds them (149).

**PlanSignIn (`AccountsProofs`).** `SignInInv`: a thread lives as long as a sign-in is
pending, which is the last that began (`ThreadServesPending`), a pending one that was
cancelled finds the flag set until it has stored its tokens (`CancelIsSeen`), and a reset
leaves none behind (`ClearedIsQuiet`).

**CodexRuntime (`AccountsProofs`).** `CodexInv`: what is in a runtime's queue is said of turns
that are over (`QueueTrue`), and a turn that runs on a live runtime has a generation that
listens to it or is about to end the runtime (`TurnsInPlace`). From it `OneRuntimeLives`,
`AnswersAreOwn`, `NoTurnLeftRunning`. `LocksAreHeld`: a lock that is taken is held by a
thread at a step that will give it back (`LocksHeld`, with the steps at which each thread may
be, `ThreadsInPlace`). From it `ThreadsGoOnAlways`: who waits for a lock waits for a thread
that waits for none that is held in turn, and every other wait has an answer, a timeout or
an end of the child, whoever closed the runtime meanwhile.

**Model-checked only.** Liveness (`StopReturns`, `ReadableTombstonesResolve`,
`FollowsPowerPoint`, `JobsSettle`, `Recovers`, `QuitEnds`): the provers do not do fairness.
Every other property of the passing runs is a theorem. Some theorems state what no run lists (`PollsAreTrue`,
`OneMatrixIsLeft`, `BacklogIsBounded`, the type invariants). No module has a recursive
operator.

## 6. What comes next

**Challenge and Teach** as turn machines. Their turns run in single requests, so that a
model would have one thread and little to interleave; the bound on answer versions (section 4)
is the property worth stating.

### Not modelled

* `presentation/editing.py` and `fidelity.py` beyond the commit of a revision and the edits
  of `Deck`, most of the 84,000 lines with the packages like it: transformations of OOXML
  documents. They are data, not control: each edit method reads one package and writes
  another under the protocol of `Revisions`.
* Parsing, chunking and ranking (ingestion, retrieval): numeric and textual.
* Transcript, audience, speaker, decisions: reads and writes of one request each.
* Schema migrations: straight-line SQL in one transaction.
* The OAuth HTTP exchange, the inside of the Codex child, PowerPoint, the audio driver
  and the decoder: external; modelled by what they may answer.
* The renderer and the windows of the desktop: user interface.
* The order of the clean-ups in `close` of the core.
