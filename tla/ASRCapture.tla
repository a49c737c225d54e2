----------------------------- MODULE ASRCapture -----------------------------
(***************************************************************************)
(* The microphone capture slot of core/presenter_core/asr/service.py and   *)
(* the four threads that share it:                                         *)
(*   - control: the sidecar's request loop (ipc/server.py handles one      *)
(*     request at a time), which starts, stops, cancels and aborts;        *)
(*   - callback: the audio driver's thread, which queues PCM frames;       *)
(*   - ingestion: segments frames into utterances and queues finals;       *)
(*   - decoder: decodes partials and finals, and commits each final.       *)
(* An action is what one thread does in one critical section, or between   *)
(* two of them when nothing in between touches shared state.               *)
(***************************************************************************)
EXTENDS Integers, Sequences, FiniteSets

CONSTANTS
    Sessions,      \* session rows, each used once: an ended one never restarts
    Mode,          \* the mode of each session
    None,          \* Python's None
    FrameBound,    \* maxsize of the frame queue
    FinalBound,    \* MAX_ASR_FINAL_QUEUE_SEGMENTS
    MaxClock,      \* bound: frames captured per capture
    MaxCaptures,   \* bound: captures started
    Faults,        \* the kinds of failure the environment may inject
    MaxFaults      \* bound: failures injected

Modes == {"run", "live_assist", "teach", "presentation_workspace"}
FaultKinds == {"start", "device", "timeout", "loss", "slide", "decode",
               "persist", "emit", "teach", "crash"}

BP  == "ASR_BACKPRESSURE"
ERR == "ASR_ERROR"       \* any other code of fatal_error_code

\* A completed utterance, and the utterance the segmenter has open.
Final == [start : Nat, end : Nat]
Open  == [start : Nat, gen : Nat, finalizing : BOOLEAN]

ASSUME CaptureAssumption ==
    /\ Mode \in [Sessions -> Modes]
    /\ None \notin Sessions \cup {BP, ERR} /\ None \notin Nat /\ None \notin Open \cup Final
    /\ FrameBound \in Nat \ {0} /\ FinalBound \in Nat \ {0}
    /\ MaxClock \in Nat /\ MaxCaptures \in Nat /\ MaxFaults \in Nat
    /\ Faults \subseteq FaultKinds

VARIABLES
    status,        \* the session rows' status; "aborted": by reconciliation
    transcript,    \* the durable final utterances of each session, in commit order
    owner,         \* the session of _active, None without a capture
    cap,           \* the number of captures started so far
    mic,           \* the input stream: none, open, or capturing
    model,         \* is the recognition model loaded
    cpc, op,       \* the control thread, and the stop or cancel it performs
    accepting, stopReq, cancelReq, fatal, attempts,
    frames, sentinel,             \* the frame queue: PCM frames, then the marker
    ipc, clock, speech, seg,      \* the ingestion thread and its segmenter
    utterance, partialReq, latest,
    dpc, cur, curPartial,         \* the decoder thread and the request it holds
    finals, pending,              \* final_requests and pending_final_retry
    parts, teachStarted, teachErr,
    begun, settled, overrun,      \* history, this capture: utterances begun and resolved, a final lost
    announced, submissions,       \* history: asr.final events, Teach submissions
    faults

rows      == <<status, transcript>>
slot      == <<owner, cap, mic, model>>
control   == <<cpc, op>>
flags     == <<accepting, stopReq, cancelReq, fatal, attempts>>
frameQ    == <<frames, sentinel>>
ingestion == <<ipc, clock, speech, seg>>
partials  == <<utterance, partialReq, latest>>
decoder   == <<dpc, cur, curPartial>>
backlog   == <<finals, pending>>
kept      == <<parts, teachStarted, teachErr>>
perCapture == <<begun, settled, overrun>>
outputs   == <<announced, submissions>>
vars == <<rows, slot, control, flags, frameQ, ingestion, partials, decoder,
          backlog, kept, perCapture, outputs, faults>>

NoOp  == [kind |-> "stop", end |-> FALSE, err |-> FALSE]

IngestionAlive == ipc \notin {"off", "dead"}
DecoderAlive   == dpc \notin {"off", "dead"}
WorkersDead    == ~IngestionAlive /\ ~DecoderAlive

\* One failure of kind k, within the budget.
Fault(k) == k \in Faults /\ faults < MaxFaults /\ faults' = faults + 1

-----------------------------------------------------------------------------
(* A capture that has not started: the fields of a fresh _ActiveCapture.    *)

FreshFlags    == /\ accepting' = TRUE /\ stopReq' = FALSE /\ cancelReq' = FALSE
                 /\ fatal' = None /\ attempts' = 0
FreshWorkers  == /\ frames' = 0 /\ sentinel' = FALSE
                 /\ ipc' = "off" /\ clock' = 0 /\ speech' = None /\ seg' = None
                 /\ utterance' = None /\ partialReq' = None /\ latest' = None
                 /\ dpc' = "off" /\ cur' = None /\ curPartial' = None
                 /\ finals' = <<>> /\ pending' = None
FreshKept     == /\ parts' = <<>> /\ teachStarted' = FALSE /\ teachErr' = FALSE
FreshHistory  == /\ begun' = {} /\ settled' = {} /\ overrun' = FALSE
NewCapture == FreshFlags /\ FreshWorkers /\ FreshKept /\ FreshHistory

Init ==
    /\ status = [s \in Sessions |-> "new"]
    /\ transcript = [s \in Sessions |-> <<>>]
    /\ owner = None /\ cap = 0 /\ mic = "none" /\ model = FALSE
    /\ cpc = "idle" /\ op = NoOp
    /\ accepting = TRUE /\ stopReq = FALSE /\ cancelReq = FALSE
    /\ fatal = None /\ attempts = 0
    /\ frames = 0 /\ sentinel = FALSE
    /\ ipc = "off" /\ clock = 0 /\ speech = None /\ seg = None
    /\ utterance = None /\ partialReq = None /\ latest = None
    /\ dpc = "off" /\ cur = None /\ curPartial = None
    /\ finals = <<>> /\ pending = None
    /\ parts = <<>> /\ teachStarted = FALSE /\ teachErr = FALSE
    /\ begun = {} /\ settled = {} /\ overrun = FALSE
    /\ announced = {} /\ submissions = <<>> /\ faults = 0

-----------------------------------------------------------------------------
(* Control: sessions begin, and end when the capture slot lets them.        *)

\* A Workspace capture has no session row: its voice context takes that place,
\* made by the start of the capture and forgotten with it.
IsWorkspace(s) == Mode[s] = "presentation_workspace"

StartSession(s) ==
    /\ cpc = "idle" /\ status[s] = "new" /\ ~IsWorkspace(s)
    /\ status' = [status EXCEPT ![s] = "active"]
    /\ UNCHANGED <<transcript, slot, control, flags, frameQ, ingestion, partials,
                   decoder, backlog, kept, perCapture, outputs, faults>>

\* session.stop of a session that owns no capture. A Run refuses while another
\* session owns the microphone (asr.stop raises ASR_SESSION_INVALID); Live
\* Assist ignores that error, and Teach only cancels a capture of its own.
StopIdleSession(s) ==
    /\ cpc = "idle" /\ status[s] = "active" /\ owner # s
    /\ Mode[s] = "run" => owner = None
    /\ status' = [status EXCEPT ![s] = "ended"]
    /\ UNCHANGED <<transcript, slot, control, flags, frameQ, ingestion, partials,
                   decoder, backlog, kept, perCapture, outputs, faults>>

\* reconcile_project_runtime: rows of Run and Live Assist that a process left
\* active are aborted; a Teach row stays as it is.
Reconciled ==
    [s \in Sessions |->
        IF status[s] = "active" /\ Mode[s] \in {"run", "live_assist"}
        THEN "aborted" ELSE status[s]]

\* project.open reconciles the project's rows, whatever this process captures.
OpenProject ==
    /\ cpc = "idle"
    /\ status' = Reconciled
    /\ UNCHANGED <<transcript, slot, control, flags, frameQ, ingestion, partials,
                   decoder, backlog, kept, perCapture, outputs, faults>>

-----------------------------------------------------------------------------
(* Control: start.                                                          *)

Start(s) ==
    /\ cpc = "idle" /\ owner = None /\ cap < MaxCaptures
    /\ status[s] = IF IsWorkspace(s) THEN "new" ELSE "active"
    /\ status' = [status EXCEPT ![s] = "active"]
    /\ owner' = s /\ cap' = cap + 1 /\ cpc' = "load"
    /\ NewCapture
    /\ UNCHANGED <<transcript, mic, model, op, outputs, faults>>

StartLoadModel ==
    /\ cpc = "load"
    /\ \/ model' = TRUE /\ cpc' = "open" /\ faults' = faults
       \/ Fault("start") /\ cpc' = "abort" /\ UNCHANGED model
    /\ UNCHANGED <<rows, owner, cap, mic, op, flags, frameQ, ingestion, partials,
                   decoder, backlog, kept, perCapture, outputs>>

StartOpenDevice ==
    /\ cpc = "open"
    /\ \/ /\ mic' = "open" /\ ipc' = "check" /\ dpc' = "next" /\ cpc' = "begin"
          /\ faults' = faults
       \/ /\ Fault("start") /\ cpc' = "abort"
          /\ UNCHANGED <<mic, ipc, dpc>>
    /\ UNCHANGED <<rows, owner, cap, model, op, flags, frameQ, clock, speech, seg,
                   partials, cur, curPartial, backlog, kept, perCapture, outputs>>

StartDevice ==
    /\ cpc = "begin"
    /\ \/ mic' = "capturing" /\ cpc' = "idle" /\ faults' = faults
       \/ Fault("start") /\ cpc' = "abort" /\ UNCHANGED mic
    /\ UNCHANGED <<rows, owner, cap, model, op, flags, frameQ, ingestion, partials,
                   decoder, backlog, kept, perCapture, outputs>>

\* _abort_start: stop accepting; the device never started, and an error of
\* stopping it is swallowed.
AbortStart ==
    /\ cpc = "abort" /\ cpc' = "abortJoin"
    /\ accepting' = FALSE /\ stopReq' = TRUE
    /\ UNCHANGED <<rows, slot, op, cancelReq, fatal, attempts, frameQ,
                   ingestion, partials, decoder, backlog, kept, perCapture, outputs,
                   faults>>

\* Ownership stays with the failed start when a worker outlives the join or a
\* release fails; the session's own stop then retries the cleanup.
AbortRelease ==
    /\ cpc = "abortJoin" /\ cpc' = "idle"
    /\ \/ /\ WorkersDead
          /\ owner' = None /\ mic' = "none" /\ model' = FALSE /\ faults' = faults
       \/ /\ WorkersDead /\ Fault("device")
          /\ mic' = "none" /\ UNCHANGED <<owner, model>>
       \/ /\ ~WorkersDead /\ Fault("timeout")
          /\ UNCHANGED <<owner, mic, model>>
    /\ status' = IF IsWorkspace(owner) THEN [status EXCEPT ![owner] = "ended"]
                 ELSE status
    /\ UNCHANGED <<transcript, cap, op, flags, frameQ, ingestion, partials, decoder,
                   backlog, kept, perCapture, outputs>>

-----------------------------------------------------------------------------
(* Control: stop and cancel (_finish_capture).                              *)

\* The requests each owner's lifecycle makes. Run and Live Assist only stop, Teach
\* and Workspace stop or cancel, and a Workspace capture whose start failed can
\* only be cancelled. "end" also ends the session: session.stop.
Requests(s) ==
    {request \in [kind : {"stop", "cancel"}, end : BOOLEAN, err : {FALSE}] :
        \/ Mode[s] \in {"run", "live_assist"} /\ request.kind = "stop"
        \/ Mode[s] = "teach" /\ (request.kind = "cancel" \/ ~request.end)
        \/ /\ IsWorkspace(s) /\ request.end
           /\ request.kind = "cancel" \/ status[s] = "active"}

\* A failed final kept for retry is decoded again on a later stop.
RetriesFinal(tries) ==
    /\ Mode[owner] # "teach" /\ tries > 1
    /\ pending # None /\ ~DecoderAlive /\ fatal # BP

\* MUTANT: the retained final is put behind the later ones.
RequeuedLast == Append(finals, pending)

\* It goes back in front of the finals spoken after it.
Requeued == <<pending>> \o finals

\* The first critical section of _finish_capture.
RequestStop(request) ==
    /\ cpc = "idle" /\ owner # None /\ request \in Requests(owner)
    /\ op' = request /\ cpc' = "stopDevice"
    /\ accepting' = FALSE /\ stopReq' = TRUE
    /\ attempts' = IF attempts < 2 THEN attempts + 1 ELSE 2
    /\ sentinel' = (sentinel \/ frames < FrameBound)
    /\ partialReq' = None /\ latest' = None
    /\ IF request.kind = "cancel"
       THEN /\ cancelReq' = TRUE /\ finals' = <<>> /\ pending' = None
            /\ utterance' = None /\ parts' = <<>>
            /\ UNCHANGED <<fatal, dpc>>
       ELSE /\ UNCHANGED <<cancelReq, utterance, parts>>
            /\ IF RetriesFinal(attempts')
               THEN /\ finals' = Requeued /\ pending' = None
                    /\ fatal' = None /\ dpc' = "next"
               ELSE UNCHANGED <<finals, pending, fatal, dpc>>
    /\ UNCHANGED <<rows, slot, frames, ingestion, cur, curPartial, teachStarted,
                   teachErr, perCapture, outputs, faults>>

StopDevice ==
    /\ cpc = "stopDevice" /\ cpc' = "join"
    /\ \/ /\ mic' = IF mic = "none" THEN "none" ELSE "open"
          /\ UNCHANGED <<op, faults>>
       \/ /\ mic # "none" /\ Fault("device")
          /\ op' = [op EXCEPT !.err = TRUE] /\ UNCHANGED mic
    /\ UNCHANGED <<rows, owner, cap, model, flags, frameQ, ingestion, partials,
                   decoder, backlog, kept, perCapture, outputs>>

UnresolvedFinal ==
    op.kind # "cancel" /\ (pending # None \/ finals # <<>> \/ utterance # None)

\* MUTANT: the join timed out and the release goes on.
ReleasesAfterTimeout == op.err \/ UnresolvedFinal

\* cleanup_error: the device did not stop, a worker is alive, or a final is not
\* resolved. The capture keeps its owner and the same request may be retried.
CleanupFails == op.err \/ ~WorkersDead \/ UnresolvedFinal

\* MUTANT: a retried stop finalizes again.
FinalizesAgain == op.kind # "cancel" /\ Mode[owner] = "teach" /\ fatal = None

CanFinalizeTeach ==
    op.kind # "cancel" /\ Mode[owner] = "teach" /\ fatal = None /\ ~teachStarted

\* The bounded joins and the two critical sections that follow them.
JoinWorkers ==
    /\ cpc = "join"
    /\ \/ WorkersDead /\ faults' = faults
       \/ ~WorkersDead /\ Fault("timeout")
    /\ cpc' = IF CleanupFails THEN "idle"
              ELSE IF CanFinalizeTeach THEN "finalize" ELSE "release"
    /\ op' = IF CleanupFails THEN NoOp ELSE op
    /\ teachStarted' = (teachStarted \/ (~CleanupFails /\ CanFinalizeTeach))
    /\ UNCHANGED <<rows, slot, flags, frameQ, ingestion, partials, decoder, backlog,
                   parts, teachErr, perCapture, outputs>>

\* The Teach finalizer: TeachService.submit_voice_transcript refuses an empty
\* answer and may fail; the capture is released in either case.
FinalizeTeach ==
    /\ cpc = "finalize" /\ cpc' = "release"
    /\ \/ /\ parts # <<>>
          /\ submissions' = Append(submissions, [cap |-> cap, parts |-> parts])
          /\ UNCHANGED <<teachErr, faults>>
       \/ /\ parts = <<>> /\ teachErr' = TRUE /\ UNCHANGED <<submissions, faults>>
       \/ /\ Fault("teach") /\ teachErr' = TRUE /\ UNCHANGED submissions
    /\ UNCHANGED <<rows, slot, op, flags, frameQ, ingestion, partials, decoder,
                   backlog, parts, teachStarted, perCapture, announced>>

\* A stop that released everything still raises the capture's error: a Run, Live
\* Assist or Teach session then stays active for its caller to stop again.
StopRaises == op.kind # "cancel" /\ (teachErr \/ fatal # None)

ReleaseCapture ==
    /\ cpc = "release" /\ cpc' = "idle" /\ op' = NoOp /\ mic' = "none"
    /\ \/ /\ model' = FALSE /\ owner' = None /\ faults' = faults
          /\ status' = IF \/ IsWorkspace(owner)
                          \/ op.end /\ ~StopRaises /\ status[owner] = "active"
                       THEN [status EXCEPT ![owner] = "ended"] ELSE status
       \/ /\ Fault("device")
          /\ model' \in {FALSE, model} /\ UNCHANGED <<owner, status>>
    /\ UNCHANGED <<transcript, cap, flags, frameQ, ingestion, partials, decoder,
                   backlog, kept, perCapture, outputs>>

-----------------------------------------------------------------------------
(* The audio callback: bounded copy and non-blocking enqueue.               *)

AudioFrame ==
    /\ mic = "capturing" /\ owner # None /\ accepting
    /\ clock + frames < MaxClock
    /\ frames < FrameBound
    /\ frames' = frames + 1
    /\ UNCHANGED <<rows, slot, control, flags, sentinel, ingestion, partials, decoder,
                   backlog, kept, perCapture, outputs, faults>>

\* The driver reports lost input, or the frame queue is full.
InputLost ==
    /\ mic = "capturing" /\ owner # None /\ accepting
    /\ Fault("loss")
    /\ fatal' = BP
    /\ accepting' = FALSE /\ stopReq' = TRUE
    /\ UNCHANGED <<rows, slot, control, cancelReq, attempts, frameQ, ingestion,
                   partials, decoder, backlog, kept, begun, settled, overrun, outputs>>

-----------------------------------------------------------------------------
(* Ingestion: drain PCM, segment, schedule decodes.                         *)

\* The top of the loop: leave on cancel, raise on a recorded error.
IngestCheck ==
    /\ ipc = "check"
    /\ ipc' = IF cancelReq \/ fatal # None THEN "exit" ELSE "get"
    /\ IF ~cancelReq /\ fatal # None
       THEN accepting' = FALSE /\ stopReq' = TRUE
       ELSE UNCHANGED <<accepting, stopReq>>
    /\ UNCHANGED <<rows, slot, control, cancelReq, fatal, attempts, frameQ, clock,
                   speech, seg, partials, decoder, backlog, kept, perCapture, outputs,
                   faults>>

TakeFrame == ipc = "get" /\ frames > 0 /\ frames' = frames - 1 /\ clock' = clock + 1

\* A frame that leaves the segmenter idle (silence, or not yet confirmed speech).
IngestSilence ==
    /\ TakeFrame /\ speech = None
    /\ ipc' = "check"
    /\ UNCHANGED <<rows, slot, control, flags, sentinel, speech, seg, partials,
                   decoder, backlog, kept, perCapture, outputs, faults>>

\* Confirmed speech opens an utterance, with the slide shown at that moment.
IngestSpeechStart ==
    /\ TakeFrame /\ speech = None
    /\ speech' = clock
    /\ utterance' = [start |-> clock, gen |-> 0, finalizing |-> FALSE]
    /\ begun' = begun \cup {clock}
    /\ ipc' = "check"
    /\ UNCHANGED <<rows, slot, control, flags, sentinel, seg, partialReq, latest,
                   decoder, backlog, kept, settled, overrun, outputs, faults>>

\* Reading the slide snapshot failed: the ingestion thread records and ends.
IngestSnapshotFails ==
    /\ TakeFrame /\ speech = None /\ Fault("slide")
    /\ speech' = clock /\ ipc' = "exit"
    /\ fatal' = IF fatal = None THEN ERR ELSE fatal
    /\ accepting' = FALSE /\ stopReq' = TRUE
    /\ UNCHANGED <<rows, slot, control, cancelReq, attempts, sentinel, seg, partials,
                   decoder, backlog, kept, begun, settled, overrun, outputs>>

\* _maybe_emit_partial replaces the one pending partial; the 500 ms throttle is
\* the choice of IngestSpeech to skip it.
RequestPartial ==
    /\ utterance # None /\ ~utterance.finalizing /\ accepting /\ ~stopReq
    /\ utterance' = [utterance EXCEPT !.gen = @ + 1]
    /\ partialReq' = [start |-> utterance.start, gen |-> utterance.gen + 1]

IngestSpeech ==
    /\ TakeFrame /\ speech # None
    /\ ipc' = "check"
    /\ RequestPartial \/ UNCHANGED <<utterance, partialReq>>
    /\ UNCHANGED <<rows, slot, control, flags, sentinel, speech, seg, latest, decoder,
                   backlog, kept, perCapture, outputs, faults>>

RoomForFinal == Len(finals) < FinalBound

\* _enqueue_final: queue the utterance's final and close the utterance, or wait
\* for room in the bounded queue. Speech of a cancelled capture is dropped.
EnqueueFinal(endMs, after, waiting) ==
    IF utterance = None \/ cancelReq
    THEN /\ ipc' = after
         /\ UNCHANGED <<utterance, partialReq, latest, finals, seg>>
    ELSE LET final == [start |-> utterance.start, end |-> endMs]
         IN  /\ partialReq' = None /\ latest' = None
             /\ IF RoomForFinal
                THEN /\ finals' = Append(finals, final) /\ utterance' = None
                     /\ ipc' = after /\ UNCHANGED seg
                ELSE /\ utterance' = [utterance EXCEPT !.finalizing = TRUE,
                                                       !.gen = @ + 1]
                     /\ seg' = final /\ ipc' = waiting /\ UNCHANGED finals

\* Silence or the length limit completes the utterance.
IngestSpeechEnd ==
    /\ TakeFrame /\ speech # None
    /\ speech' = None
    /\ EnqueueFinal(clock', "check", "wait")
    /\ UNCHANGED <<rows, slot, control, flags, sentinel, decoder, pending, kept,
                   perCapture, outputs, faults>>

\* condition.wait in _enqueue_final: room appears, or the decoder has ended and
\* the segment becomes the final to retry.
WaitingForRoom == ipc \in {"wait", "waitLast"}

QueueHasRoom ==
    /\ WaitingForRoom /\ RoomForFinal
    /\ finals' = Append(finals, seg) /\ seg' = None /\ utterance' = None
    /\ ipc' = IF ipc = "wait" THEN "check" ELSE "exit"
    /\ UNCHANGED <<rows, slot, control, flags, frameQ, clock, speech, partialReq,
                   latest, decoder, pending, kept, perCapture, outputs, faults>>

\* MUTANT: ingestion waits for a decoder that has ended.
WaitsForDeadDecoder == FALSE

QueueNeverDrains ==
    /\ WaitingForRoom /\ ~RoomForFinal /\ ~DecoderAlive
    /\ pending' = seg /\ seg' = None
    /\ overrun' = TRUE
    /\ fatal' = ERR /\ accepting' = FALSE /\ stopReq' = TRUE
    /\ ipc' = "exit"
    /\ UNCHANGED <<rows, slot, control, cancelReq, attempts, frameQ, clock, speech,
                   partials, decoder, finals, kept, begun, settled, outputs, faults>>

\* The marker, which follows every accepted frame.
IngestMarker ==
    /\ ipc = "get" /\ frames = 0 /\ sentinel
    /\ ipc' = "drained" /\ sentinel' = FALSE
    /\ UNCHANGED <<rows, slot, control, flags, frames, clock, speech, seg, partials,
                   decoder, backlog, kept, perCapture, outputs, faults>>

\* An empty queue times out; the stop flag is read afterwards, without the lock.
IngestEmpty ==
    /\ ipc = "get" /\ frames = 0 /\ ~sentinel
    /\ ipc' = "empty"
    /\ UNCHANGED <<rows, slot, control, flags, frameQ, clock, speech, seg, partials,
                   decoder, backlog, kept, perCapture, outputs, faults>>

IngestReadStop ==
    /\ ipc = "empty"
    /\ ipc' = IF stopReq THEN "drained" ELSE "check"
    /\ UNCHANGED <<rows, slot, control, flags, frameQ, clock, speech, seg, partials,
                   decoder, backlog, kept, perCapture, outputs, faults>>

\* After the loop: flush the open utterance unless the capture failed or was
\* cancelled.
IngestFlush ==
    /\ ipc = "drained"
    /\ IF fatal # None \/ cancelReq \/ speech = None
       THEN /\ ipc' = "exit"
            /\ UNCHANGED <<speech, utterance, partialReq, latest, finals, seg>>
       ELSE /\ speech' = None
            /\ EnqueueFinal(IF clock > speech THEN clock ELSE speech + 1,
                            "exit", "waitLast")
    /\ UNCHANGED <<rows, slot, control, flags, frameQ, clock, decoder, pending, kept,
                   perCapture, outputs, faults>>

\* ingestion_done is set, and the thread ends.
IngestExit ==
    /\ ipc = "exit" /\ ipc' = "dead"
    /\ UNCHANGED <<rows, slot, control, flags, frameQ, clock, speech, seg, partials,
                   decoder, backlog, kept, perCapture, outputs, faults>>

-----------------------------------------------------------------------------
(* Decoder: finals first, partials only while the capture runs.             *)

TakeFinal ==
    /\ dpc = "next" /\ ~cancelReq /\ finals # <<>>
    /\ cur' = Head(finals) /\ finals' = Tail(finals)
    /\ dpc' = "final"
    /\ UNCHANGED <<rows, slot, control, flags, frameQ, ingestion, partials, curPartial,
                   pending, kept, perCapture, outputs, faults>>

TakePartial ==
    /\ dpc = "next" /\ ~cancelReq /\ finals = <<>> /\ ~stopReq
    /\ partialReq # None
    /\ curPartial' = partialReq /\ partialReq' = None
    /\ dpc' = "partial"
    /\ UNCHANGED <<rows, slot, control, flags, frameQ, ingestion, utterance, latest,
                   cur, backlog, kept, perCapture, outputs, faults>>

\* Cancelled, or stopped with nothing left to come from ingestion.
NothingToDecode == cancelReq \/ (stopReq /\ ipc = "dead" /\ finals = <<>>)

DecoderFinishes ==
    /\ dpc = "next" /\ NothingToDecode
    /\ finals' = <<>> /\ partialReq' = None
    /\ dpc' = "exit"
    /\ UNCHANGED <<rows, slot, control, flags, frameQ, ingestion, utterance, latest,
                   cur, curPartial, pending, kept, perCapture, outputs, faults>>

\* A decoded partial is published only for the utterance still open, at the
\* generation that requested it.
PartialIsCurrent ==
    /\ utterance # None /\ utterance.start = curPartial.start
    /\ utterance.gen = curPartial.gen /\ ~utterance.finalizing
    /\ accepting /\ ~stopReq

\* A partial that is empty, too long or not decodable changes nothing.
DecodePartial ==
    /\ dpc = "partial" /\ dpc' = "next" /\ curPartial' = None
    /\ \/ PartialIsCurrent /\ latest' = curPartial
       \/ UNCHANGED latest
    /\ UNCHANGED <<rows, slot, control, flags, frameQ, ingestion, utterance,
                   partialReq, cur, backlog, kept, perCapture, outputs, faults>>

\* The adapter's answer: text, blank, or an error.
DecodeFinal ==
    /\ dpc = "final"
    /\ \/ dpc' \in {"text", "blank"} /\ faults' = faults
       \/ Fault("decode") /\ dpc' = "failed"
    /\ UNCHANGED <<rows, slot, control, flags, frameQ, ingestion, partials, cur,
                   curPartial, backlog, kept, perCapture, outputs>>

\* A final that comes through clears any error but lost input.
ClearedError == IF fatal = BP THEN BP ELSE None

\* MUTANT: what comes out of the adapter after a cancel is still kept.
AlwaysWanted == TRUE

\* Read again under the lock when the adapter returns.
StillWanted == ~cancelReq

DiscardCancelled ==
    /\ dpc \in {"text", "blank"} /\ ~StillWanted
    /\ dpc' = "next" /\ cur' = None
    /\ UNCHANGED <<rows, slot, control, flags, frameQ, ingestion, partials, curPartial,
                   backlog, kept, perCapture, outputs, faults>>

ResolveBlank ==
    /\ dpc = "blank" /\ StillWanted
    /\ settled' = settled \cup {cur.start} /\ fatal' = ClearedError
    /\ dpc' = "next" /\ cur' = None
    /\ UNCHANGED <<rows, slot, control, accepting, stopReq, cancelReq, attempts, frameQ,
                   ingestion, partials, curPartial, backlog, kept, begun,
                   overrun, outputs, faults>>

\* Teach and Workspace text stays in memory until the capture's stop.
KeepPart ==
    /\ dpc = "text" /\ StillWanted
    /\ Mode[owner] \in {"teach", "presentation_workspace"}
    /\ parts' = Append(parts, cur.start)
    /\ settled' = settled \cup {cur.start}
    /\ fatal' = IF Mode[owner] = "teach" THEN fatal ELSE ClearedError
    /\ dpc' = "next" /\ cur' = None
    /\ UNCHANGED <<rows, slot, control, accepting, stopReq, cancelReq, attempts, frameQ,
                   ingestion, partials, curPartial, backlog, teachStarted, teachErr,
                   begun, overrun, outputs, faults>>

Utterance(f) == [cap |-> cap, start |-> f.start, end |-> f.end]
Committed(s, u) == \E i \in 1..Len(transcript[s]) : transcript[s][i] = u

\* "ASR timestamps must be monotonic within a session."
InTimeOrder(s, u) ==
    \A i \in 1..Len(transcript[s]) : transcript[s][i].end <= u.start

\* MUTANT: a failed commit is swallowed, and the event announces the final.
CommitErrorSwallowed ==
    /\ dpc = "text" /\ StillWanted /\ Mode[owner] \in {"run", "live_assist"}
    /\ dpc' = "emit"
    /\ \/ /\ InTimeOrder(owner, Utterance(cur)) /\ faults' = faults
          /\ transcript' = [transcript EXCEPT ![owner] = Append(@, Utterance(cur))]
       \/ Fault("persist") /\ UNCHANGED transcript
    /\ UNCHANGED <<status, slot, control, flags, frameQ, ingestion, partials, cur,
                   curPartial, backlog, kept, perCapture, outputs>>

\* RunService.persist_final_utterance, one transaction; the same utterance again
\* is accepted and written once.
CommitFinal ==
    /\ dpc = "text" /\ StillWanted /\ Mode[owner] \in {"run", "live_assist"}
    /\ LET u == Utterance(cur)
           accepted == /\ status[owner] = "active"
                       /\ Committed(owner, u) \/ InTimeOrder(owner, u)
       IN  \/ /\ accepted /\ dpc' = "emit" /\ faults' = faults
              /\ transcript' = IF Committed(owner, u) THEN transcript
                               ELSE [transcript EXCEPT ![owner] = Append(@, u)]
           \/ /\ ~accepted \/ Fault("persist")
              /\ accepted \/ faults' = faults
              /\ dpc' = "failed" /\ UNCHANGED transcript
    /\ UNCHANGED <<status, slot, control, flags, frameQ, ingestion, partials, cur,
                   curPartial, backlog, kept, perCapture, outputs>>

\* asr.final, after the commit; then the error of an earlier attempt is cleared.
EmitFinal ==
    /\ dpc = "emit"
    /\ \/ /\ announced' = announced \cup {Utterance(cur)}
          /\ settled' = settled \cup {cur.start}
          /\ fatal' = ClearedError /\ cur' = None /\ dpc' = "next"
          /\ faults' = faults
       \/ /\ Fault("emit") /\ dpc' = "failed"
          /\ UNCHANGED <<announced, settled, fatal, cur>>
    /\ UNCHANGED <<rows, slot, control, accepting, stopReq, cancelReq, attempts, frameQ,
                   ingestion, partials, curPartial, backlog, kept, begun,
                   overrun, submissions>>

\* MUTANT: a final that failed is given up in every mode.
NothingToRetry == None

FinalToRetry == IF Mode[owner] = "teach" THEN None ELSE cur

\* _retain_final_for_retry, or for Teach _retain_teach_final_error: the final is
\* kept for a later stop, or given up; the thread ends.
RetainFailedFinal ==
    /\ dpc = "failed" /\ dpc' = "exit" /\ cur' = None
    /\ fatal' = ERR
    /\ accepting' = FALSE /\ stopReq' = TRUE /\ partialReq' = None
    /\ pending' = FinalToRetry
    /\ teachErr' = (teachErr \/ Mode[owner] = "teach")
    /\ UNCHANGED <<rows, slot, control, cancelReq, attempts, frameQ, ingestion,
                   utterance, latest, curPartial, finals, parts, teachStarted, begun,
                   settled, overrun, outputs, faults>>

DecoderExit ==
    /\ dpc = "exit" /\ dpc' = "dead"
    /\ UNCHANGED <<rows, slot, control, flags, frameQ, ingestion, partials, cur,
                   curPartial, backlog, kept, perCapture, outputs, faults>>

-----------------------------------------------------------------------------
(* The process dies and a new one starts: threads, memory and device are     *)
(* gone, and the new process reconciles the rows of every project. A         *)
(* Workspace capture's context lived in memory.                              *)

Crash ==
    /\ Fault("crash")
    /\ status' = [s \in Sessions |->
                    IF IsWorkspace(s) /\ status[s] = "active" THEN "ended"
                    ELSE Reconciled[s]]
    /\ owner' = None /\ mic' = "none" /\ model' = FALSE
    /\ cpc' = "idle" /\ op' = NoOp
    /\ NewCapture
    /\ UNCHANGED <<transcript, cap, outputs>>

-----------------------------------------------------------------------------
ControlRequest ==
    \/ \E s \in Sessions : StartSession(s) \/ StopIdleSession(s) \/ Start(s)
    \/ OpenProject
    \/ owner # None /\ \E r \in Requests(owner) : RequestStop(r)

ControlStep ==
    \/ StartLoadModel \/ StartOpenDevice \/ StartDevice
    \/ AbortStart \/ AbortRelease
    \/ StopDevice \/ JoinWorkers \/ FinalizeTeach \/ ReleaseCapture

Callback == AudioFrame \/ InputLost

IngestionStep ==
    \/ IngestCheck \/ IngestSilence \/ IngestSpeechStart \/ IngestSnapshotFails
    \/ IngestSpeech \/ IngestSpeechEnd \/ IngestMarker \/ IngestEmpty
    \/ IngestReadStop \/ QueueHasRoom \/ QueueNeverDrains \/ IngestFlush \/ IngestExit

DecoderStep ==
    \/ TakeFinal \/ TakePartial \/ DecoderFinishes \/ DecodePartial \/ DecodeFinal
    \/ DiscardCancelled \/ ResolveBlank \/ KeepPart \/ CommitFinal \/ EmitFinal
    \/ RetainFailedFinal \/ DecoderExit

Next == ControlRequest \/ ControlStep \/ Callback \/ IngestionStep \/ DecoderStep
            \/ Crash

Spec == Init /\ [][Next]_vars

\* The scheduler runs every thread that can run; requests and audio come when
\* they come.
Fairness == WF_vars(ControlStep) /\ WF_vars(IngestionStep) /\ WF_vars(DecoderStep)
FairSpec == Spec /\ Fairness

\* A user who asks for the stop of an owned capture until it is released.
RetriedSpec ==
    /\ FairSpec
    /\ WF_vars(owner # None
                 /\ \E q \in Requests(owner) : q.kind = "stop" /\ RequestStop(q))

-----------------------------------------------------------------------------
(* Type invariant.                                                          *)

Stamp     == [start : Nat, gen : Nat]
Utterances == [cap : Nat, start : Nat, end : Nat]

\* Switches: the flags, the request being served and the session rows.
SwitchesOK ==
    /\ status \in [Sessions -> {"new", "active", "aborted", "ended"}]
    /\ op \in [kind : {"stop", "cancel"}, end : BOOLEAN, err : BOOLEAN]
    /\ model \in BOOLEAN
    /\ accepting \in BOOLEAN /\ stopReq \in BOOLEAN /\ cancelReq \in BOOLEAN
    /\ sentinel \in BOOLEAN
    /\ teachStarted \in BOOLEAN /\ teachErr \in BOOLEAN
    /\ overrun \in BOOLEAN

\* What the threads are at, and what they hold.
ThreadsOK ==
    /\ owner \in Sessions \cup {None} /\ cap \in Nat
    /\ mic \in {"none", "open", "capturing"}
    /\ cpc \in {"idle", "load", "open", "begin", "abort", "abortJoin",
                "stopDevice", "join", "finalize", "release"}
    /\ fatal \in {None, BP, ERR} /\ attempts \in 0..2
    /\ frames \in 0..FrameBound
    /\ ipc \in {"off", "check", "get", "empty", "wait", "waitLast", "drained",
                "exit", "dead"}
    /\ clock \in Nat /\ speech \in Nat \cup {None} /\ seg \in Final \cup {None}
    /\ utterance \in Open \cup {None}
    /\ partialReq \in Stamp \cup {None} /\ latest \in Stamp \cup {None}
    /\ dpc \in {"off", "next", "partial", "final", "text", "blank", "emit",
                "failed", "exit", "dead"}
    /\ cur \in Final \cup {None} /\ curPartial \in Stamp \cup {None}
    /\ faults \in Nat

\* What they queue, keep and publish.
ResultsOK ==
    /\ transcript \in [Sessions -> Seq(Utterances)]
    /\ finals \in Seq(Final) /\ pending \in Final \cup {None}
    /\ parts \in Seq(Nat)
    /\ begun \subseteq Nat /\ settled \subseteq Nat
    /\ announced \subseteq Utterances
    /\ submissions \in Seq([cap : Nat, parts : Seq(Nat)])

\* The values each variable takes; every pc is one of its thread's steps.
TypeOK == SwitchesOK /\ ThreadsOK /\ ResultsOK

-----------------------------------------------------------------------------
(* Safety.                                                                  *)

\* "Never release handles underneath a blocked decode" (service.py:587-590):
\* while a worker thread lives its capture keeps the slot, and while it decodes
\* the model stays loaded, through timeouts, failed releases and retries.
WorkersHoldResources ==
    /\ ~WorkersDead => owner # None
    /\ dpc \in {"partial", "final"} => model

\* The microphone only ever captures for the owner of the slot, and no path that
\* ends a session leaves its microphone on (run/service.py:188-196); only
\* reconciliation may have aborted the row meanwhile.
MicrophoneOwned ==
    mic = "capturing" => owner # None /\ status[owner] \in {"active", "aborted"}

Starts(seq) == {seq[i].start : i \in 1..Len(seq)}
StartOf(x)  == IF x = None THEN {} ELSE {x.start}
Held == Starts(finals) \cup StartOf(cur) \cup StartOf(pending) \cup StartOf(utterance)

\* "Bounded and lossless for finals" (INTERFACES.md:473): each utterance begun by
\* a capture is settled, or still held by the queue, a thread or the retry slot.
\* A cancel discards; Teach gives up a final it could not decode.
FinalsAccounted ==
    owner # None /\ ~cancelReq /\ ~teachErr => begun \subseteq settled \cup Held

\* The same, as long as ingestion never found the queue full and the decoder dead.
FinalsAccountedUnlessOverrun == overrun \/ FinalsAccounted

\* Finals are settled in the order they were spoken, whatever was retried.
NoOvertaking ==
    overrun \/ \A b \in begun, s \in settled : b < s => b \in settled

\* A retained final always has a recorded error, and never the one that keeps a
\* later stop from decoding it again (service.py:527-535).
RetryNeverBlocked == pending # None => fatal \notin {None, BP}

\* At most the retried final exceeds the bound of the final queue.
FinalQueueBounded == Len(finals) <= FinalBound + 1

\* The partial offered to Live Assist belongs to the utterance still being spoken:
\* a decode that returns late, after its final was queued, publishes nothing.
LatestPartialOpen ==
    latest # None =>
        utterance # None /\ utterance.start = latest.start /\ ~utterance.finalizing

\* After a cancel no text of the capture is kept, even text the decoder was
\* producing when the cancel came (service.py:511-520, 1163-1165).
CancelDiscards == cancelReq => parts = <<>>

\* One Teach capture is submitted at most once, over retried stops and failed
\* releases (INTERFACES.md:302-304).
TeachSubmitsOnce ==
    \A i, j \in 1..Len(submissions) :
        submissions[i].cap = submissions[j].cap => i = j

\* asr.final is emitted only after the durable commit, and the transcript keeps
\* the utterance across retries and a crash (INTERFACES.md:686).
AnnouncedIsDurable == \A u \in announced : \E s \in Sessions : Committed(s, u)

-----------------------------------------------------------------------------
(* Liveness.                                                                *)

\* A stop returns without its join timing out: both workers always end once
\* asked, also from a full final queue and after a failed decode.
StopReturns == cpc = "join" ~> cpc = "idle"

\* "A later stop retries the retained final" (INTERFACES.md:468-470): a user who
\* keeps asking gets the capture of an active session released after a passing
\* failure.
RetriedStopReleases ==
    (stopReq /\ owner # None) ~> (owner = None \/ status[owner] = "aborted")
=============================================================================
