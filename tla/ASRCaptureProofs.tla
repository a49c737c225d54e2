-------------------------- MODULE ASRCaptureProofs --------------------------
(* ASRCapture for every set of sessions, every bound and every choice of    *)
(* faults: its type correctness, its safety invariants, each a conjunct of  *)
(* a stronger one that every action preserves, and the order and the        *)
(* completeness of the finals.                                              *)
EXTENDS ASRCapture, TLAPS

\* What a worker thread holds while it is at a step that uses it.
HandsFull ==
    /\ WaitingForRoom => seg \in Final
    /\ dpc \in {"final", "text", "blank", "emit", "failed"} => cur \in Final

TypeInv == TypeOK /\ HandsFull

-----------------------------------------------------------------------------
(* Inductive strengthenings.                                                *)

Starting  == {"load", "open", "begin", "abort", "abortJoin"}
Releasing == {"finalize", "release"}
Finishing == {"stopDevice", "join"} \cup Releasing

\* The control thread is in a handler only for the owner of the slot, and a
\* capture whose device has not started has heard nothing.
ControlInv ==
    /\ cpc # "idle" \/ mic = "capturing" => owner # None
    /\ cpc \in Starting =>
          /\ mic # "capturing" /\ frames = 0 /\ speech = None
          /\ finals = <<>> /\ pending = None /\ partialReq = None
          /\ utterance = None /\ ~WaitingForRoom
          /\ dpc \in {"off", "next", "exit", "dead"}
    /\ cpc \in {"load", "open"} => ipc = "off" /\ dpc = "off"
    /\ cpc \in Finishing /\ op.kind = "cancel" => cancelReq
    /\ cpc \in Releasing => WorkersDead /\ (op.kind = "cancel" \/ pending = None)

\* The model is loaded wherever a worker may use it: a decoder restarted after
\* the model was released is one that was cancelled.
ModelInv ==
    /\ cpc = "open" => model
    /\ IngestionAlive => model
    /\ ~model /\ DecoderAlive => cancelReq /\ dpc \in {"next", "exit"}
    /\ ~model => cancelReq \/ pending = None

ResourceInv == WorkersHoldResources /\ ControlInv /\ ModelInv

\* The session of a capture that starts is active until the device runs.
StartingInv == cpc \in {"load", "open", "begin"} => status[owner] = "active"

MicrophoneInv == MicrophoneOwned /\ StartingInv

\* A final is retained only by a capture that no longer accepts audio, when its
\* decoder has nothing more to clear the error with.
RetryInv ==
    /\ RetryNeverBlocked
    /\ pending # None => ~accepting /\ dpc \in {"off", "exit", "dead"}

\* One final above the bound only just after it was put back.
QueueInv ==
    /\ FinalQueueBounded
    /\ Len(finals) > FinalBound => dpc = "next"

\* An utterance is open exactly while the segmenter is inside speech.
PartialInv ==
    /\ LatestPartialOpen
    /\ WaitingForRoom => utterance = None \/ utterance.finalizing
    /\ ipc \in {"check", "get", "empty", "drained"} /\ speech = None
         => utterance = None
    /\ ipc \in {"get", "empty", "drained"} /\ cancelReq => utterance = None

\* The submissions of earlier captures, and at most one of this capture.
SubmissionInv ==
    /\ TeachSubmitsOnce
    /\ \A i \in 1..Len(submissions) : submissions[i].cap <= cap
    /\ owner # None /\ (~teachStarted \/ cpc = "finalize") =>
          \A i \in 1..Len(submissions) : submissions[i].cap # cap
    /\ cpc = "finalize" => teachStarted

\* The final about to be announced is committed.
DurableInv ==
    /\ AnnouncedIsDurable
    /\ dpc = "emit" => Committed(owner, Utterance(cur))

\* The finals of a queue are in the order in which they were spoken.
InOrder(q) == \A i, j \in 1..Len(q) : i < j => q[i].start < q[j].start

\* From the decoder's hand through the queue to the utterance that is spoken.
InLine ==
    /\ InOrder(finals)
    /\ \A x \in StartOf(cur) \cup StartOf(pending) :
          \A y \in Starts(finals) \cup StartOf(utterance) : x < y
    /\ \A x \in Starts(finals), y \in StartOf(utterance) : x < y
    /\ \A x \in Held : x < clock
    /\ WaitingForRoom => StartOf(utterance) = {seg.start}
    /\ ~teachErr => begun \subseteq settled \cup Held

\* The decoder holds a final only while it works on it, and works on none after a
\* final of Teach was given up.
HandInv ==
    /\ dpc \in {"off", "next", "partial", "exit", "dead"} => cur = None
    /\ teachErr => /\ dpc \in {"off", "exit", "dead"} /\ cpc \notin {"load", "open"}
                   /\ owner # None => Mode[owner] = "teach"
    /\ cpc = "finalize" => Mode[owner] = "teach"

\* Until an overrun everything spoken before a settled final is settled, and so is
\* what was spoken before the one in hand; what a capture that is not cancelled
\* holds is in line.
OrderInv ==
    ~overrun =>
        /\ \A x \in begun \cup settled \cup StartOf(cur) : x < clock
        /\ \A x \in StartOf(cur), b \in begun : b < x => b \in settled
        /\ \A b \in begun, x \in settled : b < x => b \in settled
        /\ ~cancelReq => InLine

\* The groups of variables an UNCHANGED names are always expanded.
USE DEF vars, rows, slot, control, flags, frameQ, ingestion, partials, decoder,
        backlog, kept, perCapture, outputs

-----------------------------------------------------------------------------
(* Sequences: what Append, Head, Tail and putting back in front return; the  *)
(* queues of the capture and the transcript are handled with these only.    *)

\* The empty queue is a queue of anything.
LEMMA EmptySeq == ASSUME NEW S PROVE <<>> \in Seq(S)
OBVIOUS

\* Taking the head of a queue.
LEMMA TakeHead ==
    ASSUME NEW S, NEW q \in Seq(S), q # <<>>
    PROVE  Head(q) \in S /\ Tail(q) \in Seq(S)
OBVIOUS

\* Queueing at the end, and putting back in front.
LEMMA PutIn ==
    ASSUME NEW S, NEW q \in Seq(S), NEW e \in S
    PROVE  Append(q, e) \in Seq(S) /\ <<e>> \o q \in Seq(S)
OBVIOUS

\* What is found in a sequence after an Append.
LEMMA AppendIs ==
    ASSUME NEW S, NEW q \in Seq(S), NEW e \in S
    PROVE  /\ Len(Append(q, e)) = Len(q) + 1
           /\ Append(q, e)[Len(q) + 1] = e
           /\ \A i \in 1..Len(q) : Append(q, e)[i] = q[i]
OBVIOUS

-----------------------------------------------------------------------------
\* Every request a lifecycle makes of its capture is a request.
LEMMA RequestType ==
    ASSUME NEW s, NEW r \in Requests(s)
    PROVE  r \in [kind : {"stop", "cancel"}, end : BOOLEAN, err : BOOLEAN]
<1>1. r \in [kind : {"stop", "cancel"}, end : BOOLEAN, err : {FALSE}]
  BY Zenon DEF Requests
<1>2. {FALSE} \subseteq BOOLEAN
  BY Zenon
<1> QED
  BY <1>1, <1>2

\* The initial state is well typed.
LEMMA TypeInit == Init => TypeInv
<1> SUFFICES ASSUME Init PROVE TypeInv
  OBVIOUS
<1> USE CaptureAssumption DEF Init
<1>1. SwitchesOK
  BY Zenon DEF SwitchesOK, NoOp
<1>2. ThreadsOK
  BY DEF ThreadsOK, BP, ERR
<1>3. ResultsOK
  BY EmptySeq DEF ResultsOK
<1>4. HandsFull
  BY DEF HandsFull, WaitingForRoom
<1> QED
  BY <1>1, <1>2, <1>3, <1>4 DEF TypeInv, TypeOK

\* An utterance whose final waits for room is still an open utterance.
LEMMA Finalizing ==
    ASSUME NEW u \in Open
    PROVE  [u EXCEPT !.finalizing = TRUE, !.gen = @ + 1] \in Open
<1>1. u.gen + 1 \in Nat
  BY DEF Open
<1> QED
  BY <1>1, Zenon DEF Open

-----------------------------------------------------------------------------
(* One lemma per part of the invariant, one step per action.                 *)

\* Flags, requests and session rows keep their types.
LEMMA SwitchesStep ==
    SwitchesOK /\ [Next]_vars => SwitchesOK'
<1> SUFFICES ASSUME SwitchesOK, [Next]_vars PROVE SwitchesOK'
  OBVIOUS
<1> USE Zenon DEF SwitchesOK, NoOp
<1>1. CASE UNCHANGED vars
  BY <1>1
<1>2. ASSUME NEW s \in Sessions, StartSession(s) PROVE SwitchesOK'
  BY <1>2 DEF StartSession
<1>3. ASSUME NEW s \in Sessions, StopIdleSession(s) PROVE SwitchesOK'
  BY <1>3 DEF StopIdleSession
<1>4. CASE OpenProject
  BY <1>4 DEF OpenProject, Reconciled
<1>5. ASSUME NEW s \in Sessions, Start(s) PROVE SwitchesOK'
  BY <1>5 DEF Start, NewCapture, FreshFlags, FreshWorkers, FreshKept,
       FreshHistory
<1>6. ASSUME NEW r \in Requests(owner), RequestStop(r) PROVE SwitchesOK'
  <2>1. r \in [kind : {"stop", "cancel"}, end : BOOLEAN, err : BOOLEAN]
    BY RequestType
  <2>2. CASE r.kind = "cancel"
    BY <1>6, <2>1, <2>2, Zenon DEF RequestStop
  <2>3. CASE r.kind # "cancel"
    BY <1>6, <2>1, <2>3, Zenon DEF RequestStop
  <2> QED
    BY <2>2, <2>3
<1>7. CASE StartLoadModel
  BY <1>7 DEF StartLoadModel, Fault
<1>8. CASE StartOpenDevice
  BY <1>8 DEF StartOpenDevice, Fault
<1>9. CASE StartDevice
  BY <1>9 DEF StartDevice, Fault
<1>10. CASE AbortStart
  BY <1>10 DEF AbortStart
<1>11. CASE AbortRelease
  <2>1. model' \in BOOLEAN
    BY <1>11, Zenon DEF AbortRelease
  <2>2. status' \in [Sessions -> {"new", "active", "aborted", "ended"}]
    BY <1>11, Zenon DEF AbortRelease
  <2> QED
    BY <1>11, <2>1, <2>2, Zenon DEF AbortRelease
<1>12. CASE StopDevice
  BY <1>12 DEF StopDevice, Fault
<1>13. CASE JoinWorkers
  BY <1>13 DEF JoinWorkers, Fault, CleanupFails, UnresolvedFinal,
       CanFinalizeTeach
<1>14. CASE FinalizeTeach
  <2>1. teachErr' \in BOOLEAN
    BY <1>14, Zenon DEF FinalizeTeach
  <2> QED
    BY <1>14, <2>1, Zenon DEF FinalizeTeach
<1>15. CASE ReleaseCapture
  BY <1>15 DEF ReleaseCapture, StopRaises, Fault
<1>16. CASE AudioFrame
  BY <1>16 DEF AudioFrame
<1>17. CASE InputLost
  BY <1>17 DEF InputLost, Fault
<1>18. CASE IngestCheck
  BY <1>18 DEF IngestCheck
<1>19. CASE IngestSilence
  BY <1>19 DEF IngestSilence, TakeFrame
<1>20. CASE IngestSpeechStart
  BY <1>20 DEF IngestSpeechStart, TakeFrame
<1>21. CASE IngestSnapshotFails
  BY <1>21 DEF IngestSnapshotFails, TakeFrame, Fault
<1>22. CASE IngestSpeech
  BY <1>22 DEF IngestSpeech, TakeFrame, RequestPartial
<1>23. CASE IngestSpeechEnd
  BY <1>23 DEF IngestSpeechEnd, TakeFrame, EnqueueFinal, RoomForFinal
<1>24. CASE IngestMarker
  BY <1>24 DEF IngestMarker
<1>25. CASE IngestEmpty
  BY <1>25 DEF IngestEmpty
<1>26. CASE IngestReadStop
  BY <1>26 DEF IngestReadStop
<1>27. CASE QueueHasRoom
  BY <1>27 DEF QueueHasRoom, WaitingForRoom, RoomForFinal
<1>28. CASE QueueNeverDrains
  BY <1>28 DEF QueueNeverDrains, WaitingForRoom, RoomForFinal
<1>29. CASE IngestFlush
  BY <1>29 DEF IngestFlush, EnqueueFinal, RoomForFinal
<1>30. CASE IngestExit
  BY <1>30 DEF IngestExit
<1>31. CASE TakeFinal
  BY <1>31 DEF TakeFinal
<1>32. CASE TakePartial
  BY <1>32 DEF TakePartial
<1>33. CASE DecoderFinishes
  BY <1>33 DEF DecoderFinishes, NothingToDecode
<1>34. CASE DecodePartial
  BY <1>34 DEF DecodePartial, PartialIsCurrent
<1>35. CASE DecodeFinal
  BY <1>35 DEF DecodeFinal, Fault
<1>36. CASE DiscardCancelled
  BY <1>36 DEF DiscardCancelled, StillWanted
<1>37. CASE ResolveBlank
  BY <1>37 DEF ResolveBlank, ClearedError, StillWanted
<1>38. CASE KeepPart
  BY <1>38 DEF KeepPart, ClearedError, StillWanted
<1>39. CASE CommitFinal
  BY <1>39 DEF CommitFinal, StillWanted, Utterance, Fault
<1>40. CASE EmitFinal
  BY <1>40 DEF EmitFinal, ClearedError, Utterance, Fault
<1>41. CASE RetainFailedFinal
  BY <1>41 DEF RetainFailedFinal, FinalToRetry
<1>42. CASE DecoderExit
  BY <1>42 DEF DecoderExit
<1>43. CASE Crash
  BY <1>43 DEF Crash, Reconciled, Fault, NewCapture, FreshFlags, FreshWorkers,
       FreshKept, FreshHistory
<1> QED
  BY <1>1, <1>2, <1>3, <1>4, <1>5, <1>6, <1>7, <1>8, <1>9, <1>10, <1>11, <1>12,
     <1>13, <1>14, <1>15, <1>16, <1>17, <1>18, <1>19, <1>20, <1>21, <1>22,
     <1>23, <1>24, <1>25, <1>26, <1>27, <1>28, <1>29, <1>30, <1>31, <1>32,
     <1>33, <1>34, <1>35, <1>36, <1>37, <1>38, <1>39, <1>40, <1>41, <1>42,
     <1>43
    DEF Next, ControlRequest, ControlStep, Callback, IngestionStep, DecoderStep

\* The threads stay at their steps, with what they hold in their hands.
LEMMA ThreadsStep ==
    TypeInv /\ [Next]_vars => ThreadsOK'
<1> SUFFICES ASSUME TypeInv, [Next]_vars PROVE ThreadsOK'
  OBVIOUS
<1> USE CaptureAssumption DEF TypeInv, TypeOK, ThreadsOK,
                              WaitingForRoom, BP, ERR
<1>1. CASE UNCHANGED vars
  BY <1>1
<1>2. ASSUME NEW s \in Sessions, StartSession(s) PROVE ThreadsOK'
  BY <1>2 DEF StartSession
<1>3. ASSUME NEW s \in Sessions, StopIdleSession(s) PROVE ThreadsOK'
  BY <1>3 DEF StopIdleSession
<1>4. CASE OpenProject
  BY <1>4 DEF OpenProject, Reconciled
<1>5. ASSUME NEW s \in Sessions, Start(s) PROVE ThreadsOK'
  BY <1>5 DEF Start, NewCapture, FreshFlags, FreshWorkers, FreshKept,
       FreshHistory
<1>6. ASSUME NEW r \in Requests(owner), RequestStop(r) PROVE ThreadsOK'
  BY <1>6 DEF RequestStop
<1>7. CASE StartLoadModel
  BY <1>7 DEF StartLoadModel, Fault
<1>8. CASE StartOpenDevice
  BY <1>8 DEF StartOpenDevice, Fault
<1>9. CASE StartDevice
  BY <1>9 DEF StartDevice, Fault
<1>10. CASE AbortStart
  BY <1>10 DEF AbortStart
<1>11. CASE AbortRelease
  BY <1>11 DEF AbortRelease, Fault
<1>12. CASE StopDevice
  BY <1>12 DEF StopDevice, Fault
<1>13. CASE JoinWorkers
  BY <1>13 DEF JoinWorkers, Fault, CleanupFails, UnresolvedFinal,
       CanFinalizeTeach
<1>14. CASE FinalizeTeach
  BY <1>14 DEF FinalizeTeach, Fault
<1>15. CASE ReleaseCapture
  <2>1. owner' \in {owner, None} /\ faults' \in Nat
    <3>1. faults' = faults \/ Fault("device")
      BY <1>15 DEF ReleaseCapture
    <3>2. owner' = None \/ owner' = owner
      BY <1>15 DEF ReleaseCapture
    <3> QED
      BY <3>1, <3>2 DEF Fault
  <2>2. /\ mic' = "none" /\ cpc' = "idle"
        /\ UNCHANGED <<cap, fatal, attempts, frames, ingestion, partials, decoder>>
    BY <1>15 DEF ReleaseCapture
  <2> QED
    BY <2>1, <2>2
<1>16. CASE AudioFrame
  BY <1>16 DEF AudioFrame
<1>17. CASE InputLost
  BY <1>17 DEF InputLost, Fault
<1>18. CASE IngestCheck
  BY <1>18 DEF IngestCheck
<1>19. CASE IngestSilence
  BY <1>19 DEF IngestSilence, TakeFrame
<1>20. CASE IngestSpeechStart
  BY <1>20 DEF IngestSpeechStart, TakeFrame, Open
<1>21. CASE IngestSnapshotFails
  BY <1>21 DEF IngestSnapshotFails, TakeFrame, Fault
<1>22. CASE IngestSpeech
  <2>1. frames' \in 0..FrameBound /\ clock' \in Nat
    BY <1>22 DEF IngestSpeech, TakeFrame
  <2>2. utterance' \in Open \cup {None}
    BY <1>22 DEF IngestSpeech, RequestPartial, Open
  <2>3. partialReq' \in Stamp \cup {None}
    BY <1>22 DEF IngestSpeech, RequestPartial, Stamp, Open
  <2> QED
    BY <1>22, <2>1, <2>2, <2>3 DEF IngestSpeech
<1>23. CASE IngestSpeechEnd
  <2>1. clock' \in Nat /\ frames' \in 0..FrameBound
    BY <1>23 DEF IngestSpeechEnd, TakeFrame
  <2>2. CASE utterance = None \/ cancelReq
    BY <1>23, <2>1, <2>2 DEF IngestSpeechEnd, EnqueueFinal
  <2>3. CASE ~(utterance = None \/ cancelReq)
    <3> DEFINE final == [start |-> utterance.start, end |-> clock']
    <3>1. utterance \in Open /\ final \in Final
      BY <2>1, <2>3 DEF Final, Open
    <3>2. utterance' \in Open \cup {None}
      BY <1>23, <2>3, <3>1, Finalizing DEF IngestSpeechEnd, EnqueueFinal
    <3>3. seg' \in Final \cup {None}
      BY <1>23, <2>3, <3>1 DEF IngestSpeechEnd, EnqueueFinal
    <3> QED
      BY <1>23, <2>1, <2>3, <3>2, <3>3 DEF IngestSpeechEnd, EnqueueFinal
  <2> QED
    BY <2>2, <2>3
<1>24. CASE IngestMarker
  BY <1>24 DEF IngestMarker
<1>25. CASE IngestEmpty
  BY <1>25 DEF IngestEmpty
<1>26. CASE IngestReadStop
  BY <1>26 DEF IngestReadStop
<1>27. CASE QueueHasRoom
  BY <1>27 DEF QueueHasRoom, WaitingForRoom, RoomForFinal
<1>28. CASE QueueNeverDrains
  BY <1>28 DEF QueueNeverDrains, WaitingForRoom, RoomForFinal
<1>29. CASE IngestFlush
  <2>1. CASE fatal # None \/ cancelReq \/ speech = None \/ utterance = None
    BY <1>29, <2>1 DEF IngestFlush, EnqueueFinal
  <2>2. CASE ~(fatal # None \/ cancelReq \/ speech = None \/ utterance = None)
    <3> DEFINE endMs == IF clock > speech THEN clock ELSE speech + 1
               final == [start |-> utterance.start, end |-> endMs]
    <3>1. endMs \in Nat
      BY <2>2
    <3>2. utterance \in Open /\ final \in Final
      BY <2>2, <3>1 DEF Final, Open
    <3>3. utterance' \in Open \cup {None}
      BY <1>29, <2>2, <3>2, Finalizing DEF IngestFlush, EnqueueFinal
    <3>4. seg' \in Final \cup {None}
      BY <1>29, <2>2, <3>2 DEF IngestFlush, EnqueueFinal
    <3> HIDE DEF endMs
    <3> QED
      BY <1>29, <2>2, <3>3, <3>4 DEF IngestFlush, EnqueueFinal
  <2> QED
    BY <2>1, <2>2
<1>30. CASE IngestExit
  BY <1>30 DEF IngestExit
<1>31. CASE TakeFinal
  BY <1>31, TakeHead DEF TakeFinal, ResultsOK
<1>32. CASE TakePartial
  BY <1>32 DEF TakePartial
<1>33. CASE DecoderFinishes
  BY <1>33 DEF DecoderFinishes, NothingToDecode
<1>34. CASE DecodePartial
  BY <1>34 DEF DecodePartial, PartialIsCurrent
<1>35. CASE DecodeFinal
  BY <1>35 DEF DecodeFinal, Fault
<1>36. CASE DiscardCancelled
  BY <1>36 DEF DiscardCancelled, StillWanted
<1>37. CASE ResolveBlank
  BY <1>37 DEF ResolveBlank, ClearedError, StillWanted
<1>38. CASE KeepPart
  BY <1>38 DEF KeepPart, ClearedError, StillWanted
<1>39. CASE CommitFinal
  BY <1>39 DEF CommitFinal, StillWanted, Utterance, Fault
<1>40. CASE EmitFinal
  BY <1>40 DEF EmitFinal, ClearedError, Utterance, Fault
<1>41. CASE RetainFailedFinal
  BY <1>41 DEF RetainFailedFinal, FinalToRetry
<1>42. CASE DecoderExit
  BY <1>42 DEF DecoderExit
<1>43. CASE Crash
  BY <1>43 DEF Crash, Reconciled, Fault, NewCapture, FreshFlags, FreshWorkers,
       FreshKept, FreshHistory
<1> QED
  BY <1>1, <1>2, <1>3, <1>4, <1>5, <1>6, <1>7, <1>8, <1>9, <1>10, <1>11, <1>12,
     <1>13, <1>14, <1>15, <1>16, <1>17, <1>18, <1>19, <1>20, <1>21, <1>22,
     <1>23, <1>24, <1>25, <1>26, <1>27, <1>28, <1>29, <1>30, <1>31, <1>32,
     <1>33, <1>34, <1>35, <1>36, <1>37, <1>38, <1>39, <1>40, <1>41, <1>42,
     <1>43
    DEF Next, ControlRequest, ControlStep, Callback, IngestionStep, DecoderStep

\* Queues, transcripts and submissions keep their types.
LEMMA ResultsStep ==
    TypeInv /\ [Next]_vars => ResultsOK'
<1> SUFFICES ASSUME TypeInv, [Next]_vars PROVE ResultsOK'
  OBVIOUS
<1> USE CaptureAssumption DEF TypeInv, TypeOK, ResultsOK
<1>1. CASE UNCHANGED vars
  BY <1>1
<1>2. ASSUME NEW s \in Sessions, StartSession(s) PROVE ResultsOK'
  BY <1>2 DEF StartSession
<1>3. ASSUME NEW s \in Sessions, StopIdleSession(s) PROVE ResultsOK'
  BY <1>3 DEF StopIdleSession
<1>4. CASE OpenProject
  BY <1>4 DEF OpenProject, Reconciled
<1>5. ASSUME NEW s \in Sessions, Start(s) PROVE ResultsOK'
  BY <1>5, EmptySeq DEF Start, NewCapture, FreshFlags, FreshWorkers, FreshKept,
       FreshHistory
<1>6. ASSUME NEW r \in Requests(owner), RequestStop(r) PROVE ResultsOK'
  <2>0. <<>> \in Seq(Final) /\ <<>> \in Seq(Nat)
    BY EmptySeq
  <2>1. finals' \in Seq(Final) /\ pending' \in Final \cup {None}
    <3>1. CASE finals' = finals \/ finals' = <<>>
      <4>1. pending' \in {pending, None}
        BY <1>6 DEF RequestStop
      <4> QED
        BY <2>0, <3>1, <4>1
    <3>2. CASE finals' = Requeued /\ RetriesFinal(attempts')
      BY <1>6, <3>2, PutIn DEF RequestStop, RetriesFinal, Requeued
    <3> QED
      BY <1>6, <3>1, <3>2 DEF RequestStop
  <2>2. parts' \in Seq(Nat)
    <3>1. parts' \in {parts, <<>>}
      BY <1>6 DEF RequestStop
    <3> QED
      BY <2>0, <3>1
  <2> QED
    BY <1>6, <2>1, <2>2 DEF RequestStop
<1>7. CASE StartLoadModel
  BY <1>7 DEF StartLoadModel, Fault
<1>8. CASE StartOpenDevice
  BY <1>8 DEF StartOpenDevice, Fault
<1>9. CASE StartDevice
  BY <1>9 DEF StartDevice, Fault
<1>10. CASE AbortStart
  BY <1>10 DEF AbortStart
<1>11. CASE AbortRelease
  BY <1>11 DEF AbortRelease, Fault
<1>12. CASE StopDevice
  BY <1>12 DEF StopDevice, Fault
<1>13. CASE JoinWorkers
  BY <1>13 DEF JoinWorkers, Fault, CleanupFails, UnresolvedFinal,
       CanFinalizeTeach
<1>14. CASE FinalizeTeach
  <2> DEFINE Submission == [cap : Nat, parts : Seq(Nat)]
             new == [cap |-> cap, parts |-> parts]
  <2>1. new \in Submission /\ submissions \in Seq(Submission)
    BY DEF ThreadsOK
  <2>2. submissions' \in {submissions, Append(submissions, new)}
    BY <1>14 DEF FinalizeTeach
  <2> HIDE DEF Submission, new
  <2>3. submissions' \in Seq(Submission)
    <3>1. Append(submissions, new) \in Seq(Submission)
      BY <2>1, PutIn
    <3> QED
      BY <2>1, <2>2, <3>1
  <2> QED
    BY <1>14, <2>3 DEF FinalizeTeach, Submission
<1>15. CASE ReleaseCapture
  BY <1>15 DEF ReleaseCapture, StopRaises, Fault
<1>16. CASE AudioFrame
  BY <1>16 DEF AudioFrame
<1>17. CASE InputLost
  BY <1>17 DEF InputLost, Fault
<1>18. CASE IngestCheck
  BY <1>18 DEF IngestCheck
<1>19. CASE IngestSilence
  BY <1>19 DEF IngestSilence, TakeFrame
<1>20. CASE IngestSpeechStart
  BY <1>20 DEF IngestSpeechStart, TakeFrame, ThreadsOK
<1>21. CASE IngestSnapshotFails
  BY <1>21 DEF IngestSnapshotFails, TakeFrame, Fault
<1>22. CASE IngestSpeech
  BY <1>22 DEF IngestSpeech, TakeFrame, RequestPartial
<1>23. CASE IngestSpeechEnd
  <2>1. CASE utterance = None \/ cancelReq
    BY <1>23, <2>1 DEF IngestSpeechEnd, EnqueueFinal
  <2>2. CASE ~(utterance = None \/ cancelReq)
    <3> DEFINE final == [start |-> utterance.start, end |-> clock']
    <3>1. final \in Final
      BY <1>23, <2>2 DEF IngestSpeechEnd, TakeFrame, ThreadsOK, Final, Open
    <3>2. finals' \in {finals, Append(finals, final)}
      BY <1>23, <2>2 DEF IngestSpeechEnd, EnqueueFinal
    <3> HIDE DEF final
    <3>3. Append(finals, final) \in Seq(Final)
      BY <3>1, PutIn
    <3>4. finals' \in Seq(Final)
      BY <3>2, <3>3
    <3> QED
      BY <1>23, <3>4 DEF IngestSpeechEnd
  <2> QED
    BY <2>1, <2>2
<1>24. CASE IngestMarker
  BY <1>24 DEF IngestMarker
<1>25. CASE IngestEmpty
  BY <1>25 DEF IngestEmpty
<1>26. CASE IngestReadStop
  BY <1>26 DEF IngestReadStop
<1>27. CASE QueueHasRoom
  BY <1>27, PutIn DEF QueueHasRoom, HandsFull
<1>28. CASE QueueNeverDrains
  BY <1>28 DEF QueueNeverDrains, HandsFull, WaitingForRoom
<1>29. CASE IngestFlush
  <2>1. CASE fatal # None \/ cancelReq \/ speech = None \/ utterance = None
    BY <1>29, <2>1 DEF IngestFlush, EnqueueFinal
  <2>2. CASE ~(fatal # None \/ cancelReq \/ speech = None \/ utterance = None)
    <3> DEFINE endMs == IF clock > speech THEN clock ELSE speech + 1
               final == [start |-> utterance.start, end |-> endMs]
    <3>1. final \in Final
      BY <2>2 DEF ThreadsOK, Final, Open
    <3>2. finals' \in {finals, Append(finals, final)}
      BY <1>29, <2>2 DEF IngestFlush, EnqueueFinal
    <3> HIDE DEF final
    <3>3. Append(finals, final) \in Seq(Final)
      BY <3>1, PutIn
    <3>4. finals' \in Seq(Final)
      BY <3>2, <3>3
    <3> QED
      BY <1>29, <3>4 DEF IngestFlush
  <2> QED
    BY <2>1, <2>2
<1>30. CASE IngestExit
  BY <1>30 DEF IngestExit
<1>31. CASE TakeFinal
  BY <1>31, TakeHead DEF TakeFinal
<1>32. CASE TakePartial
  BY <1>32 DEF TakePartial
<1>33. CASE DecoderFinishes
  BY <1>33, EmptySeq DEF DecoderFinishes, NothingToDecode
<1>34. CASE DecodePartial
  BY <1>34 DEF DecodePartial, PartialIsCurrent
<1>35. CASE DecodeFinal
  BY <1>35 DEF DecodeFinal, Fault
<1>36. CASE DiscardCancelled
  BY <1>36 DEF DiscardCancelled, StillWanted
<1>37. CASE ResolveBlank
  BY <1>37 DEF ResolveBlank, HandsFull, Final
<1>38. CASE KeepPart
  <2>1. cur.start \in Nat
    BY <1>38 DEF KeepPart, HandsFull, Final
  <2> QED
    BY <1>38, <2>1, PutIn DEF KeepPart
<1>39. CASE CommitFinal
  <2> DEFINE u == Utterance(cur)
  <2>1. u \in Utterances
    BY <1>39 DEF CommitFinal, HandsFull, Final, Utterance, Utterances, ThreadsOK
  <2>2. \/ transcript' = transcript
        \/ transcript' = [transcript EXCEPT ![owner] = Append(@, u)]
    BY <1>39 DEF CommitFinal
  <2> HIDE DEF u
  <2>3. transcript' \in [Sessions -> Seq(Utterances)]
    <3>1. owner \in Sessions => Append(transcript[owner], u) \in Seq(Utterances)
      BY <2>1, PutIn
    <3> QED
      BY <2>2, <3>1
  <2> QED
    BY <1>39, <2>3 DEF CommitFinal
<1>40. CASE EmitFinal
  <2>1. Utterance(cur) \in Utterances /\ cur.start \in Nat
    BY <1>40 DEF EmitFinal, HandsFull, Final, Utterance, Utterances, ThreadsOK
  <2> QED
    BY <1>40, <2>1 DEF EmitFinal
<1>41. CASE RetainFailedFinal
  BY <1>41 DEF RetainFailedFinal, FinalToRetry, ThreadsOK
<1>42. CASE DecoderExit
  BY <1>42 DEF DecoderExit
<1>43. CASE Crash
  BY <1>43, EmptySeq DEF Crash, Reconciled, Fault, NewCapture, FreshFlags, FreshWorkers,
       FreshKept, FreshHistory
<1> QED
  BY <1>1, <1>2, <1>3, <1>4, <1>5, <1>6, <1>7, <1>8, <1>9, <1>10, <1>11, <1>12,
     <1>13, <1>14, <1>15, <1>16, <1>17, <1>18, <1>19, <1>20, <1>21, <1>22,
     <1>23, <1>24, <1>25, <1>26, <1>27, <1>28, <1>29, <1>30, <1>31, <1>32,
     <1>33, <1>34, <1>35, <1>36, <1>37, <1>38, <1>39, <1>40, <1>41, <1>42,
     <1>43
    DEF Next, ControlRequest, ControlStep, Callback, IngestionStep, DecoderStep

\* A thread that uses what it holds has something in its hands.
LEMMA HandsStep ==
    TypeInv /\ [Next]_vars => HandsFull'
<1> SUFFICES ASSUME TypeInv, [Next]_vars PROVE HandsFull'
  OBVIOUS
<1> USE DEF TypeInv, TypeOK, ThreadsOK, HandsFull, WaitingForRoom, Final
<1>1. CASE UNCHANGED vars
  BY <1>1
<1>2. ASSUME NEW s \in Sessions, StartSession(s) PROVE HandsFull'
  BY <1>2 DEF StartSession
<1>3. ASSUME NEW s \in Sessions, StopIdleSession(s) PROVE HandsFull'
  BY <1>3 DEF StopIdleSession
<1>4. CASE OpenProject
  BY <1>4 DEF OpenProject, Reconciled
<1>5. ASSUME NEW s \in Sessions, Start(s) PROVE HandsFull'
  BY <1>5 DEF Start, NewCapture, FreshFlags, FreshWorkers, FreshKept,
       FreshHistory
<1>6. ASSUME NEW r \in Requests(owner), RequestStop(r) PROVE HandsFull'
  BY <1>6 DEF RequestStop, RetriesFinal, Requeued, Requests
<1>7. CASE StartLoadModel
  BY <1>7 DEF StartLoadModel, Fault
<1>8. CASE StartOpenDevice
  BY <1>8 DEF StartOpenDevice, Fault
<1>9. CASE StartDevice
  BY <1>9 DEF StartDevice, Fault
<1>10. CASE AbortStart
  BY <1>10 DEF AbortStart
<1>11. CASE AbortRelease
  BY <1>11 DEF AbortRelease, Fault
<1>12. CASE StopDevice
  BY <1>12 DEF StopDevice, Fault
<1>13. CASE JoinWorkers
  BY <1>13 DEF JoinWorkers, Fault, CleanupFails, UnresolvedFinal,
       CanFinalizeTeach
<1>14. CASE FinalizeTeach
  BY <1>14 DEF FinalizeTeach, Fault
<1>15. CASE ReleaseCapture
  BY <1>15 DEF ReleaseCapture, StopRaises, Fault
<1>16. CASE AudioFrame
  BY <1>16 DEF AudioFrame
<1>17. CASE InputLost
  BY <1>17 DEF InputLost, Fault
<1>18. CASE IngestCheck
  BY <1>18 DEF IngestCheck
<1>19. CASE IngestSilence
  BY <1>19 DEF IngestSilence, TakeFrame
<1>20. CASE IngestSpeechStart
  BY <1>20 DEF IngestSpeechStart, TakeFrame
<1>21. CASE IngestSnapshotFails
  BY <1>21 DEF IngestSnapshotFails, TakeFrame, Fault
<1>22. CASE IngestSpeech
  BY <1>22 DEF IngestSpeech, TakeFrame, RequestPartial
<1>23. CASE IngestSpeechEnd
  BY <1>23 DEF IngestSpeechEnd, TakeFrame, EnqueueFinal, RoomForFinal, Open
<1>24. CASE IngestMarker
  BY <1>24 DEF IngestMarker
<1>25. CASE IngestEmpty
  BY <1>25 DEF IngestEmpty
<1>26. CASE IngestReadStop
  BY <1>26 DEF IngestReadStop
<1>27. CASE QueueHasRoom
  BY <1>27 DEF QueueHasRoom, WaitingForRoom, RoomForFinal
<1>28. CASE QueueNeverDrains
  BY <1>28 DEF QueueNeverDrains, WaitingForRoom, RoomForFinal
<1>29. CASE IngestFlush
  BY <1>29 DEF IngestFlush, EnqueueFinal, RoomForFinal, Open
<1>30. CASE IngestExit
  BY <1>30 DEF IngestExit
<1>31. CASE TakeFinal
  BY <1>31, TakeHead DEF TakeFinal, ResultsOK
<1>32. CASE TakePartial
  BY <1>32 DEF TakePartial
<1>33. CASE DecoderFinishes
  BY <1>33 DEF DecoderFinishes, NothingToDecode
<1>34. CASE DecodePartial
  BY <1>34 DEF DecodePartial, PartialIsCurrent
<1>35. CASE DecodeFinal
  BY <1>35 DEF DecodeFinal, Fault
<1>36. CASE DiscardCancelled
  BY <1>36 DEF DiscardCancelled, StillWanted
<1>37. CASE ResolveBlank
  BY <1>37 DEF ResolveBlank, ClearedError, StillWanted
<1>38. CASE KeepPart
  BY <1>38 DEF KeepPart, ClearedError, StillWanted
<1>39. CASE CommitFinal
  BY <1>39 DEF CommitFinal, StillWanted, Utterance, Fault
<1>40. CASE EmitFinal
  BY <1>40 DEF EmitFinal, ClearedError, Utterance, Fault
<1>41. CASE RetainFailedFinal
  BY <1>41 DEF RetainFailedFinal, FinalToRetry
<1>42. CASE DecoderExit
  BY <1>42 DEF DecoderExit
<1>43. CASE Crash
  BY <1>43 DEF Crash, Reconciled, Fault, NewCapture, FreshFlags, FreshWorkers,
       FreshKept, FreshHistory
<1> QED
  BY <1>1, <1>2, <1>3, <1>4, <1>5, <1>6, <1>7, <1>8, <1>9, <1>10, <1>11, <1>12,
     <1>13, <1>14, <1>15, <1>16, <1>17, <1>18, <1>19, <1>20, <1>21, <1>22,
     <1>23, <1>24, <1>25, <1>26, <1>27, <1>28, <1>29, <1>30, <1>31, <1>32,
     <1>33, <1>34, <1>35, <1>36, <1>37, <1>38, <1>39, <1>40, <1>41, <1>42,
     <1>43
    DEF Next, ControlRequest, ControlStep, Callback, IngestionStep, DecoderStep

\* Every variable keeps its type: the program counters stay in the steps of their
\* threads and no queue, slot or kept answer holds anything but utterances.
THEOREM TypeCorrect == Spec => [](TypeOK /\ HandsFull)
<1>1. TypeInv /\ [Next]_vars => TypeInv'
  BY SwitchesStep, ThreadsStep, ResultsStep, HandsStep DEF TypeInv, TypeOK
<1> QED
  BY TypeInit, <1>1, PTL DEF Spec, TypeInv

-----------------------------------------------------------------------------
(* The order of the finals.                                                 *)

\* Queueing at the end ...
LEMMA QueuedLast ==
    ASSUME NEW q \in Seq(Final), NEW e \in Final
    PROVE  /\ Starts(Append(q, e)) = Starts(q) \cup {e.start}
           /\ InOrder(q) /\ (\A x \in Starts(q) : x < e.start) => InOrder(Append(q, e))
<1> DEFINE r == Append(q, e)
<1>1. Len(r) = Len(q) + 1 /\ r[Len(q) + 1] = e /\ \A i \in 1..Len(q) : r[i] = q[i]
  BY AppendIs
<1>2. Len(q) \in Nat
  OBVIOUS
<1> HIDE DEF r
<1>3. Starts(r) = Starts(q) \cup {e.start}
  <2>1. ASSUME NEW x \in Starts(r) PROVE x \in Starts(q) \cup {e.start}
    <3>1. PICK i \in 1..Len(r) : x = r[i].start
      BY DEF Starts
    <3>2. CASE i = Len(q) + 1
      BY <3>1, <3>2, <1>1
    <3>3. CASE i \in 1..Len(q)
      BY <3>1, <3>3, <1>1 DEF Starts
    <3> QED
      BY <3>2, <3>3, <1>1, <1>2
  <2>2. ASSUME NEW i \in 1..Len(q) PROVE q[i].start \in Starts(r)
    <3>1. i \in 1..Len(r) /\ r[i] = q[i]
      BY <1>1, <1>2
    <3> QED
      BY <3>1 DEF Starts
  <2>3. e.start \in Starts(r)
    <3>1. Len(q) + 1 \in 1..Len(r)
      BY <1>1, <1>2
    <3> QED
      BY <3>1, <1>1 DEF Starts
  <2> QED
    BY <2>1, <2>2, <2>3 DEF Starts
<1>4. ASSUME InOrder(q), \A x \in Starts(q) : x < e.start,
             NEW i \in 1..Len(r), NEW j \in 1..Len(r), i < j
      PROVE  r[i].start < r[j].start
  <2>1. i \in 1..Len(q) /\ r[i] = q[i] /\ q[i].start \in Starts(q)
    BY <1>1, <1>2, <1>4 DEF Starts
  <2>2. CASE j = Len(q) + 1
    BY <2>1, <2>2, <1>1, <1>4
  <2>3. CASE j \in 1..Len(q)
    BY <2>1, <2>3, <1>1, <1>4 DEF InOrder
  <2> QED
    BY <2>2, <2>3, <1>1, <1>2
<1> QED
  BY <1>3, <1>4 DEF InOrder, r

\* ... taking the first ...
LEMMA TakenFirst ==
    ASSUME NEW q \in Seq(Final), q # <<>>
    PROVE  /\ Starts(q) = {Head(q).start} \cup Starts(Tail(q))
           /\ InOrder(q) => /\ InOrder(Tail(q))
                            /\ \A x \in Starts(Tail(q)) : Head(q).start < x
<1> DEFINE r == Tail(q)
<1>1. /\ Len(q) \in Nat \ {0} /\ Len(r) = Len(q) - 1 /\ Head(q) = q[1]
      /\ \A i \in 1..Len(r) : r[i] = q[i + 1]
  OBVIOUS
<1> HIDE DEF r
<1>2. Starts(q) = {Head(q).start} \cup Starts(r)
  <2>1. ASSUME NEW i \in 1..Len(q) PROVE q[i].start \in {Head(q).start} \cup Starts(r)
    <3>1. CASE i = 1
      BY <3>1, <1>1
    <3>2. CASE i # 1
      <4>1. i - 1 \in 1..Len(r) /\ r[i - 1] = q[i]
        BY <3>2, <1>1
      <4> QED
        BY <4>1 DEF Starts
    <3> QED
      BY <3>1, <3>2
  <2>2. ASSUME NEW i \in 1..Len(r) PROVE r[i].start \in Starts(q)
    <3>1. i + 1 \in 1..Len(q) /\ r[i] = q[i + 1]
      BY <1>1
    <3> QED
      BY <3>1 DEF Starts
  <2>3. Head(q).start \in Starts(q)
    <3>1. 1 \in 1..Len(q)
      BY <1>1
    <3> QED
      BY <3>1, <1>1 DEF Starts
  <2> QED
    BY <2>1, <2>2, <2>3 DEF Starts
<1>3. ASSUME InOrder(q) PROVE InOrder(r) /\ \A x \in Starts(r) : Head(q).start < x
  <2>1. ASSUME NEW i \in 1..Len(r), NEW j \in 1..Len(r), i < j PROVE r[i].start < r[j].start
    <3>1. i + 1 \in 1..Len(q) /\ j + 1 \in 1..Len(q) /\ i + 1 < j + 1
      BY <1>1, <2>1
    <3> QED
      BY <3>1, <1>1, <1>3 DEF InOrder
  <2>2. ASSUME NEW i \in 1..Len(r) PROVE Head(q).start < r[i].start
    <3>1. 1 \in 1..Len(q) /\ i + 1 \in 1..Len(q) /\ 1 < i + 1
      BY <1>1
    <3> QED
      BY <3>1, <1>1, <1>3 DEF InOrder
  <2> QED
    BY <2>1, <2>2 DEF InOrder, Starts
<1> QED
  BY <1>2, <1>3 DEF r

\* ... and putting back in front.
LEMMA PutBackFirst ==
    ASSUME NEW q \in Seq(Final), NEW e \in Final
    PROVE  /\ Starts(<<e>> \o q) = {e.start} \cup Starts(q)
           /\ InOrder(q) /\ (\A x \in Starts(q) : e.start < x) => InOrder(<<e>> \o q)
<1> DEFINE r == <<e>> \o q
<1>1. /\ Len(q) \in Nat /\ Len(r) = Len(q) + 1 /\ r[1] = e
      /\ \A i \in 1..Len(q) : r[i + 1] = q[i]
  OBVIOUS
<1> HIDE DEF r
<1>2. ASSUME NEW i \in 1..Len(r), i # 1 PROVE i - 1 \in 1..Len(q) /\ r[i] = q[i - 1]
  <2>1. i - 1 \in 1..Len(q)
    BY <1>1, <1>2
  <2>2. r[(i - 1) + 1] = q[i - 1]
    BY <2>1, <1>1
  <2> QED
    BY <2>1, <2>2, <1>1
<1>3. Starts(r) = {e.start} \cup Starts(q)
  <2>1. ASSUME NEW i \in 1..Len(r) PROVE r[i].start \in {e.start} \cup Starts(q)
    <3>1. CASE i = 1
      BY <3>1, <1>1
    <3>2. CASE i # 1
      BY <3>2, <1>2 DEF Starts
    <3> QED
      BY <3>1, <3>2
  <2>2. ASSUME NEW i \in 1..Len(q) PROVE q[i].start \in Starts(r)
    <3>1. i + 1 \in 1..Len(r) /\ r[i + 1] = q[i]
      BY <1>1
    <3> QED
      BY <3>1 DEF Starts
  <2>3. e.start \in Starts(r)
    <3>1. 1 \in 1..Len(r)
      BY <1>1
    <3> QED
      BY <3>1, <1>1 DEF Starts
  <2> QED
    BY <2>1, <2>2, <2>3 DEF Starts
<1>4. ASSUME InOrder(q), \A x \in Starts(q) : e.start < x,
             NEW i \in 1..Len(r), NEW j \in 1..Len(r), i < j
      PROVE  r[i].start < r[j].start
  <2>1. j # 1
    BY <1>4, <1>1
  <2>2. j - 1 \in 1..Len(q) /\ r[j] = q[j - 1]
    BY <2>1, <1>2
  <2>3. CASE i = 1
    BY <2>2, <2>3, <1>1, <1>4 DEF Starts
  <2>4. CASE i # 1
    <3>1. i - 1 \in 1..Len(q) /\ r[i] = q[i - 1]
      BY <2>4, <1>2
    <3>2. i - 1 < j - 1
      BY <1>4, <1>1
    <3> QED
      BY <3>1, <3>2, <2>2, <1>4 DEF InOrder
  <2> QED
    BY <2>3, <2>4
<1> QED
  BY <1>3, <1>4 DEF InOrder, r

\* An empty queue.
LEMMA NothingQueued == Starts(<<>>) = {} /\ InOrder(<<>>)
BY DEF Starts, InOrder

-----------------------------------------------------------------------------
(* The initial state, and one lemma per invariant with one step per action, *)
(* or per thread where none of the thread's actions touches it.             *)

\* Nothing is running, held or published at first.
LEMMA InvInit ==
    Init => /\ ResourceInv /\ MicrophoneInv /\ CancelDiscards /\ RetryInv
            /\ QueueInv /\ PartialInv /\ SubmissionInv /\ DurableInv
            /\ HandInv /\ OrderInv
<1> SUFFICES ASSUME Init
             PROVE  /\ ResourceInv /\ MicrophoneInv /\ CancelDiscards /\ RetryInv
                    /\ QueueInv /\ PartialInv /\ SubmissionInv /\ DurableInv
                    /\ HandInv /\ OrderInv
  OBVIOUS
<1> USE CaptureAssumption DEF Init
<1>1. ResourceInv
  BY DEF ResourceInv, WorkersHoldResources, ControlInv, ModelInv, WorkersDead,
         IngestionAlive, DecoderAlive, WaitingForRoom, Starting, Releasing, Finishing
<1>2. MicrophoneInv /\ CancelDiscards
  BY DEF MicrophoneInv, MicrophoneOwned, StartingInv, CancelDiscards
<1>3. RetryInv /\ QueueInv
  BY DEF RetryInv, RetryNeverBlocked, QueueInv, FinalQueueBounded
<1>4. PartialInv
  BY DEF PartialInv, LatestPartialOpen, WaitingForRoom
<1>5. SubmissionInv /\ DurableInv
  BY DEF SubmissionInv, TeachSubmitsOnce, DurableInv, AnnouncedIsDurable
<1>6. HandInv
  BY DEF HandInv
<1>7. OrderInv
  <2>1. /\ StartOf(cur) = {} /\ StartOf(pending) = {} /\ StartOf(utterance) = {}
        /\ Starts(finals) = {} /\ InOrder(finals)
    BY NothingQueued DEF StartOf
  <2> QED
    BY <2>1 DEF OrderInv, InLine, Held, WaitingForRoom
<1> QED
  BY <1>1, <1>2, <1>3, <1>4, <1>5, <1>6, <1>7

\* Owner, model and handler pc stay consistent with the workers.
LEMMA ResourceStep ==
    TypeInv /\ ResourceInv /\ [Next]_vars => ResourceInv'
<1> SUFFICES ASSUME TypeInv, ResourceInv, [Next]_vars PROVE ResourceInv'
  OBVIOUS
<1> USE CaptureAssumption DEF TypeInv, TypeOK, SwitchesOK, ThreadsOK,
        ResourceInv, WorkersHoldResources, ControlInv, ModelInv, WorkersDead,
        IngestionAlive, DecoderAlive, WaitingForRoom, Starting, Releasing,
        Finishing
<1>1. CASE UNCHANGED vars
  BY <1>1
<1>2. ASSUME NEW s \in Sessions, StartSession(s) PROVE ResourceInv'
  BY <1>2 DEF StartSession
<1>3. ASSUME NEW s \in Sessions, StopIdleSession(s) PROVE ResourceInv'
  BY <1>3 DEF StopIdleSession
<1>4. CASE OpenProject
  BY <1>4 DEF OpenProject, Reconciled
<1>5. ASSUME NEW s \in Sessions, Start(s) PROVE ResourceInv'
  BY <1>5 DEF Start, NewCapture, FreshFlags, FreshWorkers, FreshKept,
       FreshHistory
<1>6. ASSUME NEW r \in Requests(owner), RequestStop(r) PROVE ResourceInv'
  BY <1>6 DEF RequestStop, RetriesFinal, Requeued, Requests
<1>7. CASE StartLoadModel
  BY <1>7 DEF StartLoadModel, Fault
<1>8. CASE StartOpenDevice
  BY <1>8 DEF StartOpenDevice, Fault
<1>9. CASE StartDevice
  BY <1>9 DEF StartDevice, Fault
<1>10. CASE AbortStart
  BY <1>10 DEF AbortStart
<1>11. CASE AbortRelease
  BY <1>11 DEF AbortRelease, Fault
<1>12. CASE StopDevice
  BY <1>12 DEF StopDevice, Fault
<1>13. CASE JoinWorkers
  BY <1>13 DEF JoinWorkers, Fault, CleanupFails, UnresolvedFinal,
       CanFinalizeTeach
<1>14. CASE FinalizeTeach
  BY <1>14 DEF FinalizeTeach, Fault
<1>15. CASE ReleaseCapture
  BY <1>15 DEF ReleaseCapture, StopRaises, Fault
<1>16. CASE AudioFrame
  BY <1>16 DEF AudioFrame
<1>17. CASE InputLost
  BY <1>17 DEF InputLost, Fault
<1>18. CASE IngestCheck
  BY <1>18 DEF IngestCheck
<1>19. CASE IngestSilence
  BY <1>19 DEF IngestSilence, TakeFrame
<1>20. CASE IngestSpeechStart
  BY <1>20 DEF IngestSpeechStart, TakeFrame
<1>21. CASE IngestSnapshotFails
  BY <1>21 DEF IngestSnapshotFails, TakeFrame, Fault
<1>22. CASE IngestSpeech
  BY <1>22 DEF IngestSpeech, TakeFrame, RequestPartial
<1>23. CASE IngestSpeechEnd
  BY <1>23 DEF IngestSpeechEnd, TakeFrame, EnqueueFinal, RoomForFinal
<1>24. CASE IngestMarker
  BY <1>24 DEF IngestMarker
<1>25. CASE IngestEmpty
  BY <1>25 DEF IngestEmpty
<1>26. CASE IngestReadStop
  BY <1>26 DEF IngestReadStop
<1>27. CASE QueueHasRoom
  BY <1>27 DEF QueueHasRoom, WaitingForRoom, RoomForFinal
<1>28. CASE QueueNeverDrains
  BY <1>28 DEF QueueNeverDrains, WaitingForRoom, RoomForFinal
<1>29. CASE IngestFlush
  BY <1>29 DEF IngestFlush, EnqueueFinal, RoomForFinal
<1>30. CASE IngestExit
  BY <1>30 DEF IngestExit
<1>31. CASE TakeFinal
  BY <1>31 DEF TakeFinal
<1>32. CASE TakePartial
  BY <1>32 DEF TakePartial
<1>33. CASE DecoderFinishes
  BY <1>33 DEF DecoderFinishes, NothingToDecode
<1>34. CASE DecodePartial
  BY <1>34 DEF DecodePartial, PartialIsCurrent
<1>35. CASE DecodeFinal
  BY <1>35 DEF DecodeFinal, Fault
<1>36. CASE DiscardCancelled
  BY <1>36 DEF DiscardCancelled, StillWanted
<1>37. CASE ResolveBlank
  BY <1>37 DEF ResolveBlank, ClearedError, StillWanted
<1>38. CASE KeepPart
  BY <1>38 DEF KeepPart, ClearedError, StillWanted
<1>39. CASE CommitFinal
  BY <1>39 DEF CommitFinal, StillWanted, Utterance, Fault
<1>40. CASE EmitFinal
  BY <1>40 DEF EmitFinal, ClearedError, Utterance, Fault
<1>41. CASE RetainFailedFinal
  BY <1>41 DEF RetainFailedFinal, FinalToRetry
<1>42. CASE DecoderExit
  BY <1>42 DEF DecoderExit
<1>43. CASE Crash
  BY <1>43 DEF Crash, Reconciled, Fault, NewCapture, FreshFlags, FreshWorkers,
       FreshKept, FreshHistory
<1> QED
  BY <1>1, <1>2, <1>3, <1>4, <1>5, <1>6, <1>7, <1>8, <1>9, <1>10, <1>11, <1>12,
     <1>13, <1>14, <1>15, <1>16, <1>17, <1>18, <1>19, <1>20, <1>21, <1>22,
     <1>23, <1>24, <1>25, <1>26, <1>27, <1>28, <1>29, <1>30, <1>31, <1>32,
     <1>33, <1>34, <1>35, <1>36, <1>37, <1>38, <1>39, <1>40, <1>41, <1>42,
     <1>43
    DEF Next, ControlRequest, ControlStep, Callback, IngestionStep, DecoderStep

\* No step takes the owner or its active session from a capturing microphone.
LEMMA MicrophoneStep ==
    TypeInv /\ ResourceInv /\ MicrophoneInv /\ [Next]_vars => MicrophoneInv'
<1> SUFFICES ASSUME TypeInv, ResourceInv, MicrophoneInv, [Next]_vars PROVE MicrophoneInv'
  OBVIOUS
<1> USE CaptureAssumption DEF TypeInv, TypeOK, SwitchesOK, ThreadsOK,
        ResourceInv, ControlInv, MicrophoneInv, MicrophoneOwned, StartingInv,
        Starting, Releasing, Finishing
<1>1. CASE UNCHANGED vars
  BY <1>1
<1>2. ASSUME NEW s \in Sessions, StartSession(s) PROVE MicrophoneInv'
  BY <1>2 DEF StartSession
<1>3. ASSUME NEW s \in Sessions, StopIdleSession(s) PROVE MicrophoneInv'
  BY <1>3 DEF StopIdleSession
<1>4. CASE OpenProject
  BY <1>4 DEF OpenProject, Reconciled
<1>5. ASSUME NEW s \in Sessions, Start(s) PROVE MicrophoneInv'
  BY <1>5 DEF Start, NewCapture, FreshFlags, FreshWorkers, FreshKept,
       FreshHistory
<1>6. ASSUME NEW r \in Requests(owner), RequestStop(r) PROVE MicrophoneInv'
  BY <1>6 DEF RequestStop, RetriesFinal, Requeued, Requests
<1>7. CASE StartLoadModel
  BY <1>7 DEF StartLoadModel, Fault
<1>8. CASE StartOpenDevice
  BY <1>8 DEF StartOpenDevice, Fault
<1>9. CASE StartDevice
  BY <1>9 DEF StartDevice, Fault
<1>10. CASE AbortStart
  BY <1>10 DEF AbortStart
<1>11. CASE AbortRelease
  BY <1>11 DEF AbortRelease, Fault
<1>12. CASE StopDevice
  BY <1>12 DEF StopDevice, Fault
<1>13. CASE JoinWorkers
  BY <1>13 DEF JoinWorkers, Fault, CleanupFails, UnresolvedFinal,
       CanFinalizeTeach
<1>14. CASE FinalizeTeach
  BY <1>14 DEF FinalizeTeach, Fault
<1>15. CASE ReleaseCapture
  BY <1>15 DEF ReleaseCapture, StopRaises, Fault
<1>16. CASE Callback
  BY <1>16 DEF Callback, AudioFrame, InputLost
<1>17. CASE IngestionStep
  BY <1>17 DEF IngestionStep, IngestCheck, TakeFrame, RequestPartial,
       IngestSilence, IngestSpeechStart, IngestSnapshotFails, IngestSpeech,
       IngestSpeechEnd, IngestMarker, IngestEmpty, IngestReadStop,
       QueueHasRoom, QueueNeverDrains, IngestFlush, IngestExit
<1>18. CASE DecoderStep
  BY <1>18 DEF DecoderStep, TakeFinal, TakePartial, DecoderFinishes,
       DecodePartial, DecodeFinal, DiscardCancelled, ResolveBlank, KeepPart,
       CommitFinal, EmitFinal, RetainFailedFinal, DecoderExit
<1>19. CASE Crash
  BY <1>19 DEF Crash, Reconciled, Fault, NewCapture, FreshFlags, FreshWorkers,
       FreshKept, FreshHistory
<1> QED
  BY <1>1, <1>2, <1>3, <1>4, <1>5, <1>6, <1>7, <1>8, <1>9, <1>10, <1>11, <1>12,
     <1>13, <1>14, <1>15, <1>16, <1>17, <1>18, <1>19
    DEF Next, ControlRequest, ControlStep

\* Only a capture that is not cancelled keeps text.
LEMMA CancelStep ==
    CancelDiscards /\ [Next]_vars => CancelDiscards'
<1> SUFFICES ASSUME CancelDiscards, [Next]_vars PROVE CancelDiscards'
  OBVIOUS
<1> USE DEF CancelDiscards
<1>1. CASE UNCHANGED vars
  BY <1>1
<1>2. ASSUME NEW s \in Sessions, StartSession(s) PROVE CancelDiscards'
  BY <1>2 DEF StartSession
<1>3. ASSUME NEW s \in Sessions, StopIdleSession(s) PROVE CancelDiscards'
  BY <1>3 DEF StopIdleSession
<1>4. CASE OpenProject
  BY <1>4 DEF OpenProject, Reconciled
<1>5. ASSUME NEW s \in Sessions, Start(s) PROVE CancelDiscards'
  BY <1>5 DEF Start, NewCapture, FreshFlags, FreshWorkers, FreshKept,
       FreshHistory
<1>6. ASSUME NEW r \in Requests(owner), RequestStop(r) PROVE CancelDiscards'
  BY <1>6 DEF RequestStop, RetriesFinal, Requeued, Requests
<1>7. CASE StartLoadModel
  BY <1>7 DEF StartLoadModel, Fault
<1>8. CASE StartOpenDevice
  BY <1>8 DEF StartOpenDevice, Fault
<1>9. CASE StartDevice
  BY <1>9 DEF StartDevice, Fault
<1>10. CASE AbortStart
  BY <1>10 DEF AbortStart
<1>11. CASE AbortRelease
  BY <1>11 DEF AbortRelease, Fault
<1>12. CASE StopDevice
  BY <1>12 DEF StopDevice, Fault
<1>13. CASE JoinWorkers
  BY <1>13 DEF JoinWorkers, Fault, CleanupFails, UnresolvedFinal,
       CanFinalizeTeach
<1>14. CASE FinalizeTeach
  BY <1>14 DEF FinalizeTeach, Fault
<1>15. CASE ReleaseCapture
  BY <1>15 DEF ReleaseCapture, StopRaises, Fault
<1>16. CASE Callback
  BY <1>16 DEF Callback, AudioFrame, InputLost
<1>17. CASE IngestionStep
  BY <1>17 DEF IngestionStep, IngestCheck, TakeFrame, IngestSilence,
       IngestSpeechStart, IngestSnapshotFails, IngestSpeech, IngestSpeechEnd,
       IngestMarker, IngestEmpty, IngestReadStop, QueueHasRoom,
       QueueNeverDrains, IngestFlush, IngestExit
<1>18. CASE TakeFinal
  BY <1>18 DEF TakeFinal
<1>19. CASE TakePartial
  BY <1>19 DEF TakePartial
<1>20. CASE DecoderFinishes
  BY <1>20 DEF DecoderFinishes, NothingToDecode
<1>21. CASE DecodePartial
  BY <1>21 DEF DecodePartial, PartialIsCurrent
<1>22. CASE DecodeFinal
  BY <1>22 DEF DecodeFinal, Fault
<1>23. CASE DiscardCancelled
  BY <1>23 DEF DiscardCancelled, StillWanted
<1>24. CASE ResolveBlank
  BY <1>24 DEF ResolveBlank, ClearedError, StillWanted
<1>25. CASE KeepPart
  BY <1>25 DEF KeepPart, ClearedError, StillWanted
<1>26. CASE CommitFinal
  BY <1>26 DEF CommitFinal, StillWanted, Utterance, Fault
<1>27. CASE EmitFinal
  BY <1>27 DEF EmitFinal, ClearedError, Utterance, Fault
<1>28. CASE RetainFailedFinal
  BY <1>28 DEF RetainFailedFinal, FinalToRetry
<1>29. CASE DecoderExit
  BY <1>29 DEF DecoderExit
<1>30. CASE Crash
  BY <1>30 DEF Crash, Reconciled, Fault, NewCapture, FreshFlags, FreshWorkers,
       FreshKept, FreshHistory
<1> QED
  BY <1>1, <1>2, <1>3, <1>4, <1>5, <1>6, <1>7, <1>8, <1>9, <1>10, <1>11, <1>12,
     <1>13, <1>14, <1>15, <1>16, <1>17, <1>18, <1>19, <1>20, <1>21, <1>22,
     <1>23, <1>24, <1>25, <1>26, <1>27, <1>28, <1>29, <1>30
    DEF Next, ControlRequest, ControlStep, DecoderStep

\* The error of a retained final stays as it was recorded.
LEMMA RetryStep ==
    TypeInv /\ ResourceInv /\ RetryInv /\ [Next]_vars => RetryInv'
<1> SUFFICES ASSUME TypeInv, ResourceInv, RetryInv, [Next]_vars PROVE RetryInv'
  OBVIOUS
<1> USE CaptureAssumption DEF TypeInv, TypeOK, ThreadsOK, ResourceInv,
        ControlInv, RetryInv, RetryNeverBlocked, DecoderAlive, BP, ERR,
        Starting, Releasing, Finishing, Final
<1>1. CASE UNCHANGED vars
  BY <1>1
<1>2. ASSUME NEW s \in Sessions, StartSession(s) PROVE RetryInv'
  BY <1>2 DEF StartSession
<1>3. ASSUME NEW s \in Sessions, StopIdleSession(s) PROVE RetryInv'
  BY <1>3 DEF StopIdleSession
<1>4. CASE OpenProject
  BY <1>4 DEF OpenProject, Reconciled
<1>5. ASSUME NEW s \in Sessions, Start(s) PROVE RetryInv'
  BY <1>5 DEF Start, NewCapture, FreshFlags, FreshWorkers, FreshKept,
       FreshHistory
<1>6. ASSUME NEW r \in Requests(owner), RequestStop(r) PROVE RetryInv'
  BY <1>6 DEF RequestStop, RetriesFinal, Requeued, Requests
<1>7. CASE StartLoadModel
  BY <1>7 DEF StartLoadModel, Fault
<1>8. CASE StartOpenDevice
  BY <1>8 DEF StartOpenDevice, Fault
<1>9. CASE StartDevice
  BY <1>9 DEF StartDevice, Fault
<1>10. CASE AbortStart
  BY <1>10 DEF AbortStart
<1>11. CASE AbortRelease
  BY <1>11 DEF AbortRelease, Fault
<1>12. CASE StopDevice
  BY <1>12 DEF StopDevice, Fault
<1>13. CASE JoinWorkers
  BY <1>13 DEF JoinWorkers, Fault, CleanupFails, UnresolvedFinal,
       CanFinalizeTeach
<1>14. CASE FinalizeTeach
  BY <1>14 DEF FinalizeTeach, Fault
<1>15. CASE ReleaseCapture
  BY <1>15 DEF ReleaseCapture, StopRaises, Fault
<1>16. CASE AudioFrame
  BY <1>16 DEF AudioFrame
<1>17. CASE InputLost
  BY <1>17 DEF InputLost, Fault
<1>18. CASE IngestCheck
  BY <1>18 DEF IngestCheck
<1>19. CASE IngestSilence
  BY <1>19 DEF IngestSilence, TakeFrame
<1>20. CASE IngestSpeechStart
  BY <1>20 DEF IngestSpeechStart, TakeFrame
<1>21. CASE IngestSnapshotFails
  BY <1>21 DEF IngestSnapshotFails, TakeFrame, Fault
<1>22. CASE IngestSpeech
  BY <1>22 DEF IngestSpeech, TakeFrame, RequestPartial
<1>23. CASE IngestSpeechEnd
  BY <1>23 DEF IngestSpeechEnd, TakeFrame, EnqueueFinal, RoomForFinal
<1>24. CASE IngestMarker
  BY <1>24 DEF IngestMarker
<1>25. CASE IngestEmpty
  BY <1>25 DEF IngestEmpty
<1>26. CASE IngestReadStop
  BY <1>26 DEF IngestReadStop
<1>27. CASE QueueHasRoom
  BY <1>27 DEF QueueHasRoom, WaitingForRoom, RoomForFinal
<1>28. CASE QueueNeverDrains
  BY <1>28 DEF QueueNeverDrains, WaitingForRoom, RoomForFinal
<1>29. CASE IngestFlush
  BY <1>29 DEF IngestFlush, EnqueueFinal, RoomForFinal
<1>30. CASE IngestExit
  BY <1>30 DEF IngestExit
<1>31. CASE TakeFinal
  BY <1>31 DEF TakeFinal
<1>32. CASE TakePartial
  BY <1>32 DEF TakePartial
<1>33. CASE DecoderFinishes
  BY <1>33 DEF DecoderFinishes, NothingToDecode
<1>34. CASE DecodePartial
  BY <1>34 DEF DecodePartial, PartialIsCurrent
<1>35. CASE DecodeFinal
  BY <1>35 DEF DecodeFinal, Fault
<1>36. CASE DiscardCancelled
  BY <1>36 DEF DiscardCancelled, StillWanted
<1>37. CASE ResolveBlank
  BY <1>37 DEF ResolveBlank, ClearedError, StillWanted
<1>38. CASE KeepPart
  BY <1>38 DEF KeepPart, ClearedError, StillWanted
<1>39. CASE CommitFinal
  BY <1>39 DEF CommitFinal, StillWanted, Utterance, Fault
<1>40. CASE EmitFinal
  BY <1>40 DEF EmitFinal, ClearedError, Utterance, Fault
<1>41. CASE RetainFailedFinal
  BY <1>41 DEF RetainFailedFinal, FinalToRetry
<1>42. CASE DecoderExit
  BY <1>42 DEF DecoderExit
<1>43. CASE Crash
  BY <1>43 DEF Crash, Reconciled, Fault, NewCapture, FreshFlags, FreshWorkers,
       FreshKept, FreshHistory
<1> QED
  BY <1>1, <1>2, <1>3, <1>4, <1>5, <1>6, <1>7, <1>8, <1>9, <1>10, <1>11, <1>12,
     <1>13, <1>14, <1>15, <1>16, <1>17, <1>18, <1>19, <1>20, <1>21, <1>22,
     <1>23, <1>24, <1>25, <1>26, <1>27, <1>28, <1>29, <1>30, <1>31, <1>32,
     <1>33, <1>34, <1>35, <1>36, <1>37, <1>38, <1>39, <1>40, <1>41, <1>42,
     <1>43
    DEF Next, ControlRequest, ControlStep, Callback, IngestionStep, DecoderStep

\* A final enters a queue with room, or is put back in a queue of the dead decoder.
LEMMA QueueStep ==
    TypeInv /\ QueueInv /\ [Next]_vars => QueueInv'
<1> SUFFICES ASSUME TypeInv, QueueInv, [Next]_vars PROVE QueueInv'
  OBVIOUS
<1> USE CaptureAssumption DEF TypeInv, TypeOK, ResultsOK, QueueInv,
        FinalQueueBounded, DecoderAlive
<1>1. CASE UNCHANGED vars
  BY <1>1
<1>2. ASSUME NEW s \in Sessions, StartSession(s) PROVE QueueInv'
  BY <1>2 DEF StartSession
<1>3. ASSUME NEW s \in Sessions, StopIdleSession(s) PROVE QueueInv'
  BY <1>3 DEF StopIdleSession
<1>4. CASE OpenProject
  BY <1>4 DEF OpenProject, Reconciled
<1>5. ASSUME NEW s \in Sessions, Start(s) PROVE QueueInv'
  BY <1>5 DEF Start, NewCapture, FreshFlags, FreshWorkers, FreshKept,
       FreshHistory
<1>6. ASSUME NEW r \in Requests(owner), RequestStop(r) PROVE QueueInv'
  BY <1>6 DEF RequestStop, RetriesFinal, Requeued, Requests
<1>7. CASE StartLoadModel
  BY <1>7 DEF StartLoadModel, Fault
<1>8. CASE StartOpenDevice
  BY <1>8 DEF StartOpenDevice, Fault
<1>9. CASE StartDevice
  BY <1>9 DEF StartDevice, Fault
<1>10. CASE AbortStart
  BY <1>10 DEF AbortStart
<1>11. CASE AbortRelease
  BY <1>11 DEF AbortRelease, Fault
<1>12. CASE StopDevice
  BY <1>12 DEF StopDevice, Fault
<1>13. CASE JoinWorkers
  BY <1>13 DEF JoinWorkers, Fault, CleanupFails, UnresolvedFinal,
       CanFinalizeTeach
<1>14. CASE FinalizeTeach
  BY <1>14 DEF FinalizeTeach, Fault
<1>15. CASE ReleaseCapture
  BY <1>15 DEF ReleaseCapture, StopRaises, Fault
<1>16. CASE Callback
  BY <1>16 DEF Callback, AudioFrame, InputLost
<1>17. CASE IngestCheck
  BY <1>17 DEF IngestCheck
<1>18. CASE IngestSilence
  BY <1>18 DEF IngestSilence, TakeFrame
<1>19. CASE IngestSpeechStart
  BY <1>19 DEF IngestSpeechStart, TakeFrame
<1>20. CASE IngestSnapshotFails
  BY <1>20 DEF IngestSnapshotFails, TakeFrame, Fault
<1>21. CASE IngestSpeech
  BY <1>21 DEF IngestSpeech, TakeFrame, RequestPartial
<1>22. CASE IngestSpeechEnd
  BY <1>22 DEF IngestSpeechEnd, TakeFrame, EnqueueFinal, RoomForFinal
<1>23. CASE IngestMarker
  BY <1>23 DEF IngestMarker
<1>24. CASE IngestEmpty
  BY <1>24 DEF IngestEmpty
<1>25. CASE IngestReadStop
  BY <1>25 DEF IngestReadStop
<1>26. CASE QueueHasRoom
  BY <1>26 DEF QueueHasRoom, WaitingForRoom, RoomForFinal
<1>27. CASE QueueNeverDrains
  BY <1>27 DEF QueueNeverDrains, WaitingForRoom, RoomForFinal
<1>28. CASE IngestFlush
  BY <1>28 DEF IngestFlush, EnqueueFinal, RoomForFinal
<1>29. CASE IngestExit
  BY <1>29 DEF IngestExit
<1>30. CASE TakeFinal
  BY <1>30 DEF TakeFinal
<1>31. CASE TakePartial
  BY <1>31 DEF TakePartial
<1>32. CASE DecoderFinishes
  BY <1>32 DEF DecoderFinishes, NothingToDecode
<1>33. CASE DecodePartial
  BY <1>33 DEF DecodePartial, PartialIsCurrent
<1>34. CASE DecodeFinal
  BY <1>34 DEF DecodeFinal, Fault
<1>35. CASE DiscardCancelled
  BY <1>35 DEF DiscardCancelled, StillWanted
<1>36. CASE ResolveBlank
  BY <1>36 DEF ResolveBlank, ClearedError, StillWanted
<1>37. CASE KeepPart
  BY <1>37 DEF KeepPart, ClearedError, StillWanted
<1>38. CASE CommitFinal
  BY <1>38 DEF CommitFinal, StillWanted, Utterance, Fault
<1>39. CASE EmitFinal
  BY <1>39 DEF EmitFinal, ClearedError, Utterance, Fault
<1>40. CASE RetainFailedFinal
  BY <1>40 DEF RetainFailedFinal, FinalToRetry
<1>41. CASE DecoderExit
  BY <1>41 DEF DecoderExit
<1>42. CASE Crash
  BY <1>42 DEF Crash, Reconciled, Fault, NewCapture, FreshFlags, FreshWorkers,
       FreshKept, FreshHistory
<1> QED
  BY <1>1, <1>2, <1>3, <1>4, <1>5, <1>6, <1>7, <1>8, <1>9, <1>10, <1>11, <1>12,
     <1>13, <1>14, <1>15, <1>16, <1>17, <1>18, <1>19, <1>20, <1>21, <1>22,
     <1>23, <1>24, <1>25, <1>26, <1>27, <1>28, <1>29, <1>30, <1>31, <1>32,
     <1>33, <1>34, <1>35, <1>36, <1>37, <1>38, <1>39, <1>40, <1>41, <1>42
    DEF Next, ControlRequest, ControlStep, IngestionStep, DecoderStep

\* Whatever closes the open utterance withdraws its partial.
LEMMA PartialStep ==
    TypeInv /\ ResourceInv /\ PartialInv /\ [Next]_vars => PartialInv'
<1> SUFFICES ASSUME TypeInv, ResourceInv, PartialInv, [Next]_vars PROVE PartialInv'
  OBVIOUS
<1> USE CaptureAssumption DEF TypeInv, TypeOK, ThreadsOK, ResourceInv,
        ControlInv, Starting, PartialInv, LatestPartialOpen, WaitingForRoom
<1>1. CASE UNCHANGED vars
  BY <1>1
<1>2. ASSUME NEW s \in Sessions, StartSession(s) PROVE PartialInv'
  BY <1>2 DEF StartSession
<1>3. ASSUME NEW s \in Sessions, StopIdleSession(s) PROVE PartialInv'
  BY <1>3 DEF StopIdleSession
<1>4. CASE OpenProject
  BY <1>4 DEF OpenProject, Reconciled
<1>5. ASSUME NEW s \in Sessions, Start(s) PROVE PartialInv'
  BY <1>5 DEF Start, NewCapture, FreshFlags, FreshWorkers, FreshKept,
       FreshHistory
<1>6. ASSUME NEW r \in Requests(owner), RequestStop(r) PROVE PartialInv'
  BY <1>6 DEF RequestStop, RetriesFinal, Requeued, Requests
<1>7. CASE StartLoadModel
  BY <1>7 DEF StartLoadModel, Fault
<1>8. CASE StartOpenDevice
  BY <1>8 DEF StartOpenDevice, Fault
<1>9. CASE StartDevice
  BY <1>9 DEF StartDevice, Fault
<1>10. CASE AbortStart
  BY <1>10 DEF AbortStart
<1>11. CASE AbortRelease
  BY <1>11 DEF AbortRelease, Fault
<1>12. CASE StopDevice
  BY <1>12 DEF StopDevice, Fault
<1>13. CASE JoinWorkers
  BY <1>13 DEF JoinWorkers, Fault, CleanupFails, UnresolvedFinal,
       CanFinalizeTeach
<1>14. CASE FinalizeTeach
  BY <1>14 DEF FinalizeTeach, Fault
<1>15. CASE ReleaseCapture
  BY <1>15 DEF ReleaseCapture, StopRaises, Fault
<1>16. CASE Callback
  BY <1>16 DEF Callback, AudioFrame, InputLost
<1>17. CASE IngestCheck
  BY <1>17 DEF IngestCheck
<1>18. CASE IngestSilence
  BY <1>18 DEF IngestSilence, TakeFrame
<1>19. CASE IngestSpeechStart
  BY <1>19 DEF IngestSpeechStart, TakeFrame
<1>20. CASE IngestSnapshotFails
  BY <1>20 DEF IngestSnapshotFails, TakeFrame, Fault
<1>21. CASE IngestSpeech
  <2>1. CASE UNCHANGED <<utterance, partialReq>>
    BY <1>21, <2>1 DEF IngestSpeech, TakeFrame
  <2>2. CASE RequestPartial
    <3>1. /\ utterance' \in Open /\ utterance'.start = utterance.start
          /\ utterance'.finalizing = utterance.finalizing
      BY <2>2 DEF RequestPartial, Open
    <3> QED
      BY <1>21, <2>2, <3>1 DEF IngestSpeech, TakeFrame, RequestPartial
  <2> QED
    BY <1>21, <2>1, <2>2 DEF IngestSpeech
<1>22. CASE IngestSpeechEnd
  BY <1>22 DEF IngestSpeechEnd, TakeFrame, EnqueueFinal, RoomForFinal, Open
<1>23. CASE IngestMarker
  BY <1>23 DEF IngestMarker
<1>24. CASE IngestEmpty
  BY <1>24 DEF IngestEmpty
<1>25. CASE IngestReadStop
  BY <1>25 DEF IngestReadStop
<1>26. CASE QueueHasRoom
  BY <1>26 DEF QueueHasRoom, WaitingForRoom, RoomForFinal
<1>27. CASE QueueNeverDrains
  BY <1>27 DEF QueueNeverDrains, WaitingForRoom, RoomForFinal
<1>28. CASE IngestFlush
  BY <1>28 DEF IngestFlush, EnqueueFinal, RoomForFinal, Open
<1>29. CASE IngestExit
  BY <1>29 DEF IngestExit
<1>30. CASE TakeFinal
  BY <1>30 DEF TakeFinal
<1>31. CASE TakePartial
  BY <1>31 DEF TakePartial
<1>32. CASE DecoderFinishes
  BY <1>32 DEF DecoderFinishes, NothingToDecode
<1>33. CASE DecodePartial
  BY <1>33 DEF DecodePartial, PartialIsCurrent
<1>34. CASE DecodeFinal
  BY <1>34 DEF DecodeFinal, Fault
<1>35. CASE DiscardCancelled
  BY <1>35 DEF DiscardCancelled, StillWanted
<1>36. CASE ResolveBlank
  BY <1>36 DEF ResolveBlank, ClearedError, StillWanted
<1>37. CASE KeepPart
  BY <1>37 DEF KeepPart, ClearedError, StillWanted
<1>38. CASE CommitFinal
  BY <1>38 DEF CommitFinal, StillWanted, Utterance, Fault
<1>39. CASE EmitFinal
  BY <1>39 DEF EmitFinal, ClearedError, Utterance, Fault
<1>40. CASE RetainFailedFinal
  BY <1>40 DEF RetainFailedFinal, FinalToRetry
<1>41. CASE DecoderExit
  BY <1>41 DEF DecoderExit
<1>42. CASE Crash
  BY <1>42 DEF Crash, Reconciled, Fault, NewCapture, FreshFlags, FreshWorkers,
       FreshKept, FreshHistory
<1> QED
  BY <1>1, <1>2, <1>3, <1>4, <1>5, <1>6, <1>7, <1>8, <1>9, <1>10, <1>11, <1>12,
     <1>13, <1>14, <1>15, <1>16, <1>17, <1>18, <1>19, <1>20, <1>21, <1>22,
     <1>23, <1>24, <1>25, <1>26, <1>27, <1>28, <1>29, <1>30, <1>31, <1>32,
     <1>33, <1>34, <1>35, <1>36, <1>37, <1>38, <1>39, <1>40, <1>41, <1>42
    DEF Next, ControlRequest, ControlStep, IngestionStep, DecoderStep

\* The audio callback, ingestion and the decoder leave the Teach answer alone.
LEMMA SubmissionFrame ==
    Callback \/ IngestionStep \/ DecoderStep
        => UNCHANGED <<submissions, owner, cap, cpc, teachStarted>>
BY DEF Callback, AudioFrame, InputLost, IngestionStep, IngestCheck, TakeFrame,
       IngestSilence, IngestSpeechStart, IngestSnapshotFails, IngestSpeech,
       IngestSpeechEnd, IngestMarker, IngestEmpty, IngestReadStop, QueueHasRoom,
       QueueNeverDrains, IngestFlush, IngestExit, DecoderStep, TakeFinal,
       TakePartial, DecoderFinishes, DecodePartial, DecodeFinal, DiscardCancelled,
       ResolveBlank, KeepPart, CommitFinal, EmitFinal, RetainFailedFinal, DecoderExit

\* What the invariant reads: it stays as it is while these do.
LEMMA SubmissionKept ==
    SubmissionInv /\ UNCHANGED <<submissions, owner, cap, cpc, teachStarted>> => SubmissionInv'
BY DEF SubmissionInv, TeachSubmitsOnce

\* The finalizer runs for a capture that has submitted nothing.
LEMMA SubmissionStep ==
    TypeInv /\ ResourceInv /\ SubmissionInv /\ [Next]_vars => SubmissionInv'
<1> SUFFICES ASSUME TypeInv, ResourceInv, SubmissionInv, [Next]_vars PROVE SubmissionInv'
  OBVIOUS
<1> USE CaptureAssumption DEF TypeInv, TypeOK, ThreadsOK, SubmissionInv,
        TeachSubmitsOnce
<1> DEFINE Submission == [cap : Nat, parts : Seq(Nat)]
<1>s. submissions \in Seq(Submission)
  BY DEF ResultsOK
<1>0. Len(submissions) \in Nat /\ \A i \in 1..Len(submissions) : submissions[i].cap \in Nat
  <2>1. \A x \in Submission : x.cap \in Nat
    OBVIOUS
  <2> HIDE DEF Submission
  <2> QED
    BY <1>s, <2>1
<1> HIDE DEF Submission
<1>1. CASE UNCHANGED vars
  BY <1>1
<1>2. ASSUME NEW s \in Sessions, StartSession(s) PROVE SubmissionInv'
  BY <1>2 DEF StartSession
<1>3. ASSUME NEW s \in Sessions, StopIdleSession(s) PROVE SubmissionInv'
  BY <1>3 DEF StopIdleSession
<1>4. CASE OpenProject
  BY <1>4 DEF OpenProject, Reconciled
<1>5. ASSUME NEW s \in Sessions, Start(s) PROVE SubmissionInv'
  <2>1. \A i \in 1..Len(submissions) : submissions[i].cap # cap + 1
    BY <1>0
  <2> QED
    BY <1>5, <1>0, <2>1 DEF Start, NewCapture, FreshFlags, FreshWorkers, FreshKept,
         FreshHistory
<1>6. ASSUME NEW r \in Requests(owner), RequestStop(r) PROVE SubmissionInv'
  BY <1>6 DEF RequestStop, RetriesFinal, Requeued, Requests
<1>7. CASE StartLoadModel
  BY <1>7 DEF StartLoadModel, Fault
<1>8. CASE StartOpenDevice
  BY <1>8 DEF StartOpenDevice, Fault
<1>9. CASE StartDevice
  BY <1>9 DEF StartDevice, Fault
<1>10. CASE AbortStart
  BY <1>10 DEF AbortStart
<1>11. CASE AbortRelease
  BY <1>11 DEF AbortRelease, Fault
<1>12. CASE StopDevice
  BY <1>12 DEF StopDevice, Fault
<1>13. CASE JoinWorkers
  BY <1>13 DEF JoinWorkers, Fault, CleanupFails, UnresolvedFinal,
       CanFinalizeTeach
<1>14. CASE FinalizeTeach
  <2> DEFINE new == [cap |-> cap, parts |-> parts]
  <2>1. CASE submissions' = submissions
    BY <1>14, <2>1 DEF FinalizeTeach
  <2>2. CASE submissions' = Append(submissions, new)
    <3>1. /\ Len(submissions') = Len(submissions) + 1
          /\ submissions'[Len(submissions) + 1].cap = cap
          /\ \A i \in 1..Len(submissions) : submissions'[i].cap = submissions[i].cap
      <4>1. new \in Submission /\ new.cap = cap
        BY DEF Submission, ResultsOK
      <4> HIDE DEF new
      <4>2. Append(submissions, new)[Len(submissions) + 1] = new
        BY <1>s, <4>1, AppendIs
      <4>3. \A i \in 1..Len(submissions) : Append(submissions, new)[i] = submissions[i]
        BY <1>s, <4>1, AppendIs
      <4>4. Len(Append(submissions, new)) = Len(submissions) + 1
        BY <1>s, <4>1, AppendIs
      <4> QED
        BY <2>2, <4>1, <4>2, <4>3, <4>4
    <3>2. \A i \in 1..Len(submissions) : submissions[i].cap # cap
      BY <1>14 DEF FinalizeTeach, ResourceInv, ControlInv
    <3>3. \A i \in 1..Len(submissions') : submissions'[i].cap <= cap
      BY <1>0, <3>1
    <3>4. TeachSubmitsOnce'
      BY <1>0, <3>1, <3>2
    <3> QED
      BY <1>14, <3>3, <3>4 DEF FinalizeTeach
  <2> QED
    BY <1>14, <2>1, <2>2 DEF FinalizeTeach
<1>15. CASE ReleaseCapture
  BY <1>15 DEF ReleaseCapture, StopRaises, Fault
<1>16. CASE Callback
  <2> HIDE DEF SubmissionInv
  <2> QED
    BY <1>16, SubmissionFrame, SubmissionKept
<1>17. CASE IngestionStep
  <2> HIDE DEF SubmissionInv
  <2> QED
    BY <1>17, SubmissionFrame, SubmissionKept
<1>18. CASE DecoderStep
  <2> HIDE DEF SubmissionInv
  <2> QED
    BY <1>18, SubmissionFrame, SubmissionKept
<1>19. CASE Crash
  BY <1>19 DEF Crash, Reconciled, Fault, NewCapture, FreshFlags, FreshWorkers,
       FreshKept, FreshHistory
<1> QED
  BY <1>0, <1>1, <1>2, <1>3, <1>4, <1>5, <1>6, <1>7, <1>8, <1>9, <1>10, <1>11,
     <1>12, <1>13, <1>14, <1>15, <1>16, <1>17, <1>18, <1>19
    DEF Next, ControlRequest, ControlStep

\* The transcript only grows, and a final is announced after it is there.
LEMMA DurableStep ==
    TypeInv /\ ResourceInv /\ DurableInv /\ [Next]_vars => DurableInv'
<1> SUFFICES ASSUME TypeInv, ResourceInv, DurableInv, [Next]_vars PROVE DurableInv'
  OBVIOUS
<1> USE CaptureAssumption DEF TypeInv, TypeOK, ThreadsOK, ResultsOK,
        DurableInv, AnnouncedIsDurable, Committed, Utterance
<1>1. CASE UNCHANGED vars
  BY <1>1
<1>2. ASSUME NEW s \in Sessions, StartSession(s) PROVE DurableInv'
  BY <1>2 DEF StartSession
<1>3. ASSUME NEW s \in Sessions, StopIdleSession(s) PROVE DurableInv'
  <2>1. /\ UNCHANGED <<transcript, owner, cap, announced>>
        /\ UNCHANGED <<dpc, cur>>
    BY <1>3 DEF StopIdleSession, slot, perCapture, outputs, decoder
  <2> QED
    BY <2>1
<1>4. CASE OpenProject
  BY <1>4 DEF OpenProject, Reconciled
<1>5. ASSUME NEW s \in Sessions, Start(s) PROVE DurableInv'
  BY <1>5 DEF Start, NewCapture, FreshFlags, FreshWorkers, FreshKept,
       FreshHistory
<1>6. ASSUME NEW r \in Requests(owner), RequestStop(r) PROVE DurableInv'
  BY <1>6 DEF RequestStop, RetriesFinal, Requeued, Requests
<1>7. CASE StartLoadModel
  BY <1>7 DEF StartLoadModel, Fault
<1>8. CASE StartOpenDevice
  BY <1>8 DEF StartOpenDevice, Fault
<1>9. CASE StartDevice
  BY <1>9 DEF StartDevice, Fault
<1>10. CASE AbortStart
  BY <1>10 DEF AbortStart
<1>11. CASE AbortRelease
  <2>1. dpc # "emit" => dpc' # "emit"
    BY <1>11 DEF AbortRelease
  <2>2. owner' = owner \/ dpc # "emit"
    BY <1>11 DEF AbortRelease, WorkersDead, DecoderAlive
  <2> QED
    BY <1>11, <2>1, <2>2 DEF AbortRelease
<1>12. CASE StopDevice
  BY <1>12 DEF StopDevice, Fault
<1>13. CASE JoinWorkers
  BY <1>13 DEF JoinWorkers, Fault, CleanupFails, UnresolvedFinal,
       CanFinalizeTeach
<1>14. CASE FinalizeTeach
  BY <1>14 DEF FinalizeTeach, Fault
<1>15. CASE ReleaseCapture
  <2>1. dpc # "emit"
    BY <1>15 DEF ReleaseCapture, ResourceInv, ControlInv, Releasing, WorkersDead,
         DecoderAlive
  <2> QED
    BY <1>15, <2>1 DEF ReleaseCapture
<1>16. CASE AudioFrame
  BY <1>16 DEF AudioFrame
<1>17. CASE InputLost
  BY <1>17 DEF InputLost, Fault
<1>18. CASE IngestCheck
  BY <1>18 DEF IngestCheck
<1>19. CASE IngestSilence
  BY <1>19 DEF IngestSilence, TakeFrame
<1>20. CASE IngestSpeechStart
  BY <1>20 DEF IngestSpeechStart, TakeFrame
<1>21. CASE IngestSnapshotFails
  BY <1>21 DEF IngestSnapshotFails, TakeFrame, Fault
<1>22. CASE IngestSpeech
  BY <1>22 DEF IngestSpeech, TakeFrame, RequestPartial
<1>23. CASE IngestSpeechEnd
  BY <1>23 DEF IngestSpeechEnd, TakeFrame, EnqueueFinal, RoomForFinal
<1>24. CASE IngestMarker
  BY <1>24 DEF IngestMarker
<1>25. CASE IngestEmpty
  BY <1>25 DEF IngestEmpty
<1>26. CASE IngestReadStop
  BY <1>26 DEF IngestReadStop
<1>27. CASE QueueHasRoom
  BY <1>27 DEF QueueHasRoom, WaitingForRoom, RoomForFinal
<1>28. CASE QueueNeverDrains
  BY <1>28 DEF QueueNeverDrains, WaitingForRoom, RoomForFinal
<1>29. CASE IngestFlush
  BY <1>29 DEF IngestFlush, EnqueueFinal, RoomForFinal
<1>30. CASE IngestExit
  BY <1>30 DEF IngestExit
<1>31. CASE TakeFinal
  BY <1>31 DEF TakeFinal
<1>32. CASE TakePartial
  BY <1>32 DEF TakePartial
<1>33. CASE DecoderFinishes
  BY <1>33 DEF DecoderFinishes, NothingToDecode
<1>34. CASE DecodePartial
  BY <1>34 DEF DecodePartial, PartialIsCurrent
<1>35. CASE DecodeFinal
  BY <1>35 DEF DecodeFinal, Fault
<1>36. CASE DiscardCancelled
  BY <1>36 DEF DiscardCancelled, StillWanted
<1>37. CASE ResolveBlank
  BY <1>37 DEF ResolveBlank, ClearedError, StillWanted
<1>38. CASE KeepPart
  BY <1>38 DEF KeepPart, ClearedError, StillWanted
<1>39. CASE CommitFinal
  <2> DEFINE u == Utterance(cur)
  <2>1. owner \in Sessions
    BY <1>39 DEF CommitFinal, ResourceInv, WorkersHoldResources, WorkersDead,
         DecoderAlive
  <2>2. Utterance(cur)' = u /\ owner' = owner /\ announced' = announced
    BY <1>39 DEF CommitFinal, Utterance
  <2>3. \/ transcript' = transcript
        \/ transcript' = [transcript EXCEPT ![owner] = Append(@, u)]
    BY <1>39 DEF CommitFinal
  <2>4. ASSUME NEW s \in Sessions, NEW v, Committed(s, v) PROVE Committed(s, v)'
    <3>1. PICK i \in 1..Len(transcript[s]) : transcript[s][i] = v
      BY <2>4 DEF Committed
    <3>2. transcript[s] \in Seq(Utterances)
      BY DEF ResultsOK
    <3>3. u \in Utterances
      BY <1>39 DEF CommitFinal, HandsFull, Final, Utterances
    <3> HIDE DEF u, Committed
    <3>4. CASE transcript'[s] = transcript[s]
      BY <3>1, <3>4 DEF Committed
    <3>5. CASE transcript'[s] = Append(transcript[s], u)
      <4>1. Len(transcript[s]) \in Nat
        BY <3>2
      <4>2. Len(transcript'[s]) = Len(transcript[s]) + 1 /\ transcript'[s][i] = transcript[s][i]
        BY <3>1, <3>2, <3>3, <3>5, AppendIs
      <4> QED
        BY <3>1, <4>1, <4>2 DEF Committed
    <3>6. DOMAIN transcript = Sessions
      BY DEF ResultsOK
    <3> QED
      BY <2>3, <3>4, <3>5, <3>6
  <2>5. dpc' = "emit" => Committed(owner, Utterance(cur))'
    BY <1>39, <2>1 DEF CommitFinal, Committed
  <2> HIDE DEF u, Committed
  <2> QED
    BY <2>2, <2>4, <2>5
<1>40. CASE EmitFinal
  <2> DEFINE u == Utterance(cur)
  <2>1. owner \in Sessions
    BY <1>40 DEF EmitFinal, ResourceInv, WorkersHoldResources, WorkersDead, DecoderAlive
  <2>2. Committed(owner, u)
    BY <1>40 DEF EmitFinal
  <2>3. announced' \subseteq announced \cup {u} /\ dpc' # "emit"
    BY <1>40 DEF EmitFinal
  <2>4. \A s \in Sessions : \A v : Committed(s, v) => Committed(s, v)'
    BY <1>40 DEF EmitFinal, Committed
  <2> HIDE DEF u, Committed
  <2> QED
    BY <2>1, <2>2, <2>3, <2>4
<1>41. CASE RetainFailedFinal
  BY <1>41 DEF RetainFailedFinal, FinalToRetry
<1>42. CASE DecoderExit
  BY <1>42 DEF DecoderExit
<1>43. CASE Crash
  BY <1>43 DEF Crash, Reconciled, Fault, NewCapture, FreshFlags, FreshWorkers,
       FreshKept, FreshHistory
<1> QED
  BY <1>1, <1>2, <1>3, <1>4, <1>5, <1>6, <1>7, <1>8, <1>9, <1>10, <1>11, <1>12,
     <1>13, <1>14, <1>15, <1>16, <1>17, <1>18, <1>19, <1>20, <1>21, <1>22,
     <1>23, <1>24, <1>25, <1>26, <1>27, <1>28, <1>29, <1>30, <1>31, <1>32,
     <1>33, <1>34, <1>35, <1>36, <1>37, <1>38, <1>39, <1>40, <1>41, <1>42,
     <1>43
    DEF Next, ControlRequest, ControlStep, Callback, IngestionStep, DecoderStep

\* The decoder's hand is empty between two finals.
LEMMA HandStep ==
    TypeInv /\ ResourceInv /\ RetryInv /\ HandInv /\ [Next]_vars => HandInv'
<1> SUFFICES ASSUME TypeInv, ResourceInv, RetryInv, HandInv, [Next]_vars PROVE HandInv'
  OBVIOUS
<1> USE CaptureAssumption DEF TypeInv, TypeOK, ThreadsOK, ResourceInv, ControlInv, RetryInv,
        WorkersDead, DecoderAlive, Starting, Releasing, Finishing, HandInv
<1>1. CASE UNCHANGED vars
  BY <1>1
<1>2. ASSUME NEW s \in Sessions, StartSession(s) PROVE HandInv'
  BY <1>2 DEF StartSession
<1>3. ASSUME NEW s \in Sessions, StopIdleSession(s) PROVE HandInv'
  BY <1>3 DEF StopIdleSession
<1>4. CASE OpenProject
  BY <1>4 DEF OpenProject, Reconciled
<1>5. ASSUME NEW s \in Sessions, Start(s) PROVE HandInv'
  BY <1>5 DEF Start, NewCapture, FreshFlags, FreshWorkers, FreshKept, FreshHistory
<1>6. ASSUME NEW r \in Requests(owner), RequestStop(r) PROVE HandInv'
  BY <1>6 DEF RequestStop, RetriesFinal, Requeued, Requests
<1>7. CASE StartLoadModel
  BY <1>7 DEF StartLoadModel, Fault
<1>8. CASE StartOpenDevice
  BY <1>8 DEF StartOpenDevice, Fault
<1>9. CASE StartDevice
  BY <1>9 DEF StartDevice, Fault
<1>10. CASE AbortStart
  BY <1>10 DEF AbortStart
<1>11. CASE AbortRelease
  BY <1>11 DEF AbortRelease, Fault
<1>12. CASE StopDevice
  BY <1>12 DEF StopDevice, Fault
<1>13. CASE JoinWorkers
  BY <1>13 DEF JoinWorkers, Fault, CleanupFails, UnresolvedFinal, CanFinalizeTeach
<1>14. CASE FinalizeTeach
  BY <1>14 DEF FinalizeTeach, Fault
<1>15. CASE ReleaseCapture
  BY <1>15 DEF ReleaseCapture, StopRaises, Fault
<1>16. CASE AudioFrame
  BY <1>16 DEF AudioFrame
<1>17. CASE InputLost
  BY <1>17 DEF InputLost, Fault
<1>18. CASE IngestCheck
  BY <1>18 DEF IngestCheck
<1>19. CASE IngestSilence
  BY <1>19 DEF IngestSilence, TakeFrame
<1>20. CASE IngestSpeechStart
  BY <1>20 DEF IngestSpeechStart, TakeFrame
<1>21. CASE IngestSnapshotFails
  BY <1>21 DEF IngestSnapshotFails, TakeFrame, Fault
<1>22. CASE IngestSpeech
  BY <1>22 DEF IngestSpeech, TakeFrame, RequestPartial
<1>23. CASE IngestSpeechEnd
  BY <1>23 DEF IngestSpeechEnd, TakeFrame, EnqueueFinal, RoomForFinal
<1>24. CASE IngestMarker
  BY <1>24 DEF IngestMarker
<1>25. CASE IngestEmpty
  BY <1>25 DEF IngestEmpty
<1>26. CASE IngestReadStop
  BY <1>26 DEF IngestReadStop
<1>27. CASE QueueHasRoom
  BY <1>27 DEF QueueHasRoom, WaitingForRoom, RoomForFinal
<1>28. CASE QueueNeverDrains
  BY <1>28 DEF QueueNeverDrains, WaitingForRoom, RoomForFinal
<1>29. CASE IngestFlush
  BY <1>29 DEF IngestFlush, EnqueueFinal, RoomForFinal
<1>30. CASE IngestExit
  BY <1>30 DEF IngestExit
<1>31. CASE TakeFinal
  BY <1>31 DEF TakeFinal
<1>32. CASE TakePartial
  BY <1>32 DEF TakePartial
<1>33. CASE DecoderFinishes
  BY <1>33 DEF DecoderFinishes, NothingToDecode
<1>34. CASE DecodePartial
  BY <1>34 DEF DecodePartial, PartialIsCurrent
<1>35. CASE DecodeFinal
  BY <1>35 DEF DecodeFinal, Fault
<1>36. CASE DiscardCancelled
  BY <1>36 DEF DiscardCancelled, StillWanted
<1>37. CASE ResolveBlank
  BY <1>37 DEF ResolveBlank, ClearedError, StillWanted
<1>38. CASE KeepPart
  BY <1>38 DEF KeepPart, ClearedError, StillWanted
<1>39. CASE CommitFinal
  BY <1>39 DEF CommitFinal, StillWanted, Utterance, Fault
<1>40. CASE EmitFinal
  BY <1>40 DEF EmitFinal, ClearedError, Utterance, Fault
<1>41. CASE RetainFailedFinal
  BY <1>41 DEF RetainFailedFinal, FinalToRetry
<1>42. CASE DecoderExit
  BY <1>42 DEF DecoderExit
<1>43. CASE Crash
  BY <1>43 DEF Crash, Reconciled, Fault, NewCapture, FreshFlags, FreshWorkers,
       FreshKept, FreshHistory
<1> QED
  BY <1>1, <1>2, <1>3, <1>4, <1>5, <1>6, <1>7, <1>8, <1>9, <1>10, <1>11, <1>12, <1>13,
       <1>14, <1>15, <1>16, <1>17, <1>18, <1>19, <1>20, <1>21, <1>22, <1>23, <1>24,
       <1>25, <1>26, <1>27, <1>28, <1>29, <1>30, <1>31, <1>32, <1>33, <1>34, <1>35,
       <1>36, <1>37, <1>38, <1>39, <1>40, <1>41, <1>42, <1>43 DEF Next, ControlRequest,
       ControlStep, Callback, IngestionStep, DecoderStep

\* What starts there are, and that nobody holds none.
LEMMA StartsTyped ==
    ASSUME TypeInv
    PROVE  /\ Starts(finals) \subseteq Nat /\ StartOf(cur) \subseteq Nat
           /\ StartOf(pending) \subseteq Nat /\ StartOf(utterance) \subseteq Nat
           /\ begun \subseteq Nat /\ settled \subseteq Nat /\ clock \in Nat
<1> USE DEF TypeInv, TypeOK, ThreadsOK, ResultsOK
<1>1. Starts(finals) \subseteq Nat
  <2>1. \A i \in 1..Len(finals) : finals[i] \in Final
    OBVIOUS
  <2> QED
    BY <2>1 DEF Starts, Final
<1>2. StartOf(cur) \subseteq Nat /\ StartOf(pending) \subseteq Nat
  BY DEF StartOf, Final
<1>3. StartOf(utterance) \subseteq Nat
  BY DEF StartOf, Open
<1> QED
  BY <1>1, <1>2, <1>3

\* The order stays while nothing moves along the line, whatever the clock does.
LEMMA OrderKept ==
    ASSUME TypeInv, OrderInv,
           UNCHANGED <<overrun, begun, settled, cur, pending, finals, cancelReq>>,
           clock' \in {clock, clock + 1}, teachErr => teachErr',
           StartOf(utterance)' = StartOf(utterance),
           WaitingForRoom' => \/ WaitingForRoom /\ seg' = seg
                              \/ StartOf(utterance) = {seg'.start}
    PROVE  OrderInv'
<1>1. SUFFICES ASSUME ~overrun PROVE OrderInv'
  BY DEF OrderInv
<1>2. \A x \in begun \cup settled \cup StartOf(cur) : x < clock'
  BY <1>1, StartsTyped DEF OrderInv
<1>3. ASSUME ~cancelReq PROVE InLine'
  <2>1. InLine
    BY <1>1, <1>3 DEF OrderInv
  <2>2. Held' = Held
    BY DEF Held, StartOf, Starts
  <2>3. \A x \in Held : x < clock'
    BY <2>1, StartsTyped DEF InLine, Held
  <2>4. WaitingForRoom' => StartOf(utterance)' = {seg'.start}
    BY <2>1 DEF InLine
  <2>5. /\ Starts(finals)' = Starts(finals) /\ InOrder(finals)' = InOrder(finals)
        /\ StartOf(cur)' = StartOf(cur) /\ StartOf(pending)' = StartOf(pending)
    BY DEF Starts, InOrder, StartOf
  <2>6. (~teachErr => begun \subseteq settled \cup Held)'
    BY <2>1, <2>2 DEF InLine
  <2> HIDE DEF Starts, InOrder, StartOf
  <2> QED
    BY <2>1, <2>2, <2>3, <2>4, <2>5, <2>6 DEF InLine
<1> QED
  BY <1>1, <1>2, <1>3 DEF OrderInv, StartOf

\* An utterance is over, and its final is the last of the queue.
LEMMA OrderQueued ==
    ASSUME TypeInv, OrderInv, ~cancelReq,
           \E e \in Final : StartOf(utterance) = {e.start} /\ finals' = Append(finals, e),
           UNCHANGED <<overrun, begun, settled, cur, pending, cancelReq, teachErr>>,
           clock' \in {clock, clock + 1}, utterance' = None, ~WaitingForRoom'
    PROVE  OrderInv'
<1>1. SUFFICES ASSUME ~overrun PROVE OrderInv'
  BY DEF OrderInv
<1>2. PICK e \in Final : StartOf(utterance) = {e.start} /\ finals' = Append(finals, e)
  OBVIOUS
<1>3. InLine
  BY <1>1 DEF OrderInv
<1>4. Starts(finals') = Starts(finals) \cup {e.start} /\ InOrder(finals')
  <2>1. finals \in Seq(Final)
    BY DEF TypeInv, TypeOK, ResultsOK
  <2>2. InOrder(finals) /\ \A x \in Starts(finals) : x < e.start
    BY <1>2, <1>3 DEF InLine
  <2> QED
    BY <2>1, <2>2, <1>2, QueuedLast
<1>5. StartOf(utterance') = {}
  BY DEF StartOf
<1>6. Starts(finals)' = Starts(finals) \cup {e.start} /\ StartOf(utterance)' = {} /\ InOrder(finals)'
  BY <1>4, <1>5 DEF Starts, StartOf, InOrder
<1>7. Held' = Held
  BY <1>2, <1>6 DEF Held, StartOf
<1>8. \A x \in begun \cup settled \cup StartOf(cur) \cup Held : x < clock'
  BY <1>1, <1>3, StartsTyped DEF OrderInv, InLine, Held
<1>9. InLine'
  <2>1. \A x \in StartOf(cur) \cup StartOf(pending) : \A y \in Starts(finals)' : x < y
    BY <1>2, <1>3, <1>6 DEF InLine
  <2> QED
    BY <2>1, <1>3, <1>6, <1>7, <1>8 DEF InLine, StartOf
<1> QED
  BY <1>1, <1>8, <1>9 DEF OrderInv, StartOf

\* The final in hand is settled.
LEMMA OrderSettled ==
    ASSUME TypeInv, OrderInv, cur \in Final,
           settled' = settled \cup {cur.start}, cur' = None,
           UNCHANGED <<overrun, begun, pending, finals, cancelReq, clock, teachErr, utterance,
                       ipc, seg>>
    PROVE  OrderInv'
<1>1. SUFFICES ASSUME ~overrun PROVE OrderInv'
  BY DEF OrderInv
<1>2. StartOf(cur) = {cur.start} /\ StartOf(cur)' = {}
  BY CaptureAssumption DEF StartOf, Final
<1>3. /\ \A x \in begun \cup settled' \cup StartOf(cur)' : x < clock
      /\ \A b \in begun, x \in settled' : b < x => b \in settled'
  BY <1>1, <1>2 DEF OrderInv
<1>4. ASSUME ~cancelReq PROVE InLine'
  <2>1. InLine
    BY <1>1, <1>4 DEF OrderInv
  <2>2. Held = Held' \cup {cur.start}
    BY <1>2 DEF Held, StartOf, Starts
  <2>3. /\ Starts(finals)' = Starts(finals) /\ InOrder(finals)' = InOrder(finals)
        /\ StartOf(utterance)' = StartOf(utterance) /\ StartOf(pending)' = StartOf(pending)
    BY DEF Starts, InOrder, StartOf
  <2>4. (~teachErr => begun \subseteq settled \cup Held)'
    BY <2>1, <2>2 DEF InLine
  <2>5. (WaitingForRoom => StartOf(utterance) = {seg.start})'
    BY <2>1, <2>3 DEF InLine, WaitingForRoom
  <2> QED
    BY <2>1, <2>2, <2>3, <2>4, <2>5, <1>2 DEF InLine
<1> QED
  BY <1>1, <1>2, <1>3, <1>4 DEF OrderInv

\* Ingestion queues the final of the utterance, or waits for room, or drops it.
LEMMA OrderEnqueued ==
    ASSUME TypeInv, OrderInv, IngestSpeechEnd \/ IngestFlush
    PROVE  OrderInv'
<1>0. /\ UNCHANGED <<overrun, begun, settled, cur, pending, cancelReq, teachErr>>
      /\ clock' \in {clock, clock + 1}
  BY DEF IngestSpeechEnd, IngestFlush, TakeFrame
<1>1. \/ /\ ipc' \in {"check", "exit"} /\ UNCHANGED <<utterance, finals, seg>>
      \/ /\ utterance # None /\ ~cancelReq
         /\ \E n \in Nat : LET e == [start |-> utterance.start, end |-> n] IN
               \/ finals' = Append(finals, e) /\ utterance' = None /\ ipc' \in {"check", "exit"}
               \/ /\ seg' = e /\ UNCHANGED finals
                  /\ utterance' = [utterance EXCEPT !.finalizing = TRUE, !.gen = @ + 1]
  <2>1. CASE IngestSpeechEnd
    <3>1. clock' \in Nat
      BY <2>1, StartsTyped DEF IngestSpeechEnd, TakeFrame
    <3> QED
      BY <2>1, <3>1 DEF IngestSpeechEnd, EnqueueFinal
  <2>2. CASE IngestFlush
    <3>1. CASE fatal # None \/ cancelReq \/ speech = None
      BY <2>2, <3>1 DEF IngestFlush
    <3>2. CASE ~(fatal # None \/ cancelReq \/ speech = None)
      <4>1. (IF clock > speech THEN clock ELSE speech + 1) \in Nat
        BY <3>2 DEF TypeInv, TypeOK, ThreadsOK
      <4>2. EnqueueFinal(IF clock > speech THEN clock ELSE speech + 1, "exit", "waitLast")
        BY <2>2, <3>2 DEF IngestFlush
      <4> HIDE DEF EnqueueFinal
      <4> DEFINE n == IF clock > speech THEN clock ELSE speech + 1
      <4>3. n \in Nat /\ EnqueueFinal(n, "exit", "waitLast")
        BY <4>1, <4>2
      <4> HIDE DEF n
      <4> QED
        BY <4>3 DEF EnqueueFinal
    <3> QED
      BY <3>1, <3>2
  <2> QED
    BY <2>1, <2>2
<1>2. CASE ipc' \in {"check", "exit"} /\ UNCHANGED <<utterance, finals, seg>>
  <2>1. ~WaitingForRoom' /\ StartOf(utterance)' = StartOf(utterance)
    BY <1>2 DEF WaitingForRoom, StartOf
  <2> QED
    BY <1>0, <1>2, <2>1, OrderKept
<1>3. ASSUME utterance # None, ~cancelReq, NEW n \in Nat,
             finals' = Append(finals, [start |-> utterance.start, end |-> n]),
             utterance' = None, ipc' \in {"check", "exit"}
      PROVE  OrderInv'
  <2> DEFINE e == [start |-> utterance.start, end |-> n]
  <2>1. e \in Final /\ StartOf(utterance) = {e.start}
    BY <1>3 DEF TypeInv, TypeOK, ThreadsOK, StartOf, Final, Open
  <2>2. ~WaitingForRoom'
    BY <1>3 DEF WaitingForRoom
  <2> QED
    BY <1>0, <1>3, <2>1, <2>2, OrderQueued
<1>4. ASSUME utterance # None, NEW n \in Nat,
             seg' = [start |-> utterance.start, end |-> n], UNCHANGED finals,
             utterance' = [utterance EXCEPT !.finalizing = TRUE, !.gen = @ + 1]
      PROVE  OrderInv'
  <2>1. StartOf(utterance) = {seg'.start}
    BY <1>4 DEF StartOf
  <2>2. utterance' \in Open /\ utterance'.start = utterance.start
    <3>1. utterance \in Open
      BY <1>4 DEF TypeInv, TypeOK, ThreadsOK
    <3> QED
      BY <1>4, <3>1, Finalizing DEF Open
  <2>3. StartOf(utterance)' = StartOf(utterance)
    BY <1>4, <2>2, CaptureAssumption DEF StartOf
  <2> QED
    BY <1>0, <1>4, <2>1, <2>3, OrderKept
<1> QED
  BY <1>1, <1>2, <1>3, <1>4

\* Nobody has spoken yet.
LEMMA OrderFresh ==
    ASSUME begun' = {}, settled' = {}, cur' = None, pending' = None, finals' = <<>>,
           utterance' = None, ~WaitingForRoom'
    PROVE  OrderInv'
<1>1. /\ StartOf(cur)' = {} /\ StartOf(pending)' = {} /\ StartOf(utterance)' = {}
      /\ Starts(finals)' = {} /\ InOrder(finals)'
  <2>1. Starts(finals') = {} /\ InOrder(finals')
    BY NothingQueued
  <2> QED
    BY <2>1 DEF StartOf, Starts, InOrder
<1> QED
  BY <1>1 DEF OrderInv, InLine, Held

\* The final that is decoded again was spoken before those in the queue.
LEMMA OrderRequeued ==
    ASSUME TypeInv, OrderInv, pending \in Final, cur = None,
           finals' = <<pending>> \o finals, pending' = None,
           UNCHANGED <<overrun, begun, settled, cur, clock, cancelReq, teachErr, utterance,
                       ipc, seg>>
    PROVE  OrderInv'
<1>1. StartOf(pending) = {pending.start} /\ StartOf(pending)' = {} /\ StartOf(cur) = {}
  BY CaptureAssumption DEF StartOf
<1>2. ASSUME ~overrun, ~cancelReq PROVE InLine'
  <2>1. InLine
    BY <1>2 DEF OrderInv
  <2>2. Starts(finals') = {pending.start} \cup Starts(finals) /\ InOrder(finals')
    <3>1. finals \in Seq(Final)
      BY DEF TypeInv, TypeOK, ResultsOK
    <3> QED
      BY <3>1, <2>1, <1>1, PutBackFirst DEF InLine
  <2>3. Starts(finals)' = {pending.start} \cup Starts(finals) /\ InOrder(finals)'
    BY <2>2 DEF Starts, InOrder
  <2>4. StartOf(cur)' = {} /\ StartOf(utterance)' = StartOf(utterance)
    BY <1>1 DEF StartOf
  <2>5. Held' = Held
    BY <1>1, <2>3, <2>4 DEF Held
  <2>6. (WaitingForRoom => StartOf(utterance) = {seg.start})'
    BY <2>1, <2>4 DEF InLine, WaitingForRoom
  <2>7. (~teachErr => begun \subseteq settled \cup Held)'
    BY <2>1, <2>5 DEF InLine
  <2> QED
    BY <2>1, <2>3, <2>4, <2>5, <2>6, <2>7, <1>1 DEF InLine
<1> QED
  BY <1>2 DEF OrderInv, StartOf

\* The utterance that begins is after all of them.
LEMMA OrderBegun ==
    ASSUME TypeInv, PartialInv, OrderInv, IngestSpeechStart
    PROVE  OrderInv'
<1>1. /\ begun' = begun \cup {clock} /\ clock' = clock + 1
      /\ utterance' = [start |-> clock, gen |-> 0, finalizing |-> FALSE]
      /\ UNCHANGED <<overrun, settled, cur, pending, finals, cancelReq, teachErr>>
  BY DEF IngestSpeechStart, TakeFrame
<1>2. utterance = None /\ ~WaitingForRoom'
  BY DEF IngestSpeechStart, TakeFrame, PartialInv, WaitingForRoom
<1>3. StartOf(utterance) = {} /\ StartOf(utterance)' = {clock}
  <2>1. utterance' # None
    <3>1. utterance' \in Open
      BY <1>1, StartsTyped DEF Open
    <3> QED
      BY <3>1, CaptureAssumption
  <2> QED
    BY <1>1, <1>2, <2>1 DEF StartOf
<1>4. /\ Starts(finals)' = Starts(finals) /\ InOrder(finals)' = InOrder(finals)
      /\ StartOf(cur)' = StartOf(cur) /\ StartOf(pending)' = StartOf(pending)
  BY <1>1 DEF Starts, InOrder, StartOf
<1>5. Held' = Held \cup {clock}
  BY <1>3, <1>4 DEF Held
<1>6. ASSUME ~overrun, ~cancelReq PROVE InLine'
  <2>1. InLine
    BY <1>6 DEF OrderInv
  <2>2. \A x \in Held' : x < clock'
    BY <2>1, <1>1, <1>5, StartsTyped DEF InLine, Held
  <2>3. \A x \in Held : x < clock
    BY <2>1 DEF InLine
  <2>4. (~teachErr => begun \subseteq settled \cup Held)'
    BY <2>1, <1>1, <1>5 DEF InLine
  <2> QED
    BY <2>1, <2>2, <2>3, <2>4, <1>2, <1>3, <1>4 DEF InLine, Held
<1>7. ASSUME ~overrun
      PROVE  /\ \A x \in begun' \cup settled' \cup StartOf(cur)' : x < clock'
             /\ \A x \in StartOf(cur)', b \in begun' : b < x => b \in settled'
             /\ \A b \in begun', x \in settled' : b < x => b \in settled'
  <2>1. \A x \in begun \cup settled \cup StartOf(cur) : x < clock /\ x \in Nat
    BY <1>7, StartsTyped DEF OrderInv
  <2> QED
    BY <2>1, <1>1, <1>4, <1>7, StartsTyped DEF OrderInv
<1> QED
  BY <1>1, <1>6, <1>7 DEF OrderInv

\* The decoder takes the first of the queue: everything spoken before it is settled.
LEMMA OrderTaken ==
    ASSUME TypeInv, RetryInv, HandInv, OrderInv, TakeFinal
    PROVE  OrderInv'
<1>1. /\ finals \in Seq(Final) /\ finals # <<>> /\ cur' = Head(finals) /\ finals' = Tail(finals)
      /\ ~cancelReq /\ cur = None /\ pending = None /\ ~teachErr
      /\ UNCHANGED <<overrun, begun, settled, pending, cancelReq, clock, teachErr, utterance,
                     ipc, seg>>
  BY DEF TakeFinal, HandInv, RetryInv, TypeInv, TypeOK, ResultsOK
<1>2. cur' \in Final
  BY <1>1, TakeHead
<1>3. StartOf(cur) = {} /\ StartOf(pending) = {} /\ StartOf(cur)' = {Head(finals).start}
      /\ StartOf(pending)' = {} /\ StartOf(utterance)' = StartOf(utterance)
  BY <1>1, <1>2, CaptureAssumption DEF StartOf
<1>4. ASSUME ~overrun PROVE InLine
  BY <1>1, <1>4 DEF OrderInv
<1>5. Starts(finals) = {Head(finals).start} \cup Starts(finals)'
  BY <1>1, TakenFirst DEF Starts
<1>6. ASSUME ~overrun
      PROVE  InOrder(finals)' /\ \A x \in Starts(finals)' : Head(finals).start < x
  <2>1. InOrder(Tail(finals)) /\ \A x \in Starts(Tail(finals)) : Head(finals).start < x
    BY <1>1, <1>4, <1>6, TakenFirst DEF InLine
  <2> QED
    BY <1>1, <2>1 DEF InOrder, Starts
<1>7. Held' = Held
  BY <1>3, <1>5 DEF Held
<1>8. ASSUME ~overrun PROVE InLine'
  <2>1. InLine
    BY <1>4, <1>8
  <2>2. (WaitingForRoom => StartOf(utterance) = {seg.start})'
    BY <2>1, <1>1, <1>3 DEF InLine, WaitingForRoom
  <2>3. (~teachErr => begun \subseteq settled \cup Held)'
    BY <2>1, <1>1, <1>7 DEF InLine
  <2>4. \A x \in Held' : x < clock'
    BY <2>1, <1>1, <1>7 DEF InLine
  <2> QED
    BY <2>1, <2>2, <2>3, <2>4, <1>3, <1>5, <1>6, <1>8 DEF InLine
<1>9. ASSUME ~overrun, NEW b \in begun, b < Head(finals).start PROVE b \in settled
  <2>1. InLine /\ b \in settled \cup Held
    BY <1>1, <1>4, <1>9 DEF InLine
  <2>2. Head(finals).start \in Nat /\ b \in Nat
    BY <1>1, <1>2, StartsTyped DEF Final
  <2>3. \A x \in Held : Head(finals).start <= x
    <3>1. \A x \in Starts(finals)' : Head(finals).start < x
      BY <1>6, <1>9
    <3>2. \A x \in StartOf(utterance) : Head(finals).start < x
      BY <2>1, <1>5 DEF InLine
    <3> QED
      BY <3>1, <3>2, <2>2, <1>3, <1>5, StartsTyped DEF Held
  <2> QED
    BY <2>1, <2>2, <2>3, <1>9, StartsTyped DEF Held
<1>10. ASSUME ~overrun PROVE Head(finals).start < clock
  BY <1>4, <1>5, <1>10 DEF InLine, Held
<1> QED
  BY <1>1, <1>3, <1>8, <1>9, <1>10 DEF OrderInv

\* A final that failed is kept for a retry, or Teach gives it up.
LEMMA OrderRetained ==
    ASSUME TypeInv, RetryInv, OrderInv, RetainFailedFinal
    PROVE  OrderInv'
<1>1. /\ cur \in Final /\ cur' = None /\ pending = None
      /\ UNCHANGED <<overrun, begun, settled, finals, cancelReq, clock, utterance, ipc, seg>>
  BY DEF RetainFailedFinal, RetryInv, TypeInv, HandsFull
<1>2. pending' = cur \/ (pending' = None /\ teachErr')
  <2>1. CASE Mode[owner] = "teach"
    BY <2>1, Zenon DEF RetainFailedFinal, FinalToRetry
  <2>2. CASE Mode[owner] # "teach"
    BY <2>2, Zenon DEF RetainFailedFinal, FinalToRetry
  <2> QED
    BY <2>1, <2>2
<1>3. StartOf(cur) = {cur.start} /\ StartOf(cur)' = {} /\ StartOf(pending) = {}
  BY <1>1, CaptureAssumption DEF StartOf
<1>4. StartOf(pending)' \subseteq StartOf(cur) /\ (~teachErr' => StartOf(pending)' = StartOf(cur))
  BY <1>2 DEF StartOf
<1>5. /\ Starts(finals)' = Starts(finals) /\ InOrder(finals)' = InOrder(finals)
      /\ StartOf(utterance)' = StartOf(utterance)
  BY <1>1 DEF Starts, InOrder, StartOf
<1>6. Held' \subseteq Held /\ (~teachErr' => Held' = Held)
  BY <1>3, <1>4, <1>5 DEF Held
<1>7. ~teachErr' => ~teachErr
  BY DEF RetainFailedFinal
<1>8. ASSUME ~overrun, ~cancelReq PROVE InLine'
  <2>1. InLine
    BY <1>8 DEF OrderInv
  <2>2. (WaitingForRoom => StartOf(utterance) = {seg.start})'
    BY <2>1, <1>1, <1>5 DEF InLine, WaitingForRoom
  <2>3. (~teachErr => begun \subseteq settled \cup Held)'
    BY <2>1, <1>1, <1>6, <1>7 DEF InLine
  <2>4. \A x \in Held' : x < clock'
    BY <2>1, <1>1, <1>6 DEF InLine
  <2> QED
    BY <2>1, <2>2, <2>3, <2>4, <1>3, <1>4, <1>5 DEF InLine
<1> QED
  BY <1>1, <1>3, <1>8 DEF OrderInv

\* Every step keeps the line.
LEMMA OrderStep ==
    TypeInv /\ ResourceInv /\ RetryInv /\ PartialInv /\ HandInv /\ OrderInv /\ [Next]_vars
        => OrderInv'
<1> SUFFICES ASSUME TypeInv, ResourceInv, RetryInv, PartialInv, HandInv, OrderInv, [Next]_vars
             PROVE  OrderInv'
  OBVIOUS
<1>0. clock \in Nat
  BY StartsTyped
<1>1. CASE UNCHANGED vars
  BY <1>1, OrderKept DEF StartOf, WaitingForRoom
<1>2. ASSUME NEW s \in Sessions, StartSession(s) PROVE OrderInv'
  BY <1>2, OrderKept DEF StartSession, WaitingForRoom, StartOf
<1>3. ASSUME NEW s \in Sessions, StopIdleSession(s) PROVE OrderInv'
  BY <1>3, OrderKept DEF StopIdleSession, WaitingForRoom, StartOf
<1>4. CASE OpenProject
  BY <1>4, OrderKept DEF OpenProject, Reconciled, WaitingForRoom, StartOf
<1>5. ASSUME NEW s \in Sessions, Start(s) PROVE OrderInv'
  BY <1>5, OrderFresh DEF Start, NewCapture, FreshFlags, FreshWorkers, FreshKept,
       FreshHistory, WaitingForRoom
<1>6. ASSUME NEW r \in Requests(owner), RequestStop(r) PROVE OrderInv'
  <2>1. CASE r.kind = "cancel"
    <3>1. cancelReq' /\ UNCHANGED <<overrun, begun, settled, cur, clock>>
      BY <1>6, <2>1 DEF RequestStop
    <3> QED
      BY <3>1 DEF OrderInv, StartOf
  <2>2. CASE r.kind # "cancel" /\ ~RetriesFinal(attempts')
    BY <1>6, <2>2, OrderKept DEF RequestStop, WaitingForRoom, StartOf
  <2>3. CASE r.kind # "cancel" /\ RetriesFinal(attempts')
    <3>1. /\ pending \in Final /\ finals' = <<pending>> \o finals /\ pending' = None
          /\ UNCHANGED <<overrun, begun, settled, cur, clock, cancelReq, teachErr, utterance,
                         ipc, seg>>
      BY <1>6, <2>3 DEF RequestStop, RetriesFinal, Requeued, TypeInv, TypeOK, ResultsOK
    <3>2. cur = None
      BY <2>3 DEF RetriesFinal, HandInv, DecoderAlive
    <3> QED
      BY <3>1, <3>2, OrderRequeued
  <2> QED
    BY <2>1, <2>2, <2>3
<1>7. CASE StartLoadModel
  BY <1>7, OrderKept DEF StartLoadModel, Fault, WaitingForRoom, StartOf
<1>8. CASE StartOpenDevice
  BY <1>8, OrderKept DEF StartOpenDevice, Fault, WaitingForRoom, StartOf
<1>9. CASE StartDevice
  BY <1>9, OrderKept DEF StartDevice, Fault, WaitingForRoom, StartOf
<1>10. CASE AbortStart
  BY <1>10, OrderKept DEF AbortStart, WaitingForRoom, StartOf
<1>11. CASE AbortRelease
  BY <1>11, OrderKept DEF AbortRelease, Fault, WaitingForRoom, StartOf
<1>12. CASE StopDevice
  BY <1>12, OrderKept DEF StopDevice, Fault, WaitingForRoom, StartOf
<1>13. CASE JoinWorkers
  BY <1>13, OrderKept DEF JoinWorkers, Fault, CleanupFails, UnresolvedFinal,
       CanFinalizeTeach, WaitingForRoom, StartOf
<1>14. CASE FinalizeTeach
  BY <1>14, OrderKept DEF FinalizeTeach, Fault, WaitingForRoom, StartOf
<1>15. CASE ReleaseCapture
  BY <1>15, OrderKept DEF ReleaseCapture, StopRaises, Fault, WaitingForRoom, StartOf
<1>16. CASE AudioFrame
  BY <1>16, OrderKept DEF AudioFrame, WaitingForRoom, StartOf
<1>17. CASE InputLost
  BY <1>17, OrderKept DEF InputLost, Fault, WaitingForRoom, StartOf
<1>18. CASE IngestCheck
  BY <1>18, OrderKept DEF IngestCheck, WaitingForRoom, StartOf
<1>19. CASE IngestSilence
  BY <1>19, OrderKept DEF IngestSilence, TakeFrame, WaitingForRoom, StartOf
<1>20. CASE IngestSpeechStart
  BY <1>20, OrderBegun
<1>21. CASE IngestSnapshotFails
  BY <1>21, OrderKept DEF IngestSnapshotFails, TakeFrame, Fault, WaitingForRoom, StartOf
<1>22. CASE IngestSpeech
  <2>1. UNCHANGED <<overrun, begun, settled, cur, pending, finals, cancelReq, teachErr>>
    BY <1>22, Zenon DEF IngestSpeech
  <2>4. clock' = clock + 1
    BY <1>22, Zenon DEF IngestSpeech, TakeFrame
  <2>0. ipc' = "check"
    BY <1>22, Zenon DEF IngestSpeech
  <2>2. CASE UNCHANGED <<utterance, partialReq>>
    BY <2>0, <2>1, <2>4, <2>2, OrderKept DEF WaitingForRoom, StartOf
  <2>3. CASE RequestPartial
    <3>1. utterance \in Open /\ utterance' = [utterance EXCEPT !.gen = @ + 1]
      BY <2>3 DEF RequestPartial, TypeInv, TypeOK, ThreadsOK
    <3>2. utterance' \in Open /\ utterance'.start = utterance.start
      BY <3>1 DEF Open
    <3>3. StartOf(utterance)' = StartOf(utterance)
      BY <3>1, <3>2, CaptureAssumption DEF StartOf
    <3> QED
      BY <2>0, <2>1, <2>4, <3>3, OrderKept, StartsTyped DEF WaitingForRoom
  <2> QED
    BY <1>22, <2>2, <2>3 DEF IngestSpeech
<1>23. CASE IngestSpeechEnd
  BY <1>23, OrderEnqueued
<1>24. CASE IngestMarker
  BY <1>24, OrderKept DEF IngestMarker, WaitingForRoom, StartOf
<1>25. CASE IngestEmpty
  BY <1>25, OrderKept DEF IngestEmpty, WaitingForRoom, StartOf
<1>26. CASE IngestReadStop
  BY <1>26, OrderKept DEF IngestReadStop, WaitingForRoom, StartOf
<1>27. CASE QueueHasRoom
  <2>1. CASE cancelReq
    BY <1>27, <2>1 DEF QueueHasRoom, OrderInv, StartOf
  <2>2. CASE overrun
    BY <1>27, <2>2 DEF QueueHasRoom, OrderInv
  <2>3. CASE ~cancelReq /\ ~overrun
    <3>1. seg \in Final /\ StartOf(utterance) = {seg.start}
      BY <1>27, <2>3 DEF QueueHasRoom, TypeInv, HandsFull, OrderInv, InLine
    <3>2. ~WaitingForRoom'
      BY <1>27 DEF QueueHasRoom, WaitingForRoom
    <3> QED
      BY <1>27, <2>3, <3>1, <3>2, OrderQueued DEF QueueHasRoom
  <2> QED
    BY <2>1, <2>2, <2>3
<1>28. CASE QueueNeverDrains
  BY <1>28 DEF QueueNeverDrains, OrderInv
<1>29. CASE IngestFlush
  BY <1>29, OrderEnqueued
<1>30. CASE IngestExit
  BY <1>30, OrderKept DEF IngestExit, WaitingForRoom, StartOf
<1>31. CASE TakeFinal
  BY <1>31, OrderTaken
<1>32. CASE TakePartial
  BY <1>32, OrderKept DEF TakePartial, WaitingForRoom, StartOf
<1>33. CASE DecoderFinishes
  <2>1. CASE cancelReq
    BY <1>33, <2>1 DEF DecoderFinishes, OrderInv, StartOf
  <2>2. CASE ~cancelReq
    BY <1>33, <2>2, OrderKept DEF DecoderFinishes, NothingToDecode, StartOf, WaitingForRoom
  <2> QED
    BY <2>1, <2>2
<1>34. CASE DecodePartial
  BY <1>34, OrderKept DEF DecodePartial, PartialIsCurrent, WaitingForRoom, StartOf
<1>35. CASE DecodeFinal
  BY <1>35, OrderKept DEF DecodeFinal, Fault, WaitingForRoom, StartOf
<1>36. CASE DiscardCancelled
  BY <1>36 DEF DiscardCancelled, StillWanted, OrderInv, StartOf
<1>37. CASE ResolveBlank
  BY <1>37, OrderSettled DEF ResolveBlank, TypeInv, HandsFull
<1>38. CASE KeepPart
  BY <1>38, OrderSettled DEF KeepPart, TypeInv, HandsFull
<1>39. CASE CommitFinal
  BY <1>39, OrderKept DEF CommitFinal, StillWanted, Utterance, Fault, WaitingForRoom,
       StartOf
<1>40. CASE EmitFinal
  <2>1. CASE dpc' = "next"
    BY <1>40, <2>1, OrderSettled DEF EmitFinal, TypeInv, HandsFull
  <2>2. CASE dpc' = "failed"
    BY <1>40, <2>2, OrderKept DEF EmitFinal, StartOf, WaitingForRoom
  <2> QED
    BY <1>40, <2>1, <2>2 DEF EmitFinal
<1>41. CASE RetainFailedFinal
  BY <1>41, OrderRetained
<1>42. CASE DecoderExit
  BY <1>42, OrderKept DEF DecoderExit, WaitingForRoom, StartOf
<1>43. CASE Crash
  BY <1>43, OrderFresh DEF Crash, Reconciled, Fault, NewCapture, FreshFlags,
       FreshWorkers, FreshKept, FreshHistory, WaitingForRoom
<1> QED
  BY <1>1, <1>2, <1>3, <1>4, <1>5, <1>6, <1>7, <1>8, <1>9, <1>10, <1>11, <1>12, <1>13,
       <1>14, <1>15, <1>16, <1>17, <1>18, <1>19, <1>20, <1>21, <1>22, <1>23, <1>24,
       <1>25, <1>26, <1>27, <1>28, <1>29, <1>30, <1>31, <1>32, <1>33, <1>34, <1>35,
       <1>36, <1>37, <1>38, <1>39, <1>40, <1>41, <1>42, <1>43 DEF Next, ControlRequest,
       ControlStep, Callback, IngestionStep, DecoderStep

-----------------------------------------------------------------------------
(* The invariants hold in every behaviour.                                  *)

\* All the strengthened invariants together.
LEMMA AllInvariants ==
    Spec => [](/\ TypeInv /\ ResourceInv /\ MicrophoneInv /\ CancelDiscards
               /\ RetryInv /\ QueueInv /\ PartialInv /\ SubmissionInv /\ DurableInv
               /\ HandInv /\ OrderInv)
<1> DEFINE AllInv == /\ TypeInv /\ ResourceInv /\ MicrophoneInv /\ CancelDiscards
                     /\ RetryInv /\ QueueInv /\ PartialInv /\ SubmissionInv
                     /\ DurableInv /\ HandInv /\ OrderInv
<1>1. Init => AllInv
  BY TypeInit, InvInit
<1>2. TypeInv /\ [Next]_vars => TypeInv'
  BY SwitchesStep, ThreadsStep, ResultsStep, HandsStep DEF TypeInv, TypeOK
<1>3. AllInv /\ [Next]_vars => AllInv'
  BY <1>2, ResourceStep, MicrophoneStep, CancelStep, RetryStep, QueueStep,
     PartialStep, SubmissionStep, DurableStep, HandStep, OrderStep
<1> QED
  BY <1>1, <1>3, PTL DEF Spec

\* While a worker lives its capture keeps the slot, and the model stays loaded
\* under a decode, whatever times out, fails or is retried (service.py:587-590).
THEOREM HandlesHeld == Spec => []WorkersHoldResources
BY AllInvariants, PTL DEF ResourceInv

\* The microphone captures only for an owner whose session is active: no order of
\* stops, cancels, ends and failures leaves it on (run/service.py:184-196).
THEOREM MicrophoneHasOwner == Spec => []MicrophoneOwned
BY AllInvariants, PTL DEF MicrophoneInv

\* A cancelled capture keeps no text, not even what the decoder was producing when
\* the cancel came (service.py:511-520, 1163-1165).
THEOREM CancelledIsDiscarded == Spec => []CancelDiscards
BY AllInvariants, PTL

\* A retained final's error is never the one that would keep a later stop from
\* decoding it again (service.py:527-535).
THEOREM RetryIsNeverBlocked == Spec => []RetryNeverBlocked
BY AllInvariants, PTL DEF RetryInv

\* The final queue holds at most its bound and one final that was put back, for
\* every bound (service.py:1042-1090, 1322-1333).
THEOREM BacklogIsBounded == Spec => []FinalQueueBounded
BY AllInvariants, PTL DEF QueueInv

\* The partial offered to Live Assist is of the utterance still being spoken
\* (service.py:1119-1158).
THEOREM PartialIsOfOpenUtterance == Spec => []LatestPartialOpen
BY AllInvariants, PTL DEF PartialInv

\* A Teach capture is submitted at most once, over every retry of its stop
\* (service.py:600-616).
THEOREM TeachIsSubmittedOnce == Spec => []TeachSubmitsOnce
BY AllInvariants, PTL DEF SubmissionInv

\* Every final announced by asr.final is in a transcript, across retries and
\* crashes (service.py:1236-1260).
THEOREM AnnouncedFinalsAreDurable == Spec => []AnnouncedIsDurable
BY AllInvariants, PTL DEF DurableInv

\* Every utterance that a capture began is settled, or in the hands of a thread,
\* the queue or the retry slot, until a full queue meets a dead decoder: for every
\* bound of the queue and any number of failures and retries (service.py:1042-1090,
\* 1240-1340).
THEOREM FinalsAreAccounted == Spec => []FinalsAccountedUnlessOverrun
<1>1. OrderInv => FinalsAccountedUnlessOverrun
  BY DEF OrderInv, InLine, FinalsAccountedUnlessOverrun, FinalsAccounted
<1> QED
  BY <1>1, AllInvariants, PTL

\* Finals are settled in the order in which they were spoken, over every failed
\* decode that is put back in front of the queue (service.py:1163-1175, 1322-1340).
THEOREM FinalsAreInOrder == Spec => []NoOvertaking
<1>1. OrderInv => NoOvertaking
  BY DEF OrderInv, NoOvertaking
<1> QED
  BY <1>1, AllInvariants, PTL
=============================================================================
