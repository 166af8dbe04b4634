--------------------------- MODULE LiveTranscript ---------------------------
(***************************************************************************)
(* The live transcript of a meeting, from the messages of the streaming    *)
(* speech provider to the rows of transcript_segments: the revision        *)
(* counter of AssemblyStreamingAdapter, the turns of meetingReducer, the   *)
(* write queue of LiveMeetingRuntimeProvider and the store's upserts.      *)
(*                                                                         *)
(* One session of mixed audio, so no turn is ever dropped as the bleed of  *)
(* another source, and a provider label stands for the speaker that        *)
(* resolveProviderSpeaker makes of it.  The socket delivers in order; the  *)
(* calls to the store are answered in any order.  `seen' is stateRef: what *)
(* React committed last.                                                   *)
(***************************************************************************)
EXTENDS Integers

CONSTANTS
    Turns,
    Speakers,
    NoSpeaker,
    Attempts,       \* tries of retryDurableOperation: 4 in the code
    MaxText,        \* bound: texts the provider sends for a turn
    MaxRelabels,    \* bound: speaker revisions of the provider
    EarlyRelabels,  \* the provider may revise the speaker of an unfinished turn
    MaxFaults,      \* bound: transcript writes that fail or lose their reply
    SpeakerFaults   \* bound: speaker calls that fail

ASSUME TranscriptAssumption ==
    /\ NoSpeaker \notin Speakers
    /\ Attempts \in Nat \ {0} /\ MaxText \in Nat \ {0}
    /\ MaxRelabels \in Nat /\ MaxFaults \in Nat /\ SpeakerFaults \in Nat
    /\ EarlyRelabels \in BOOLEAN

VARIABLES
    sent,       \* the provider's last message for each turn
    relabels, faults, speakerFaults,
    revisions,  \* the adapter's fingerprint and revision of each turn
    active,     \* state.activeTurns of the reducer
    seen,       \* stateRef.current.activeTurns
    observed,   \* speakerObservationsRef, with the speakers made for them
    queued,     \* queuedTurnWritesRef
    writing,    \* the write a turn's drain waits for
    persisted,  \* persistedTurnsRef
    terminal,   \* terminalTurnWriteRevisionsRef
    calls,      \* meetingsSpeakersApply calls in flight
    speakers,   \* the store's speakers
    segment,    \* the store's transcript_segments
    meeting     \* how far stopMeeting is

Provider == <<sent, relabels>>
Adapter == <<revisions>>
Reducer == <<active>>
Queue == <<queued, writing, persisted, terminal>>
Store == <<speakers, segment>>
vars == <<Provider, faults, speakerFaults, Adapter, Reducer, seen, observed, Queue, calls,
          Store, meeting>>

NoTurn == [revision |-> -1, status |-> "none", text |-> 0, speaker |-> NoSpeaker]
NoWrite == [turn |-> NoTurn, observed |-> {}, tries |-> 0]
NoMessage == [text |-> 0, final |-> FALSE, label |-> NoSpeaker]

IsFinal(turn) == turn.status \in {"final", "revised"}

Init ==
    /\ sent = [t \in Turns |-> NoMessage]
    /\ relabels = 0 /\ faults = 0 /\ speakerFaults = 0
    /\ revisions = [t \in Turns |-> [print |-> NoMessage, revision |-> -1]]
    /\ active = [t \in Turns |-> NoTurn] /\ seen = active
    /\ observed = {}
    /\ queued = [t \in Turns |-> NoWrite] /\ writing = queued
    /\ persisted = [t \in Turns |-> -1] /\ terminal = persisted
    /\ calls = {}
    /\ speakers = {}
    /\ segment = [t \in Turns |-> NoTurn]
    /\ meeting = "live"

-----------------------------------------------------------------------------
(***************************************************************************)
(* From the socket to the reducer.                                         *)
(***************************************************************************)
SessionOpen == meeting \in {"live", "terminating"}

\* Fault: the fingerprint leaves out whether the turn is final.
FingerprintFault(message) == [message EXCEPT !.final = FALSE]
\* The fingerprint of a message, as parseTurn serialises it.
Fingerprint(message) == message

\* parseTurn gives a repeated message the revision it had.
RevisionOf(t, message) ==
    IF revisions[t].revision >= 0 /\ revisions[t].print = Fingerprint(message)
      THEN revisions[t].revision
      ELSE revisions[t].revision + 1

\* applyProviderTurn; a message without a label keeps the speaker.
ProviderTurn(previous, revision, message) ==
    IF revision <= previous.revision
      THEN previous
      ELSE [revision |-> revision, text |-> message.text,
            status |-> IF ~message.final THEN "partial"
                       ELSE IF previous = NoTurn THEN "final" ELSE "revised",
            speaker |-> IF message.label = NoSpeaker THEN previous.speaker ELSE message.label]

\* A speaker seen for the first time is sent to the store, which nobody waits for.
Observe(label, updates) ==
    LET new == {label} \ (observed \union {NoSpeaker}) IN
    /\ observed' = observed \union new
    /\ calls' = IF new = {} /\ updates = {} THEN calls
                ELSE calls \union {[speakers |-> observed', updates |-> updates]}

\* The provider sends a turn's next message, or its last one again; parseTurn
\* and the 'turn' case of handleProviderEvent take it.
Message(t, message) ==
    LET revision == RevisionOf(t, message) IN
    /\ SessionOpen
    /\ \/ message = sent[t]
       \/ ~sent[t].final /\ message.text = sent[t].text + 1
       \/ ~sent[t].final /\ message = [sent[t] EXCEPT !.final = TRUE]
    /\ sent' = [sent EXCEPT ![t] = message]
    /\ revisions' = [revisions EXCEPT ![t] =
                       [print |-> Fingerprint(message), revision |-> revision]]
    /\ Observe(message.label, {})
    /\ active' = [active EXCEPT ![t] = ProviderTurn(@, revision, message)]
    /\ UNCHANGED <<relabels, faults, speakerFaults, seen, Queue, Store, meeting>>

Messages == [text : 1..MaxText, final : BOOLEAN, label : Speakers \union {NoSpeaker}]

\* Fault: a relabelled turn keeps its revision.
ReviseSpeakerFault(turn, label, sameWords) == [turn EXCEPT !.speaker = label]

\* applySpeakerRevision followed by turn_relabelled.
ReviseSpeaker(turn, label, sameWords) ==
    IF sameWords /\ turn.speaker = label
      THEN turn
      ELSE [turn EXCEPT !.revision = @ + 1, !.speaker = label,
                        !.status = IF @ = "partial" THEN "partial" ELSE "revised"]

\* The provider revises the speaker of a turn: the 'speaker_revision' case.  The
\* store is told too, but only of a turn React has committed.
SpeakerRevision(t, label, sameWords) ==
    /\ SessionOpen
    /\ relabels < MaxRelabels /\ relabels' = relabels + 1
    /\ sent[t] # NoMessage
    /\ sent[t].final \/ EarlyRelabels
    /\ active' = [active EXCEPT ![t] = ReviseSpeaker(@, label, sameWords)]
    /\ Observe(label, IF seen[t] = NoTurn THEN {} ELSE {<<t, label>>})
    /\ UNCHANGED <<sent, faults, speakerFaults, Adapter, seen, Queue, Store, meeting>>

-----------------------------------------------------------------------------
(***************************************************************************)
(* The write queue.                                                        *)
(***************************************************************************)
Write(t) == [turn |-> active[t], observed |-> observed, tries |-> 0]

MayQueue(t, turn, retryTerminal) ==
    /\ IsFinal(turn)
    /\ persisted[t] < turn.revision
    /\ retryTerminal \/ terminal[t] < turn.revision
    /\ queued[t].turn.revision <= turn.revision

\* Queue the turns of `wanted': an idle drain takes a write at once, a busy one
\* when it is done.
QueueWrites(wanted) ==
    /\ writing' = [t \in Turns |-> IF t \in wanted /\ writing[t] = NoWrite
                                     THEN Write(t) ELSE writing[t]]
    /\ queued' = [t \in Turns |-> IF t \in wanted /\ writing[t] # NoWrite
                                    THEN Write(t) ELSE queued[t]]

\* React commits the reduced state: stateRef follows it and the effect queues
\* every turn that is not partial.
Commit ==
    /\ seen # active
    /\ seen' = active
    /\ QueueWrites({t \in Turns : MayQueue(t, active[t], FALSE)})
    /\ UNCHANGED <<Provider, faults, speakerFaults, Adapter, Reducer, observed,
                   persisted, terminal, calls, Store, meeting>>

\* The drain goes on with what is queued, unless revision `done' covers it.
DrainNext(t, done) ==
    /\ writing' = [writing EXCEPT ![t] = IF queued[t].turn.revision > done
                                           THEN queued[t] ELSE NoWrite]
    /\ queued' = [queued EXCEPT ![t] = NoWrite]

\* ensure_speaker, for the segment and for every observation of the session.
SpeakersKnown(write) == write.observed \union ({write.turn.speaker} \ {NoSpeaker}) \subseteq speakers

\* upsert_transcript_segment: only a higher revision is written.
Upserted(row, turn) == IF turn.revision <= row.revision THEN row ELSE turn

\* Fault: the renderer's own revision is sent.
PersistedRevisionFault(t) == active[t].revision
PersistedRevision(t) == writing[t].turn.revision

\* The store applies the write and the drain learns of it.
WriteSucceeds(t) ==
    /\ writing[t] # NoWrite /\ SpeakersKnown(writing[t])
    /\ segment' = [segment EXCEPT ![t] = Upserted(@, writing[t].turn)]
    /\ persisted' = [persisted EXCEPT ![t] = PersistedRevision(t)]
    /\ terminal' = [terminal EXCEPT ![t] = -1]
    /\ DrainNext(t, PersistedRevision(t))
    /\ UNCHANGED <<Provider, faults, speakerFaults, Adapter, Reducer, seen, observed,
                   calls, speakers, meeting>>

\* The tries span 1.7 seconds: before the last one the speaker calls in flight
\* are answered.
SpeakersAnswered(t) == writing[t].tries + 1 < Attempts \/ calls = {}

\* One more try of retryDurableOperation, or the revision is given up.
Retry(t) ==
    LET tries == writing[t].tries + 1 IN
    IF tries < Attempts
      THEN /\ writing' = [writing EXCEPT ![t].tries = tries]
           /\ UNCHANGED <<queued, terminal>>
      ELSE /\ DrainNext(t, persisted[t])
           /\ terminal' = [terminal EXCEPT ![t] = writing[t].turn.revision]

\* The call fails, or is applied and its reply is lost.
WriteFaults(t, applied) ==
    /\ writing[t] # NoWrite
    /\ faults < MaxFaults /\ faults' = faults + 1
    /\ applied => SpeakersKnown(writing[t])
    /\ segment' = IF applied
                    THEN [segment EXCEPT ![t] = Upserted(@, writing[t].turn)]
                    ELSE segment
    /\ SpeakersAnswered(t) /\ Retry(t)
    /\ UNCHANGED <<Provider, speakerFaults, Adapter, Reducer, seen, observed,
                   persisted, calls, speakers, meeting>>

\* The store does not know a speaker yet.
WriteRefused(t) ==
    /\ writing[t] # NoWrite /\ ~SpeakersKnown(writing[t])
    /\ SpeakersAnswered(t) /\ Retry(t)
    /\ UNCHANGED <<Provider, faults, speakerFaults, Adapter, Reducer, seen, observed,
                   persisted, calls, Store, meeting>>

\* apply_speakers: one transaction, which a missing segment aborts.
SpeakersApplied(call) ==
    LET found == \A update \in call.updates : segment[update[1]] # NoTurn IN
    /\ call \in calls
    /\ calls' = calls \ {call}
    /\ speakers' = IF found THEN speakers \union call.speakers ELSE speakers
    /\ segment' = IF ~found THEN segment
                  ELSE [t \in Turns |->
                          IF \E update \in call.updates : update[1] = t
                            THEN [segment[t] EXCEPT !.speaker =
                                    (CHOOSE update \in call.updates : update[1] = t)[2]]
                            ELSE segment[t]]
    /\ UNCHANGED <<Provider, faults, speakerFaults, Adapter, Reducer, seen, observed, Queue,
                   meeting>>

\* The call fails; nothing retries it.
SpeakersLost(call) ==
    /\ call \in calls
    /\ speakerFaults < SpeakerFaults /\ speakerFaults' = speakerFaults + 1
    /\ calls' = calls \ {call}
    /\ UNCHANGED <<Provider, faults, Adapter, Reducer, seen, observed, Queue, Store, meeting>>

-----------------------------------------------------------------------------
(***************************************************************************)
(* stopMeeting.                                                            *)
(***************************************************************************)
Drained == \A t \in Turns : writing[t] = NoWrite
Unresolved == {t \in Turns : IsFinal(seen[t]) /\ persisted[t] < seen[t].revision}

Stop ==
    /\ meeting = "live"
    /\ meeting' = "terminating"
    /\ UNCHANGED <<Provider, faults, speakerFaults, Adapter, Reducer, seen, observed, Queue,
                   calls, Store>>

\* The session has ended or the wait for it has; one turn of the event loop lets
\* React commit.
Terminated ==
    /\ meeting = "terminating" /\ seen = active
    /\ meeting' = "settling"
    /\ UNCHANGED <<Provider, faults, speakerFaults, Adapter, Reducer, seen, observed, Queue,
                   calls, Store>>

\* Fault: the terminal transition is not tried again.
RetryTerminalFault == FALSE
RetryTerminal == TRUE

\* flushFinalTranscriptWrites, after the pending writes: what is unresolved is
\* queued once more.
Flush ==
    /\ meeting = "settling" /\ Drained
    /\ QueueWrites({t \in Unresolved : MayQueue(t, seen[t], RetryTerminal)})
    /\ terminal' = [t \in Turns |->
                      IF t \in Unresolved /\ RetryTerminal THEN -1 ELSE terminal[t]]
    /\ meeting' = "flushing"
    /\ UNCHANGED <<Provider, faults, speakerFaults, Adapter, Reducer, seen, observed,
                   persisted, calls, Store>>

Flushed ==
    /\ meeting = "flushing" /\ Drained
    /\ meeting' = "stopped"
    /\ UNCHANGED <<Provider, faults, speakerFaults, Adapter, Reducer, seen, observed, Queue,
                   calls, Store>>

-----------------------------------------------------------------------------
Sending ==
    \/ \E t \in Turns, message \in Messages : Message(t, message)
    \/ \E t \in Turns, label \in Speakers, sameWords \in BOOLEAN :
         SpeakerRevision(t, label, sameWords)

Writing ==
    \E t \in Turns :
      \/ WriteSucceeds(t) \/ WriteRefused(t)
      \/ \E applied \in BOOLEAN : WriteFaults(t, applied)

Next ==
    \/ Sending \/ Commit \/ Writing
    \/ \E call \in calls : SpeakersApplied(call) \/ SpeakersLost(call)
    \/ Stop \/ Terminated \/ Flush \/ Flushed

Spec == Init /\ [][Next]_vars

\* React renders, calls are answered and stopMeeting goes on; the provider and
\* the user owe nothing.
Fairness ==
    /\ WF_vars(Commit) /\ WF_vars(Terminated) /\ WF_vars(Flush) /\ WF_vars(Flushed)
    /\ \A t \in Turns : WF_vars(WriteSucceeds(t) \/ WriteRefused(t))
    /\ WF_vars(\E call \in calls : SpeakersApplied(call))

FairSpec == Spec /\ Fairness

-----------------------------------------------------------------------------
MaxRevision == 2 * MaxText + MaxRelabels

Turn == [revision : -1..MaxRevision, status : {"none", "partial", "final", "revised"},
         text : 0..MaxText, speaker : Speakers \union {NoSpeaker}]
QueuedWrite == [turn : Turn, observed : SUBSET Speakers, tries : 0..Attempts - 1]

\* Every variable has its type: among others a message that is sent again does
\* not make a new revision (parseTurn), so revisions are bounded by the messages.
TranscriptTypeOK ==
    /\ sent \in [Turns -> Messages \union {NoMessage}]
    /\ active \in [Turns -> Turn] /\ seen \in [Turns -> Turn] /\ segment \in [Turns -> Turn]
    /\ queued \in [Turns -> QueuedWrite] /\ writing \in [Turns -> QueuedWrite]
    /\ persisted \in [Turns -> -1..MaxRevision] /\ terminal \in [Turns -> -1..MaxRevision]
    /\ observed \subseteq Speakers /\ speakers \subseteq observed
    /\ calls \subseteq [speakers : SUBSET Speakers, updates : SUBSET (Turns \X Speakers)]
    /\ meeting \in {"live", "terminating", "settling", "flushing", "stopped"}

\* Once the provider has finished a turn, the reducer shows its last text and
\* shows it as final (applyProviderTurn: only stale revisions are ignored).
FinalTextShown ==
    \A t \in Turns : sent[t].final => IsFinal(active[t]) /\ active[t].text = sent[t].text

\* When stopMeeting has flushed the transcript, the store has every finished
\* turn at the revision and with the text that are shown.
FinalTurnsSaved ==
    meeting = "stopped" =>
      \A t \in Turns : IsFinal(active[t]) => /\ segment[t].revision = active[t].revision
                                             /\ segment[t].text = active[t].text

\* persistedTurnsRef never claims a revision the store does not have: a write
\* that was skipped because of it was not needed.
PersistedIsStored == \A t \in Turns : persisted[t] <= segment[t].revision

\* When nothing is on its way, a stored turn has the speaker it is shown with,
\* although two calls, the turn's write and the speaker update, both set it.
SpeakersAgree ==
    Drained /\ calls = {} /\ seen = active =>
      \A t \in Turns : persisted[t] = active[t].revision /\ segment[t] # NoTurn =>
        segment[t].speaker = active[t].speaker

\* The state has its shapes and the memory of stored revisions is sound (the parts
\* above).
TranscriptInv == TranscriptTypeOK /\ PersistedIsStored

\* A stop ends, and with every finished turn stored, whatever was given up before,
\* provided the store knows the speakers of the session: a speaker call that was
\* refused or lost is not made again (flushFinalTranscriptWrites waits for the writes
\* and retries the failed ones).
StopSavesTranscript ==
    meeting = "terminating" ~> /\ meeting = "stopped"
                               /\ observed \subseteq speakers => FinalTurnsSaved
=============================================================================
