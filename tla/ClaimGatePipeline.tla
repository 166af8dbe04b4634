------------------------- MODULE ClaimGatePipeline -------------------------
(***************************************************************************)
(* The automatic claim gate of a live meeting end to end, as the runtime   *)
(* provider of ui/desktop/src/live/LiveMeetingRuntimeProvider.tsx connects *)
(* it: finalized turns are written to the store one by one and then handed *)
(* to the ClaimScheduler; its beginBatch and commitBatch are requests to   *)
(* the store; a recovery pass reads the artifact of the meeting every      *)
(* minute and hands pending batches and segments to the scheduler again.   *)
(*                                                                         *)
(* A request and its reply are separate steps.  persistClaimVersions       *)
(* applies the transaction and then reads the meeting, so its promise can  *)
(* reject although the transaction was applied.  Unmounting the provider   *)
(* (a reload or a crash of the window) loses all of its memory, while a    *)
(* request on its way may still reach the store.                           *)
(***************************************************************************)
EXTENDS ClaimGateStore, ClaimScheduler, SequencesExt

CONSTANTS
    MaxRemounts,   \* bound on how often the provider is unmounted
    MeetingShown   \* the window shows the meeting while it is recorded

ASSUME PipelineOptions == MaxRemounts \in Nat /\ MeetingShown \in BOOLEAN

VARIABLES
    served,     \* what the store has done with the scheduler's current request
    orphan,     \* a request of a scheduler that is gone, not served yet
    known,      \* the keys of the claims that listClaims returns
    live,       \* state.activeTurns: the newest revision of each turn
    writes,     \* turn writes in progress (startTurnWriteDrain)
    written,    \* those of them whose transaction is applied
    persisted,  \* persistedTurnsRef: highest revision whose write resolved
    terminal,   \* terminalTurnWriteRevisionsRef: revision whose write gave up
    relabels,   \* applySpeakers calls on their way
    pass,       \* the recovery pass and the part of the artifact it has read
    remounts    \* number of unmounts; speech is captured only before the first

schedVars == <<sched, served, known>>
producerVars == <<live, writes, written, persisted, terminal, relabels>>
vars == <<storeVars, schedVars, orphan, producerVars, pass, remounts>>

ClaimKeys == {c.key : c \in claims}
NoRequest == [phase |-> "idle", turns |-> {}, accepted |-> {}]
NoPass == [stage |-> "idle", turns |-> {}, batches |-> {}, claims |-> {}]

\* listClaims: the claims of the meeting the window shows are those of the last
\* commit; for any other meeting they are those of the last artifact received.
Listed(fromArtifact) == IF MeetingShown /\ remounts = 0 THEN known ELSE fromArtifact

\* The scheduler takes a step; a new phase is a new request.
SchedStep(S) ==
    /\ sched' = S
    /\ served' = IF S.phase = sched.phase THEN served ELSE "no"

PipelineInit ==
    /\ StoreInit
    /\ sched \in {NewScheduler(limit) : limit \in GateLimits}
    /\ served = "no"
    /\ orphan = NoRequest
    /\ known = {}
    /\ live = [s \in Segments |-> [seg |-> s, rev |-> NoRevision, speaker |-> segment[s].speaker]]
    /\ writes = {} /\ written = {}
    /\ persisted = [s \in Segments |-> NoRevision]
    /\ terminal = [s \in Segments |-> NoRevision]
    /\ relabels = {}
    /\ pass = NoPass
    /\ remounts = 0

-----------------------------------------------------------------------------
(***************************************************************************)
(* The producer.  A provider event finalizes a turn or revises it; a       *)
(* speaker_revision also raises the revision and posts the new speaker to  *)
(* the store without waiting for the reply.                                *)
(***************************************************************************)
Revise(s, k) == live' = [live EXCEPT ![s].rev = @ + 1, ![s].speaker = k]

TurnEvent(s, k) ==
    /\ remounts = 0 /\ live[s].rev < MaxRevision
    /\ Revise(s, k)
    /\ UNCHANGED <<storeVars, schedVars, orphan, writes, written, persisted, terminal,
                   relabels, pass, remounts>>

SpeakerRevision(s, k) ==
    /\ remounts = 0 /\ live[s].rev \in 0 .. MaxRevision - 1 /\ live[s].speaker # k
    /\ Revise(s, k)
    /\ relabels' = relabels \cup {<<s, k>>}
    /\ UNCHANGED <<storeVars, schedVars, orphan, writes, written, persisted, terminal,
                   pass, remounts>>

\* The update of a segment that has no row yet is refused (NotFound).
RelabelArrives(s, k) ==
    /\ <<s, k>> \in relabels
    /\ relabels' = relabels \ {<<s, k>>}
    /\ IF segment[s].rev # NoRevision THEN ApplySpeakers(s, k) ELSE UNCHANGED storeVars
    /\ UNCHANGED <<schedVars, orphan, live, writes, written, persisted, terminal,
                   pass, remounts>>

RelabelLost(s, k) ==
    /\ <<s, k>> \in relabels
    /\ relabels' = relabels \ {<<s, k>>}
    /\ UNCHANGED <<storeVars, schedVars, orphan, live, writes, written, persisted, terminal,
                   pass, remounts>>

(***************************************************************************)
(* startTurnWriteDrain.  One write per segment is in progress; the next    *)
(* one takes the newest revision, so a revision overtaken while it waited  *)
(* is never written.  A revision whose write gave up is tried again only   *)
(* by flushFinalTranscriptWrites, when the meeting is stopped.             *)
(***************************************************************************)
Idle(s) == \A t \in writes : t.seg # s

StartWrite(s) ==
    /\ remounts = 0 /\ Idle(s)
    /\ live[s].rev > persisted[s]
    /\ live[s].rev > terminal[s]
    /\ writes' = writes \cup {live[s]}
    /\ UNCHANGED <<storeVars, schedVars, orphan, live, written, persisted, terminal,
                   relabels, pass, remounts>>

RetryTerminalWrite(s) ==
    /\ remounts = 0 /\ Idle(s)
    /\ live[s].rev > persisted[s]
    /\ live[s].rev <= terminal[s]
    /\ terminal' = [terminal EXCEPT ![s] = NoRevision]
    /\ writes' = writes \cup {live[s]}
    /\ UNCHANGED <<storeVars, schedVars, orphan, live, written, persisted,
                   relabels, pass, remounts>>

\* The transaction; a revision that is stored already is a duplicate.
WriteApplies(t) ==
    /\ t \in writes \ written
    /\ written' = written \cup {t}
    /\ IF t.rev > segment[t.seg].rev THEN ApplyTranscript(t, TRUE) ELSE UNCHANGED storeVars
    /\ UNCHANGED <<schedVars, orphan, live, writes, persisted, terminal, relabels,
                   pass, remounts>>

WriteResolves(t) ==
    /\ remounts = 0 /\ t \in written
    /\ writes' = writes \ {t} /\ written' = written \ {t}
    /\ persisted' = [persisted EXCEPT ![t.seg] = t.rev]
    /\ terminal' = [terminal EXCEPT ![t.seg] = NoRevision]
    /\ SchedStep(AddFinalTurn(sched, t, known))
    /\ UNCHANGED <<storeVars, known, orphan, live, relabels, pass, remounts>>

\* retryDurableOperation gives up, whether or not an attempt was applied.
WriteGivesUp(t) ==
    /\ remounts = 0 /\ t \in writes
    /\ writes' = writes \ {t} /\ written' = written \ {t}
    /\ terminal' = [terminal EXCEPT ![t.seg] = t.rev]
    /\ UNCHANGED <<storeVars, schedVars, orphan, live, persisted, relabels, pass, remounts>>

-----------------------------------------------------------------------------
(***************************************************************************)
(* The scheduler's callbacks.                                              *)
(***************************************************************************)
TimerFires ==
    /\ sched.timer
    /\ SchedStep(FlushTimer(sched, known))
    /\ UNCHANGED <<storeVars, known, orphan, producerVars, pass, remounts>>

\* The store handles the request of beginBatch or commitBatch.
ServeBegin ==
    /\ sched.phase = "begin" /\ served = "no"
    /\ \/ BeginBatch(sched.batch.turns) /\ served' = "applied"
       \/ ~BeginAccepted(sched.batch.turns) /\ served' = "refused" /\ UNCHANGED storeVars
    /\ UNCHANGED <<sched, known, orphan, producerVars, pass, remounts>>

ServeCommit ==
    /\ sched.phase = "commit" /\ served = "no"
    /\ \/ CommitBatch(sched.batch.turns, sched.accepted) /\ served' = "applied"
       \/ /\ ~CommitAccepted(sched.batch.turns, sched.accepted)
          /\ served' = "refused" /\ UNCHANGED storeVars
    /\ UNCHANGED <<sched, known, orphan, producerVars, pass, remounts>>

\* beginBatch settles.  A resolved one brings the artifact of the meeting.
BeginSettles(ok) ==
    /\ sched.phase = "begin"
    /\ ok => served = "applied"
    /\ known' = IF ok THEN Listed(ClaimKeys) ELSE known
    /\ SchedStep(BeginSettled(sched, ok, known'))
    /\ UNCHANGED <<storeVars, orphan, producerVars, pass, remounts>>

\* detect settles, see detectClaimCandidatesWithLocalFallback.
DetectResolves ==
    /\ sched.phase = "detect"
    /\ \E candidates \in CandidateSets, counted \in BOOLEAN :
           \E accepted \in AcceptedCandidates(sched, candidates) :
               /\ counted \/ candidates # {}
               /\ SchedStep(Detected(sched, candidates, accepted, counted))
    /\ UNCHANGED <<storeVars, known, orphan, producerVars, pass, remounts>>

DetectRejects ==
    /\ sched.phase = "detect"
    /\ SchedStep(DetectFailed(sched))
    /\ UNCHANGED <<storeVars, known, orphan, producerVars, pass, remounts>>

CommitSettles(ok) ==
    /\ sched.phase = "commit"
    /\ ok => served = "applied"
    /\ known' = IF ok THEN ClaimKeys ELSE known
    /\ SchedStep(CommitSettled(sched, ok))
    /\ UNCHANGED <<storeVars, orphan, producerVars, pass, remounts>>

GateCallLeavesWindow ==
    /\ sched.gateCalls > 0
    /\ SchedStep(GateCallExpires(sched))
    /\ UNCHANGED <<storeVars, known, orphan, producerVars, pass, remounts>>

\* The burst window and the hour are not told apart here.
ClaimLeavesWindow ==
    /\ sched.hourClaims > 0
    /\ SchedStep(HourClaimExpires(BurstClaimExpires(sched)))
    /\ UNCHANGED <<storeVars, known, orphan, producerVars, pass, remounts>>

-----------------------------------------------------------------------------
(***************************************************************************)
(* The recovery pass.  get_artifact reads the tables one after another     *)
(* without a transaction: the segment rows, the pending segments, the      *)
(* pending batches.  recoverClaimGateArtifact runs later, in one event; it  *)
(* takes the turns of the pending segments only.                           *)
(***************************************************************************)
ReadTurns ==
    /\ pass.stage = "idle"
    /\ pass' = [pass EXCEPT !.stage = "turns",
                            !.turns = {[seg |-> s, rev |-> segment[s].rev,
                                        speaker |-> segment[s].speaker] :
                                       s \in {q \in Segments : segment[q].rev # NoRevision}}]
    /\ UNCHANGED <<storeVars, schedVars, orphan, producerVars, remounts>>

ReadPendingSegments ==
    /\ pass.stage = "turns"
    /\ pass' = [pass EXCEPT !.stage = "segments", !.claims = Listed(ClaimKeys),
                            !.turns = {t \in pass.turns : t.seg \in PendingSegments}]
    /\ UNCHANGED <<storeVars, schedVars, orphan, producerVars, remounts>>

ReadPendingBatches ==
    /\ pass.stage = "segments"
    /\ pass' = [pass EXCEPT !.stage = "batches", !.batches = openBatches]
    /\ UNCHANGED <<storeVars, schedVars, orphan, producerVars, remounts>>

\* createScheduler: a new scheduler lists the claims of this artifact; an existing one
\* only gets the limit again.
SchedulerFor(limit) ==
    IF sched.disposed THEN NewScheduler(limit) ELSE SetMaxGateCallsPerHour(sched, limit)

\* The batches come in any order, the turns in that of the transcript.
InOrder(turns) == \A i, j \in DOMAIN turns : i < j => Before(turns[i], turns[j])

RecoverClaimGateArtifact(limit, batches, turns, listed) ==
    LET recovered == FoldLeft(RecoverBatch, SchedulerFor(limit), batches)
    IN  FoldLeft(LAMBDA S, t : AddFinalTurn(S, t, listed), recovered, turns)

FinishPass(limit) ==
    /\ pass.stage = "batches"
    /\ pass' = NoPass
    /\ known' = Listed(pass.claims)
    /\ \E batches \in SetToSeqs(pass.batches), turns \in SetToSeqs(pass.turns) :
           /\ InOrder(turns)
           /\ SchedStep(RecoverClaimGateArtifact(limit, batches, turns, known'))
    /\ UNCHANGED <<storeVars, orphan, producerVars, remounts>>

-----------------------------------------------------------------------------
(***************************************************************************)
(* The provider is unmounted: its schedulers are disposed and dropped, the *)
(* pass is cancelled, writes and relabels on their way lose their caller.  *)
(***************************************************************************)
Remount ==
    /\ remounts < MaxRemounts
    /\ remounts' = remounts + 1
    /\ \/ orphan' = IF sched.phase \in {"begin", "commit"} /\ served = "no"
                    THEN [phase |-> sched.phase, turns |-> sched.batch.turns,
                          accepted |-> sched.accepted]
                    ELSE orphan
       \/ orphan' = NoRequest
    /\ SchedStep(Settle(Dispose(NewScheduler(sched.maxGateCalls))))
    /\ pass' = NoPass
    /\ known' = {}
    /\ UNCHANGED <<storeVars, producerVars>>

\* The request of a scheduler that is gone reaches the store.
OrphanArrives ==
    /\ orphan # NoRequest
    /\ orphan' = NoRequest
    /\ \/ orphan.phase = "begin" /\ BeginBatch(orphan.turns)
       \/ orphan.phase = "commit" /\ CommitBatch(orphan.turns, orphan.accepted)
       \/ UNCHANGED storeVars
    /\ UNCHANGED <<schedVars, producerVars, pass, remounts>>

-----------------------------------------------------------------------------
Produce ==
    \E s \in Segments :
        \/ \E k \in Speakers : \/ TurnEvent(s, k) \/ SpeakerRevision(s, k)
                               \/ RelabelArrives(s, k) \/ RelabelLost(s, k)
        \/ StartWrite(s) \/ RetryTerminalWrite(s)

Write == \E t \in writes : WriteApplies(t) \/ WriteResolves(t) \/ WriteGivesUp(t)

Serve == ServeBegin \/ ServeCommit \/ OrphanArrives

Schedule ==
    \/ TimerFires
    \/ \E ok \in BOOLEAN : BeginSettles(ok)
    \/ DetectResolves \/ DetectRejects
    \/ \E ok \in BOOLEAN : CommitSettles(ok)
    \/ GateCallLeavesWindow \/ ClaimLeavesWindow

RecoveryPass ==
    \/ ReadTurns \/ ReadPendingSegments \/ ReadPendingBatches
    \/ \E limit \in GateLimits : FinishPass(limit)

PipelineNext == Produce \/ Write \/ Serve \/ Schedule \/ RecoveryPass \/ Remount

(***************************************************************************)
(* Fairness: timers fire, requests are served and settle, entries leave    *)
(* their window, and the recovery pass runs again and again.  Detection    *)
(* and a served request do not fail forever.  Nothing is assumed of the    *)
(* producer, and the provider need not be unmounted.                       *)
(***************************************************************************)
PipelineFairness ==
    /\ WF_vars(TimerFires)
    /\ SF_vars(ServeBegin) /\ SF_vars(ServeCommit)
    /\ WF_vars(BeginSettles(FALSE) /\ served = "refused")
    /\ WF_vars(CommitSettles(FALSE) /\ served = "refused")
    /\ SF_vars(BeginSettles(TRUE))
    /\ SF_vars(DetectResolves)
    /\ SF_vars(CommitSettles(TRUE))
    /\ WF_vars(GateCallLeavesWindow)
    /\ WF_vars(RecoveryPass)

PipelineSpec == PipelineInit /\ [][PipelineNext]_vars
FairPipelineSpec == PipelineSpec /\ PipelineFairness

-----------------------------------------------------------------------------
PipelineTypeOK ==
    /\ StoreTypeOK
    /\ sched.pendingTurns \subseteq Turn
    /\ QueuedBatches(sched) \cup {sched.batch} \subseteq Batch
    /\ sched.phase \in {"idle", "begin", "detect", "commit"}
    /\ served \in {"no", "applied", "refused"}
    /\ orphan.turns \subseteq Turn
    /\ known \subseteq Keys
    /\ live \in [Segments -> [seg : Segments, rev : RevisionOrNone, speaker : Speakers]]
    /\ written \subseteq writes /\ writes \subseteq Turn
    /\ persisted \in [Segments -> RevisionOrNone]
    /\ terminal \in [Segments -> RevisionOrNone]
    /\ pass.turns \subseteq Turn
    /\ remounts \in 0 .. MaxRemounts

(***************************************************************************)
(* A batch the scheduler takes for begun is in the store with exactly the  *)
(* turns the scheduler will send to detection, through lost replies,       *)
(* recovery from a stale artifact and unmounts: detection never runs on a  *)
(* grouping that a crash would lose or that the store has otherwise.       *)
(***************************************************************************)
BegunIsDurable ==
    \A b \in QueuedBatches(sched) \cup {sched.batch} : b.begun => b.turns \in StoredBatches

(***************************************************************************)
(* A revision the scheduler ignores as completed is in a completed batch   *)
(* of the store, so the memory that makes hasTurnRevision skip replays     *)
(* never hides a revision that still has to be gated.                      *)
(***************************************************************************)
CompletedIsProcessed ==
    \A r \in DOMAIN sched.completed : \E b \in doneBatches : r \in Inventory(b)

(***************************************************************************)
(* The state has its type, and the memory of completed revisions is sound. *)
(***************************************************************************)
PipelineInv == PipelineTypeOK /\ CompletedIsProcessed

(***************************************************************************)
(* Every revision the store queues is eventually gated, or a later one of  *)
(* its segment is: no interleaving of writes, failures, lost replies,      *)
(* recovery passes and unmounts stops the gate for good.                   *)
(***************************************************************************)
QueuedIsEventuallyGated ==
    \A s \in Segments, r \in Revisions : queued[s] = r ~> processed[s] >= r

(***************************************************************************)
(* A committed revision is not gated again: flush starts no batch with a   *)
(* revision that completedTurnRevisions holds.                             *)
(***************************************************************************)
CommittedIsNotGatedAgain ==
    [][(sched.phase = "idle" /\ sched'.phase # "idle") =>
           Inventory(sched'.batch.turns) \cap DOMAIN sched.completed = {}]_vars
=============================================================================
