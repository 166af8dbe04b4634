--------------------------- MODULE ClaimGateStore ---------------------------
(***************************************************************************)
(* The durable side of the automatic claim gate of one meeting: the SQLite *)
(* tables transcript_segments, claim_gate_segments, claim_gate_batches,    *)
(* claim_gate_batch_segments and claims, and the transactions of           *)
(* crates/goose/src/meetings/store.rs that write them.  Each of these runs *)
(* under BEGIN IMMEDIATE, so one transaction is one atomic action; a       *)
(* transaction that returns an error is rolled back and changes nothing.   *)
(***************************************************************************)
EXTENDS ClaimGateTypes

VARIABLES
    segment,       \* transcript_segments: revision, speaker, final/revised state
    queued,        \* claim_gate_segments.queued_revision_number
    processed,     \* claim_gate_segments.processed_revision_number
    openBatches,   \* claim_gate_batches with processed_at_ms IS NULL
    doneBatches,   \* claim_gate_batches with processed_at_ms set
    claims         \* automatic claims and their first version

storeVars == <<segment, queued, processed, openBatches, doneBatches, claims>>

SegmentRow == [rev : RevisionOrNone, speaker : Speakers, final : BOOLEAN]
Claim == [batch : SUBSET (Segments \X Revisions), key : Keys, wording : Wordings]

StoredBatches == openBatches \cup doneBatches
StoredIds == {Inventory(b) : b \in StoredBatches}

-----------------------------------------------------------------------------
StoreInit ==
    /\ segment \in [Segments -> [rev : {NoRevision}, speaker : Speakers, final : {FALSE}]]
    /\ queued = [s \in Segments |-> NoRevision]
    /\ processed = [s \in Segments |-> NoRevision]
    /\ openBatches = {}
    /\ doneBatches = {}
    /\ claims = {}

\* Operators named ...Fault are the definition that follows them with a plausible
\* mistake; no specification uses them.  They show that a property can fail.
EnqueueSegmentFault(t, final) ==
    IF final THEN [queued EXCEPT ![t.seg] = t.rev + 1] ELSE queued

(***************************************************************************)
(* apply_transcript with one segment.  Only a strictly higher revision is  *)
(* written (a lower or equal one is Duplicate or StaleIgnored), and only a *)
(* final or revised segment is enqueued for the gate, again only upwards.  *)
(***************************************************************************)
UpsertSegment(t, final) ==
    [segment EXCEPT ![t.seg] = [rev |-> t.rev, speaker |-> t.speaker, final |-> final]]

EnqueueSegment(t, final) ==
    IF final /\ t.rev > queued[t.seg] THEN [queued EXCEPT ![t.seg] = t.rev] ELSE queued

ApplyTranscript(t, final) ==
    /\ t.rev > segment[t.seg].rev
    /\ segment' = UpsertSegment(t, final)
    /\ queued' = EnqueueSegment(t, final)
    /\ UNCHANGED <<processed, openBatches, doneBatches, claims>>

\* apply_speakers with one segment update: the speaker changes, the revision does not.
ApplySpeakers(s, k) ==
    /\ segment[s].rev # NoRevision
    /\ segment' = [segment EXCEPT ![s].speaker = k]
    /\ UNCHANGED <<queued, processed, openBatches, doneBatches, claims>>

(***************************************************************************)
(* begin_claim_gate_batch.                                                 *)
(***************************************************************************)
\* validate_claims_request: a batch is not empty and names a segment once.
ValidBatch(turns) ==
    /\ turns # {}
    /\ \A t, u \in turns : t.seg = u.seg => t = u

\* Fault: without the lock of open batches.
TurnAdmissibleUnlockedFault(t) ==
    /\ segment[t.seg].final
    /\ t.rev <= queued[t.seg]
    /\ processed[t.seg] < t.rev
    /\ t.rev = segment[t.seg].rev => t.speaker = segment[t.seg].speaker

\* The revision is queued and not processed yet, the snapshot equals the row
\* when the row still has that revision, and no open batch holds it.
TurnAdmissible(t) ==
    /\ segment[t.seg].final
    /\ queued[t.seg] # NoRevision
    /\ t.rev <= queued[t.seg]
    /\ processed[t.seg] < t.rev
    /\ t.rev = segment[t.seg].rev => t.speaker = segment[t.seg].speaker
    /\ \A b \in openBatches : \A u \in b : TurnRevision(u) # TurnRevision(t)

\* A known id is a replay and must carry the stored turns.
BeginAccepted(turns) ==
    /\ ValidBatch(turns)
    /\ IF Inventory(turns) \in StoredIds
       THEN turns \in StoredBatches
       ELSE \A t \in turns : TurnAdmissible(t)

\* Fault: a replay opens a completed batch again.
BeginBatchReopenFault(turns) ==
    /\ BeginAccepted(turns)
    /\ openBatches' = openBatches \cup {turns}
    /\ doneBatches' = doneBatches \ {turns}
    /\ UNCHANGED <<segment, queued, processed, claims>>

BeginBatch(turns) ==
    /\ BeginAccepted(turns)
    /\ openBatches' = IF turns \in StoredBatches THEN openBatches
                                                 ELSE openBatches \cup {turns}
    /\ UNCHANGED <<segment, queued, processed, doneBatches, claims>>

(***************************************************************************)
(* The commit of a batch: apply_claims with the claim versions the         *)
(* detection produced and the id of the batch to complete, in one          *)
(* transaction.  automaticClaimIdentity derives the claim id from the      *)
(* batch id and the key.  A claim that exists under that id must have the  *)
(* same content hash; a new one whose key another claim has violates       *)
(* idx_claims_duplicate_key.  Either failure aborts the transaction.       *)
(***************************************************************************)
ClaimOf(turns, c) ==
    [batch |-> Inventory(turns), key |-> c.key, wording |-> c.wording]

\* apply_claim_version, for one claim against the claims table
ClaimAccepted(claim) ==
    \A existing \in claims : existing.key = claim.key => existing = claim

\* Fault: the last completed revision wins.
ProcessedAfterFault(turns) ==
    [s \in Segments |->
        IF \E t \in turns : t.seg = s THEN (CHOOSE t \in turns : t.seg = s).rev
                                      ELSE processed[s]]

\* complete_claim_gate_batch: the highest completed revision of a segment wins.
ProcessedAfter(turns) ==
    [s \in Segments |->
        IF \E t \in turns : t.seg = s /\ t.rev > processed[s]
        THEN (CHOOSE t \in turns : t.seg = s).rev
        ELSE processed[s]]

CommitAccepted(turns, candidates) ==
    /\ Inventory(turns) \in StoredIds
    /\ \A c \in candidates : ClaimAccepted(ClaimOf(turns, c))

\* Fault: the claims are written first, the completion is left to another call.
CommitBatchFault(turns, candidates) ==
    /\ CommitAccepted(turns, candidates)
    /\ claims' = claims \cup {ClaimOf(turns, c) : c \in candidates}
    /\ UNCHANGED <<segment, queued, processed, openBatches, doneBatches>>

CommitBatch(turns, candidates) ==
    /\ CommitAccepted(turns, candidates)
    /\ claims' = claims \cup {ClaimOf(turns, c) : c \in candidates}
    /\ LET completing == {b \in openBatches : Inventory(b) = Inventory(turns)}
       IN  /\ openBatches' = openBatches \ completing
           /\ doneBatches' = doneBatches \cup completing
           /\ processed' = ProcessedAfter(UNION completing)
    /\ UNCHANGED <<segment, queued>>

-----------------------------------------------------------------------------
\* What get_artifact lists for recovery.
PendingSegments ==
    {s \in Segments :
        /\ segment[s].final
        /\ queued[s] # NoRevision
        /\ queued[s] > processed[s]
        /\ \A b \in openBatches : \A t \in b : TurnRevision(t) # <<s, queued[s]>>}

StoreNext ==
    \/ \E t \in Turn, final \in BOOLEAN : ApplyTranscript(t, final)
    \/ \E s \in Segments, k \in Speakers : ApplySpeakers(s, k)
    \/ \E turns \in SUBSET Turn : BeginBatch(turns)
    \/ \E turns \in StoredBatches, cs \in CandidateSets : CommitBatch(turns, cs)

StoreSpec == StoreInit /\ [][StoreNext]_storeVars

-----------------------------------------------------------------------------
StoreTypeOK ==
    /\ segment \in [Segments -> SegmentRow]
    /\ queued \in [Segments -> RevisionOrNone]
    /\ processed \in [Segments -> RevisionOrNone]
    /\ openBatches \subseteq SUBSET Turn
    /\ doneBatches \subseteq SUBSET Turn
    /\ claims \subseteq Claim

(***************************************************************************)
(* A revision of a segment belongs to at most one batch, open or           *)
(* completed, whatever clients ask for and in whatever order: the lock     *)
(* against open batches and the processed mark of completed ones together  *)
(* keep a statement from being gated, and its claims written, twice.       *)
(***************************************************************************)
GatedAtMostOnce ==
    \A b, c \in StoredBatches : \A t \in b, u \in c :
        TurnRevision(t) = TurnRevision(u) => b = c

(***************************************************************************)
(* The processed mark of a segment is the highest revision of it in a      *)
(* completed batch: it never runs ahead of what was gated (a revision      *)
(* would be skipped) and never falls behind it (it would be gated again),  *)
(* also when an older open batch is completed after a newer one.           *)
(***************************************************************************)
ProcessedIsHighestGated ==
    \A s \in Segments :
        /\ processed[s] # NoRevision =>
               \E b \in doneBatches : <<s, processed[s]>> \in Inventory(b)
        /\ \A b \in doneBatches : \A t \in b : t.seg = s => t.rev <= processed[s]

(***************************************************************************)
(* Nothing is acknowledged that was not queued: the processed mark stays   *)
(* at or below the queued revision, and that at or below the revision of   *)
(* the transcript row.                                                     *)
(***************************************************************************)
ProcessedWithinQueued ==
    \A s \in Segments : /\ processed[s] <= queued[s]
                        /\ queued[s] <= segment[s].rev

(***************************************************************************)
(* A claim is durable only together with the completion of the batch it    *)
(* was detected in, so a crash cannot leave claims of a batch that will be *)
(* detected again under other keys.                                        *)
(***************************************************************************)
ClaimsOnlyFromDoneBatches ==
    \A c \in claims : \E b \in doneBatches : Inventory(b) = c.batch

(***************************************************************************)
(* A durable batch keeps its turns for good and never leaves the completed *)
(* state, a durable claim keeps its wording, and the processed mark never  *)
(* goes back: what a client read before a crash is still true after it.    *)
(***************************************************************************)
DurableStep ==
    /\ openBatches \subseteq openBatches' \cup doneBatches'
    /\ doneBatches \subseteq doneBatches'
    /\ doneBatches \cap openBatches' = {}
    /\ claims \subseteq claims'
    /\ \A s \in Segments : processed[s] <= processed'[s]

DurableRecordsAreImmutable == [][DurableStep]_storeVars

(***************************************************************************)
(* The tables implement the gate: with the revisions of the completed      *)
(* batches as the gated ones, every transaction is a step of ClaimGate or  *)
(* invisible to it.  A replayed begin, a commit that is applied twice and  *)
(* batches completed out of order must not show.                           *)
(***************************************************************************)
GatedRevisions == UNION {Inventory(b) : b \in doneBatches}

Gate == INSTANCE ClaimGate WITH gated <- GatedRevisions

ImplementsClaimGate == Gate!GateSpec

-----------------------------------------------------------------------------
(***************************************************************************)
(* The inductive invariant behind the properties above.  The three parts   *)
(* added to them say that a stored batch is one validate_claims_request    *)
(* lets through, that its revisions were queued, and that a batch is not   *)
(* both open and completed.                                                *)
(***************************************************************************)
StoredBatchesValid == \A b \in StoredBatches : ValidBatch(b)
StoredWithinQueued == \A b \in StoredBatches : \A t \in b : t.rev <= queued[t.seg]
OpenOrDone == openBatches \cap doneBatches = {}

StoreInv ==
    /\ StoreTypeOK
    /\ StoredBatchesValid
    /\ StoredWithinQueued
    /\ OpenOrDone
    /\ GatedAtMostOnce
    /\ ProcessedIsHighestGated
    /\ ProcessedWithinQueued
    /\ ClaimsOnlyFromDoneBatches
=============================================================================
