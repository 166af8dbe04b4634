-------------------------- MODULE ClaimGateProofs --------------------------
(***************************************************************************)
(* Proofs about the claim gate, for every number of segments, revisions,   *)
(* speakers and keys.  In order:                                           *)
(*   - the tables keep their promises for every client: StoreInv is        *)
(*     inductive, and the properties of ClaimGateStore follow from it;     *)
(*   - the tables implement the abstract ClaimGate;                        *)
(*   - the scheduler keeps its promises under every host (HostIInv);       *)
(*   - the pipeline of scheduler, provider and store uses the tables by    *)
(*     their transactions only, so it implements the gate too, and what    *)
(*     the scheduler remembers of the store is true.                       *)
(* For the last, every method of the scheduler has a lemma about it as a   *)
(* function, and the two loops of a recovery pass are followed round by    *)
(* round.                                                                  *)
(***************************************************************************)
EXTENDS ClaimGatePipeline, ClaimSchedulerHost, FiniteSetTheorems, SequenceTheorems,
        WellFoundedInduction, TLAPS

\* Two stored batches with a common inventory are the same batch: an id names
\* at most one row of claim_gate_batches.
LEMMA SameInventorySameBatch ==
    ASSUME StoredBatchesValid, GatedAtMostOnce,
           NEW b \in StoredBatches, NEW c \in StoredBatches,
           Inventory(b) = Inventory(c)
    PROVE  b = c
<1>1. PICK t \in b : TRUE
  BY DEF StoredBatchesValid, ValidBatch
<1>2. TurnRevision(t) \in Inventory(c)
  BY <1>1 DEF Inventory
<1>3. PICK u \in c : TurnRevision(t) = TurnRevision(u)
  BY <1>2 DEF Inventory
<1> QED
  BY <1>1, <1>3 DEF GatedAtMostOnce

\* The tables start empty and satisfy the invariant.
LEMMA StoreInitInv == StoreInit => StoreInv
<1> SUFFICES ASSUME StoreInit PROVE StoreInv
  OBVIOUS
<1>1. StoreTypeOK
  BY MaxRevisionAssumption
  DEF StoreInit, StoreTypeOK, SegmentRow, RevisionOrNone, Revisions, NoRevision
<1>2. StoredBatches = {} /\ doneBatches = {} /\ claims = {}
  BY DEF StoreInit, StoredBatches
<1>3. ProcessedWithinQueued
  <2>1. \A s \in Segments : /\ segment[s].rev = NoRevision
                            /\ queued[s] = NoRevision
                            /\ processed[s] = NoRevision
    BY DEF StoreInit
  <2>2. NoRevision <= NoRevision
    BY DEF NoRevision
  <2> QED
    BY <2>1, <2>2 DEF ProcessedWithinQueued
<1>4. ProcessedIsHighestGated
  BY <1>2 DEF StoreInit, ProcessedIsHighestGated, NoRevision
<1> QED
  BY <1>1, <1>2, <1>3, <1>4
  DEF StoreInv, StoredBatchesValid, StoredWithinQueued, OpenOrDone, GatedAtMostOnce,
      ClaimsOnlyFromDoneBatches, StoreInit

-----------------------------------------------------------------------------
\* apply_transcript writes the row and the queued mark and leaves batches alone.
LEMMA ApplyTranscriptInv ==
    ASSUME StoreInv, NEW t \in Turn, NEW final \in BOOLEAN, ApplyTranscript(t, final)
    PROVE  StoreInv'
<1> USE DEF StoreInv, ApplyTranscript, UpsertSegment, EnqueueSegment
<1>1. StoreTypeOK'
  BY DEF StoreTypeOK, Turn, SegmentRow, RevisionOrNone
<1>2. \A s \in Segments : queued[s] <= queued'[s] /\ queued'[s] <= segment'[s].rev
  BY MaxRevisionAssumption
  DEF StoreTypeOK, Turn, SegmentRow, RevisionOrNone, Revisions, NoRevision,
      ProcessedWithinQueued
<1>3. StoredBatches' = StoredBatches
  BY DEF StoredBatches
<1>4. StoredBatchesValid' /\ OpenOrDone' /\ GatedAtMostOnce' /\ ClaimsOnlyFromDoneBatches'
  BY <1>3 DEF StoredBatchesValid, ValidBatch, OpenOrDone, GatedAtMostOnce, TurnRevision,
              ClaimsOnlyFromDoneBatches, Inventory
<1>5. StoredWithinQueued'
  <2> SUFFICES ASSUME NEW b \in StoredBatches, NEW u \in b PROVE u.rev <= queued'[u.seg]
    BY <1>3 DEF StoredWithinQueued
  <2>1. u \in Turn
    BY DEF StoreTypeOK, StoredBatches
  <2>2. u.rev <= queued[u.seg] /\ queued[u.seg] \in Int /\ queued'[u.seg] \in Int /\ u.rev \in Int
    BY <1>1, <2>1, MaxRevisionAssumption
    DEF StoredWithinQueued, StoreTypeOK, Turn, RevisionOrNone, Revisions, NoRevision
  <2> QED
    BY <1>2, <2>1, <2>2 DEF Turn
<1>6. ProcessedIsHighestGated'
  BY DEF ProcessedIsHighestGated, Inventory, TurnRevision
<1>7. ProcessedWithinQueued'
  BY <1>1, <1>2, MaxRevisionAssumption
  DEF ProcessedWithinQueued, StoreTypeOK, RevisionOrNone, Revisions, NoRevision
<1> QED
  BY <1>1, <1>4, <1>5, <1>6, <1>7

\* apply_speakers changes only the speaker of a row.
LEMMA ApplySpeakersInv ==
    ASSUME StoreInv, NEW s \in Segments, NEW k \in Speakers, ApplySpeakers(s, k)
    PROVE  StoreInv'
<1> USE DEF StoreInv, ApplySpeakers
<1>1. StoreTypeOK' /\ \A x \in Segments : segment'[x].rev = segment[x].rev
  BY DEF StoreTypeOK, SegmentRow
<1>2. StoredBatches' = StoredBatches
  BY DEF StoredBatches
<1>3. ProcessedWithinQueued'
  BY <1>1 DEF ProcessedWithinQueued
<1> QED
  BY <1>1, <1>2, <1>3
  DEF StoredBatchesValid, ValidBatch, StoredWithinQueued, OpenOrDone, GatedAtMostOnce,
      ProcessedIsHighestGated, ClaimsOnlyFromDoneBatches, TurnRevision, Inventory

\* begin_claim_gate_batch stores a valid batch none of whose revisions is in a
\* stored one: the open ones are locked and the completed ones are processed.
LEMMA BeginBatchInv ==
    ASSUME StoreInv, NEW turns \in SUBSET Turn, BeginBatch(turns)
    PROVE  StoreInv'
<1> USE DEF StoreInv, BeginBatch
<1>1. CASE turns \in StoredBatches
  <2>1. UNCHANGED storeVars
    BY <1>1 DEF storeVars
  <2> QED
    BY <2>1
    DEF storeVars, StoreTypeOK, StoredBatchesValid, ValidBatch, StoredWithinQueued, OpenOrDone,
        GatedAtMostOnce, ProcessedIsHighestGated, ProcessedWithinQueued,
        ClaimsOnlyFromDoneBatches, StoredBatches, TurnRevision, Inventory
<1>2. CASE turns \notin StoredBatches
  <2>1. ValidBatch(turns) /\ \A t \in turns : TurnAdmissible(t)
    BY <1>2 DEF BeginAccepted
  <2>2. openBatches' = openBatches \cup {turns} /\ StoredBatches' = StoredBatches \cup {turns}
    BY <1>2 DEF StoredBatches
  <2>3. StoreTypeOK'
    BY <2>2 DEF StoreTypeOK
  <2>4. StoredBatchesValid'
    BY <2>1, <2>2 DEF StoredBatchesValid, ValidBatch
  <2>5. StoredWithinQueued'
    BY <2>1, <2>2 DEF StoredWithinQueued, TurnAdmissible
  <2>6. OpenOrDone'
    BY <1>2, <2>2 DEF OpenOrDone, StoredBatches
  <2>7. ASSUME NEW t \in turns, NEW b \in StoredBatches, NEW u \in b
        PROVE  TurnRevision(t) # TurnRevision(u)
    <3>1. CASE b \in openBatches
      BY <2>1, <3>1 DEF TurnAdmissible
    <3>2. CASE b \in doneBatches
      <4>1. t \in Turn /\ u \in Turn
        BY DEF StoreTypeOK, StoredBatches
      <4>2. u.rev <= processed[u.seg] /\ processed[t.seg] < t.rev
        BY <2>1, <3>2, <4>1 DEF TurnAdmissible, ProcessedIsHighestGated, Turn
      <4>3. t.rev \in Int /\ u.rev \in Int /\ processed[t.seg] \in Int
        BY <4>1, MaxRevisionAssumption
        DEF Turn, StoreTypeOK, RevisionOrNone, Revisions, NoRevision
      <4> QED
        BY <4>2, <4>3 DEF TurnRevision
    <3> QED
      BY <3>1, <3>2 DEF StoredBatches
  <2>8. GatedAtMostOnce'
    <3> SUFFICES ASSUME NEW b \in StoredBatches', NEW c \in StoredBatches',
                        NEW t \in b, NEW u \in c, TurnRevision(t) = TurnRevision(u)
                 PROVE  b = c
      BY DEF GatedAtMostOnce, TurnRevision
    <3>1. CASE b = turns /\ c # turns
      BY <2>2, <2>7, <3>1
    <3>2. CASE c = turns /\ b # turns
      BY <2>2, <2>7, <3>2
    <3>3. CASE b # turns /\ c # turns
      BY <2>2, <3>3 DEF GatedAtMostOnce
    <3> QED
      BY <3>1, <3>2, <3>3
  <2>9. ProcessedIsHighestGated' /\ ProcessedWithinQueued' /\ ClaimsOnlyFromDoneBatches'
    BY DEF ProcessedIsHighestGated, ProcessedWithinQueued, ClaimsOnlyFromDoneBatches,
           Inventory, TurnRevision
  <2> QED
    BY <2>3, <2>4, <2>5, <2>6, <2>8, <2>9
<1> QED
  BY <1>1, <1>2

-----------------------------------------------------------------------------
\* What a commit completes: at most one open batch, and then exactly the stored
\* one with the id.
Completing(turns) == {b \in openBatches : Inventory(b) = Inventory(turns)}

\* The commit of a batch that is not open any more (a replay) completes nothing;
\* otherwise it completes that batch and no other.
LEMMA CompletingIsTheBatch ==
    ASSUME StoreInv, NEW turns \in StoredBatches
    PROVE  /\ turns \in openBatches => Completing(turns) = {turns}
           /\ turns \notin openBatches => Completing(turns) = {}
BY SameInventorySameBatch DEF StoreInv, Completing, StoredBatches

\* complete_claim_gate_batch raises the mark of exactly the segments whose
\* revision in the batch is above it.
LEMMA ProcessedAfterValue ==
    ASSUME StoreInv, NEW turns \in openBatches, NEW s \in Segments
    PROVE  /\ \A t \in turns : t.seg = s /\ t.rev > processed[s] =>
                   ProcessedAfter(turns)[s] = t.rev
           /\ (\A t \in turns : t.seg = s => ~(t.rev > processed[s])) =>
                   ProcessedAfter(turns)[s] = processed[s]
<1>1. \A t, u \in turns : t.seg = u.seg => t = u
  BY DEF StoreInv, StoredBatchesValid, StoredBatches, ValidBatch
<1>2. ASSUME NEW t \in turns, t.seg = s, t.rev > processed[s]
      PROVE  ProcessedAfter(turns)[s] = t.rev
  <2>1. (CHOOSE u \in turns : u.seg = s) = t
    BY <1>1, <1>2
  <2> QED
    BY <1>2, <2>1 DEF ProcessedAfter
<1>3. ASSUME \A t \in turns : t.seg = s => ~(t.rev > processed[s])
      PROVE  ProcessedAfter(turns)[s] = processed[s]
  BY <1>3 DEF ProcessedAfter
<1> QED
  BY <1>2, <1>3

\* The commit moves one open batch to the completed ones, raises the marks of
\* its segments and adds its claims, all or nothing.
LEMMA CommitBatchInv ==
    ASSUME StoreInv, NEW turns \in StoredBatches, NEW cs \in SUBSET Candidate,
           CommitBatch(turns, cs)
    PROVE  StoreInv' /\ DurableStep
<1> USE DEF StoreInv
<1>0. /\ openBatches' = openBatches \ Completing(turns)
      /\ doneBatches' = doneBatches \cup Completing(turns)
      /\ processed' = ProcessedAfter(UNION Completing(turns))
      /\ claims' = claims \cup {ClaimOf(turns, c) : c \in cs}
      /\ UNCHANGED <<segment, queued>>
  BY DEF CommitBatch, Completing
<1>1. turns \in SUBSET Turn
  BY DEF StoreTypeOK, StoredBatches
<1>2. claims' \subseteq Claim
  <2>1. Inventory(turns) \in SUBSET (Segments \X Revisions)
    BY <1>1 DEF Inventory, TurnRevision, Turn
  <2>2. \A c \in cs : ClaimOf(turns, c) \in Claim
    BY <2>1 DEF ClaimOf, Claim, Candidate
  <2> QED
    BY <1>0, <2>2 DEF StoreTypeOK
<1>3. StoredBatches' = StoredBatches
  BY <1>0 DEF StoredBatches, Completing
<1>4. turns \in doneBatches'
  BY <1>0, CompletingIsTheBatch DEF StoredBatches
<1>5. /\ doneBatches \subseteq doneBatches'
      /\ openBatches \subseteq openBatches' \cup doneBatches'
      /\ doneBatches \cap openBatches' = {}
      /\ claims \subseteq claims'
  BY <1>0 DEF OpenOrDone
<1>6. ClaimsOnlyFromDoneBatches'
  <2> SUFFICES ASSUME NEW c \in claims'
               PROVE  \E b \in doneBatches' : Inventory(b) = c.batch
    BY DEF ClaimsOnlyFromDoneBatches, Inventory, TurnRevision
  <2>1. CASE c \in claims
    BY <1>5, <2>1 DEF ClaimsOnlyFromDoneBatches
  <2>2. CASE c \in {ClaimOf(turns, d) : d \in cs}
    BY <1>4, <2>2 DEF ClaimOf
  <2> QED
    BY <1>0, <2>1, <2>2
<1>7. StoredBatchesValid' /\ StoredWithinQueued' /\ OpenOrDone' /\ GatedAtMostOnce'
  BY <1>0, <1>3
  DEF StoredBatchesValid, ValidBatch, StoredWithinQueued, OpenOrDone, GatedAtMostOnce,
      TurnRevision, Completing
<1>8. CASE turns \notin openBatches
  <2>1. Completing(turns) = {}
    BY <1>8, CompletingIsTheBatch
  <2>2. processed' = processed
    BY <1>0, <2>1 DEF ProcessedAfter, StoreTypeOK
  <2>3. doneBatches' = doneBatches /\ openBatches' = openBatches
    BY <1>0, <2>1
  <2>4. StoreTypeOK' /\ ProcessedIsHighestGated' /\ ProcessedWithinQueued'
    BY <1>0, <1>2, <2>2, <2>3
    DEF StoreTypeOK, ProcessedIsHighestGated, ProcessedWithinQueued, Inventory, TurnRevision
  <2>5. \A s \in Segments : processed[s] <= processed'[s]
    BY <2>2, MaxRevisionAssumption
    DEF StoreTypeOK, RevisionOrNone, Revisions, NoRevision
  <2> QED
    BY <1>5, <1>6, <1>7, <2>4, <2>5 DEF DurableStep
<1>9. CASE turns \in openBatches
  <2>1. doneBatches' = doneBatches \cup {turns} /\ processed' = ProcessedAfter(turns)
    BY <1>0, <1>9, CompletingIsTheBatch
  <2>2. \A t \in turns : t.seg \in Segments /\ t.rev \in Int /\ t.rev \in RevisionOrNone
                         /\ t.rev <= queued[t.seg]
    BY <1>1, MaxRevisionAssumption
    DEF Turn, Revisions, RevisionOrNone, StoredWithinQueued
  <2>3. \A s \in Segments : processed[s] \in Int /\ queued[s] \in Int
                            /\ processed[s] \in RevisionOrNone
    BY MaxRevisionAssumption DEF StoreTypeOK, RevisionOrNone, Revisions, NoRevision
  \* Each mark is the old one or the revision of the segment's turn in the batch,
  \* and not below either.
  <2>4. ASSUME NEW s \in Segments
        PROVE  /\ \/ processed'[s] = processed[s]
                  \/ \E t \in turns : t.seg = s /\ processed'[s] = t.rev
               /\ processed[s] <= processed'[s]
               /\ \A t \in turns : t.seg = s => t.rev <= processed'[s]
    <3>1. CASE \E t \in turns : t.seg = s /\ t.rev > processed[s]
      <4>1. PICK t \in turns : t.seg = s /\ t.rev > processed[s]
        BY <3>1
      <4>2. processed'[s] = t.rev
        BY <1>9, <2>1, <4>1, ProcessedAfterValue
      <4>3. \A u \in turns : u.seg = s => u = t
        BY <4>1 DEF StoredBatchesValid, StoredBatches, ValidBatch
      <4> QED
        BY <2>2, <2>3, <4>1, <4>2, <4>3
    <3>2. CASE \A t \in turns : t.seg = s => ~(t.rev > processed[s])
      <4>1. processed'[s] = processed[s]
        BY <1>9, <2>1, <3>2, ProcessedAfterValue
      <4> QED
        BY <2>2, <2>3, <3>2, <4>1
    <3> QED
      BY <3>1, <3>2
  <2>5. StoreTypeOK'
    <3>1. processed' \in [Segments -> RevisionOrNone]
      BY <2>1, <2>2, <2>3, <2>4 DEF ProcessedAfter
    <3> QED
      BY <1>0, <1>2, <1>1, <2>1, <3>1 DEF StoreTypeOK
  <2>6. ProcessedWithinQueued'
    BY <1>0, <2>2, <2>3, <2>4 DEF ProcessedWithinQueued
  <2>7. ProcessedIsHighestGated'
    <3> SUFFICES ASSUME NEW s \in Segments
                 PROVE  /\ processed'[s] # NoRevision =>
                               \E b \in doneBatches' : <<s, processed'[s]>> \in Inventory(b)
                        /\ \A b \in doneBatches' : \A t \in b :
                               t.seg = s => t.rev <= processed'[s]
      BY DEF ProcessedIsHighestGated, Inventory, TurnRevision, NoRevision
    <3>1. processed'[s] # NoRevision =>
              \E b \in doneBatches' : <<s, processed'[s]>> \in Inventory(b)
      <4>1. CASE processed'[s] = processed[s]
        BY <2>1, <4>1 DEF ProcessedIsHighestGated
      <4>2. CASE \E t \in turns : t.seg = s /\ processed'[s] = t.rev
        <5>1. <<s, processed'[s]>> \in Inventory(turns)
          BY <4>2 DEF Inventory, TurnRevision
        <5> QED
          BY <2>1, <5>1
      <4> QED
        BY <2>4, <4>1, <4>2
    <3>2. ASSUME NEW b \in doneBatches', NEW t \in b, t.seg = s
          PROVE  t.rev <= processed'[s]
      <4>1. CASE b = turns
        BY <2>4, <3>2, <4>1
      <4>2. CASE b \in doneBatches
        <5>1. t \in Turn
          BY <4>2 DEF StoreTypeOK
        <5>2. t.rev \in Int /\ processed'[s] \in Int
          BY <2>5, <5>1, MaxRevisionAssumption
          DEF Turn, StoreTypeOK, RevisionOrNone, Revisions, NoRevision
        <5>3. t.rev <= processed[s]
          BY <3>2, <4>2 DEF ProcessedIsHighestGated
        <5> QED
          BY <2>3, <2>4, <5>2, <5>3
      <4> QED
        BY <2>1, <4>1, <4>2
    <3> QED
      BY <3>1, <3>2
  <2> QED
    BY <1>5, <1>6, <1>7, <2>4, <2>5, <2>6, <2>7 DEF DurableStep
<1> QED
  BY <1>8, <1>9

-----------------------------------------------------------------------------
\* StoreInv is preserved by every transaction, and by steps that leave the tables alone.
LEMMA StoreNextInv == StoreInv /\ [StoreNext]_storeVars => StoreInv'
<1> SUFFICES ASSUME StoreInv, [StoreNext]_storeVars PROVE StoreInv'
  OBVIOUS
<1>1. ASSUME NEW t \in Turn, NEW final \in BOOLEAN, ApplyTranscript(t, final)
      PROVE  StoreInv'
  BY <1>1, ApplyTranscriptInv
<1>2. ASSUME NEW s \in Segments, NEW k \in Speakers, ApplySpeakers(s, k)
      PROVE  StoreInv'
  BY <1>2, ApplySpeakersInv
<1>3. ASSUME NEW turns \in SUBSET Turn, BeginBatch(turns)
      PROVE  StoreInv'
  BY <1>3, BeginBatchInv
<1>4. ASSUME NEW turns \in StoredBatches, NEW cs \in CandidateSets, CommitBatch(turns, cs)
      PROVE  StoreInv'
  <2>1. cs \in SUBSET Candidate
    BY DEF CandidateSets
  <2> QED
    BY <1>4, <2>1, CommitBatchInv
<1>5. CASE UNCHANGED storeVars
  BY <1>5
  DEF storeVars, StoreInv, StoreTypeOK, StoredBatchesValid, ValidBatch, StoredWithinQueued,
      OpenOrDone, GatedAtMostOnce, ProcessedIsHighestGated, ProcessedWithinQueued,
      ClaimsOnlyFromDoneBatches, StoredBatches, TurnRevision, Inventory
<1> QED
  BY <1>1, <1>2, <1>3, <1>4, <1>5 DEF StoreNext

\* No transaction takes back a batch, a claim or a processed mark.
LEMMA StoreNextDurable == ASSUME StoreInv, StoreNext PROVE DurableStep
<1>0. \A s \in Segments : processed[s] <= processed[s]
  BY MaxRevisionAssumption
  DEF StoreInv, StoreTypeOK, RevisionOrNone, Revisions, NoRevision
<1>1. ASSUME NEW t \in Turn, NEW final \in BOOLEAN, ApplyTranscript(t, final)
      PROVE  DurableStep
  BY <1>0, <1>1 DEF ApplyTranscript, DurableStep, StoreInv, OpenOrDone
<1>2. ASSUME NEW s \in Segments, NEW k \in Speakers, ApplySpeakers(s, k)
      PROVE  DurableStep
  BY <1>0, <1>2 DEF ApplySpeakers, DurableStep, StoreInv, OpenOrDone
<1>3. ASSUME NEW turns \in SUBSET Turn, BeginBatch(turns)
      PROVE  DurableStep
  BY <1>0, <1>3 DEF BeginBatch, DurableStep, StoreInv, OpenOrDone, StoredBatches
<1>4. ASSUME NEW turns \in StoredBatches, NEW cs \in CandidateSets, CommitBatch(turns, cs)
      PROVE  DurableStep
  BY <1>4, CommitBatchInv DEF CandidateSets
<1> QED
  BY <1>1, <1>2, <1>3, <1>4 DEF StoreNext

\* The inductive invariant holds in every reachable state of the tables.
THEOREM StoreInvariant == StoreSpec => []StoreInv
<1> QED
  BY StoreInitInv, StoreNextInv, PTL DEF StoreSpec

\* The tables hold rows of their types: revisions in range, batches of turns,
\* claims that carry a batch id (the columns and CHECKs of the schema).
THEOREM StoreTypeCorrect == StoreSpec => []StoreTypeOK
<1>1. StoreInv => StoreTypeOK
  BY DEF StoreInv
<1> QED
  BY <1>1, StoreInvariant, PTL

\* No revision of a segment is ever in two batches (begin_claim_gate_batch).
THEOREM RevisionsGatedAtMostOnce == StoreSpec => []GatedAtMostOnce
<1>1. StoreInv => GatedAtMostOnce
  BY DEF StoreInv
<1> QED
  BY <1>1, StoreInvariant, PTL

\* The processed mark of a segment is exactly the highest revision of it in a
\* completed batch (complete_claim_gate_batch).
THEOREM ProcessedMarkIsExact == StoreSpec => []ProcessedIsHighestGated
<1>1. StoreInv => ProcessedIsHighestGated
  BY DEF StoreInv
<1> QED
  BY <1>1, StoreInvariant, PTL

\* Claims become durable only with the completion of their batch (apply_claims).
THEOREM ClaimsCommitAtomically == StoreSpec => []ClaimsOnlyFromDoneBatches
<1>1. StoreInv => ClaimsOnlyFromDoneBatches
  BY DEF StoreInv
<1> QED
  BY <1>1, StoreInvariant, PTL

\* Durable batches, claims and processed marks are never taken back by any
\* transaction of the store.
THEOREM DurableRecords == StoreSpec => DurableRecordsAreImmutable
<1>1. StoreInv /\ [StoreNext]_storeVars => [DurableStep]_storeVars
  BY StoreNextDurable
<1> QED
  BY <1>1, StoreInvariant, PTL DEF StoreSpec, DurableRecordsAreImmutable

(***************************************************************************)
(* The claim gate tables implement the abstract ClaimGate: the initial     *)
(* tables map to its initial state, and every transaction maps to one of   *)
(* its steps or to a stutter.  Queue is apply_transcript, PassGate the     *)
(* commit of an open batch, Amend the commit of a completed one; begin and *)
(* relabelling are invisible.                                              *)
(***************************************************************************)

\* idx_claims_duplicate_key: two durable claims never share a duplicate key.
ClaimKeysUnique == \A c, d \in claims : c.key = d.key => c = d

\* A commit keeps the keys unique: each of its claims is checked against the
\* table, and a detection has a key at most once.
LEMMA CommitKeepsKeysUnique ==
    ASSUME ClaimKeysUnique, NEW turns, NEW cs \in CandidateSets, CommitBatch(turns, cs)
    PROVE  ClaimKeysUnique'
<1> DEFINE new == {ClaimOf(turns, c) : c \in cs}
<1>1. claims' = claims \cup new
  BY DEF CommitBatch
<1>2. \A c \in new : ClaimAccepted(c)
  BY DEF CommitBatch, CommitAccepted
<1>3. \A c, d \in new : c.key = d.key => c = d
  BY DEF ClaimOf, CandidateSets
<1>4. SUFFICES ASSUME NEW c \in claims', NEW d \in claims', c.key = d.key PROVE c = d
  BY DEF ClaimKeysUnique
<1>5. CASE c \in claims /\ d \in claims
  BY <1>4, <1>5 DEF ClaimKeysUnique
<1>6. CASE c \in claims /\ d \in new
  BY <1>2, <1>4, <1>6 DEF ClaimAccepted
<1>7. CASE c \in new /\ d \in claims
  BY <1>2, <1>4, <1>7 DEF ClaimAccepted
<1>8. CASE c \in new /\ d \in new
  BY <1>3, <1>4, <1>8
<1> QED
  BY <1>1, <1>5, <1>6, <1>7, <1>8

\* Every transaction keeps the keys unique.
LEMMA StoreKeepsKeysUnique ==
    ClaimKeysUnique /\ [StoreNext]_storeVars => ClaimKeysUnique'
<1> SUFFICES ASSUME ClaimKeysUnique, [StoreNext]_storeVars PROVE ClaimKeysUnique'
  OBVIOUS
<1>1. CASE UNCHANGED claims
  BY <1>1 DEF ClaimKeysUnique
<1>2. CASE \E turns \in StoredBatches, cs \in CandidateSets : CommitBatch(turns, cs)
  BY <1>2, CommitKeepsKeysUnique
<1> QED
  BY <1>1, <1>2 DEF StoreNext, storeVars, ApplyTranscript, ApplySpeakers, BeginBatch

\* The gated revisions after a commit: those of the batch are added.
LEMMA CommitGates ==
    ASSUME StoreInv, NEW turns \in StoredBatches, NEW cs \in CandidateSets,
           CommitBatch(turns, cs)
    PROVE  /\ turns \in openBatches => GatedRevisions' = GatedRevisions \cup Inventory(turns)
           /\ turns \notin openBatches => /\ GatedRevisions' = GatedRevisions
                                          /\ Inventory(turns) \subseteq GatedRevisions
<1>1. doneBatches' = doneBatches \cup Completing(turns)
  BY DEF CommitBatch, Completing
<1>2. \A b : Inventory(b)' = Inventory(b)
  BY DEF Inventory, TurnRevision
<1>3. GatedRevisions' = UNION {Inventory(b) : b \in doneBatches'}
  BY <1>2 DEF GatedRevisions, Inventory, TurnRevision
<1>4. CASE turns \in openBatches
  <2>1. doneBatches' = doneBatches \cup {turns}
    BY <1>1, <1>4, CompletingIsTheBatch
  <2> QED
    BY <1>3, <1>4, <2>1 DEF GatedRevisions
<1>5. CASE turns \notin openBatches
  <2>1. doneBatches' = doneBatches /\ turns \in doneBatches
    BY <1>1, <1>5, CompletingIsTheBatch DEF StoredBatches
  <2> QED
    BY <1>3, <1>5, <2>1 DEF GatedRevisions
<1> QED
  BY <1>4, <1>5

\* The commit of an open batch is PassGate for its inventory.
LEMMA OpenBatchPassesGate ==
    ASSUME StoreInv, ClaimKeysUnique, NEW turns \in openBatches, NEW cs \in CandidateSets,
           CommitBatch(turns, cs)
    PROVE  Gate!PassGate(Inventory(turns), {ClaimOf(turns, c) : c \in cs})
<1> DEFINE revs == Inventory(turns)
<1>0. turns \in StoredBatches /\ turns \in SUBSET Turn /\ turns \notin doneBatches
  BY DEF StoredBatches, StoreInv, StoreTypeOK, OpenOrDone
<1>1. revs # {}
  BY <1>0 DEF StoreInv, StoredBatchesValid, ValidBatch, Inventory
<1>2. revs \cap GatedRevisions = {}
  <2> SUFFICES ASSUME NEW b \in doneBatches, NEW p \in revs, p \in Inventory(b) PROVE FALSE
    BY DEF GatedRevisions
  <2>1. PICK t \in turns, u \in b : TurnRevision(t) = p /\ TurnRevision(u) = p
    BY DEF Inventory
  <2> QED
    BY <1>0, <2>1 DEF StoreInv, GatedAtMostOnce, StoredBatches
<1>3. \A p \in revs : p[2] <= queued[p[1]]
  BY <1>0 DEF Inventory, TurnRevision, StoreInv, StoredWithinQueued
<1>4. \A p, q \in revs : p[1] = q[1] => p = q
  BY <1>0 DEF Inventory, TurnRevision, StoreInv, StoredBatchesValid, ValidBatch
<1>5. GatedRevisions' = GatedRevisions \cup revs
  BY <1>0, CommitGates
<1>6. claims' = claims \cup {ClaimOf(turns, c) : c \in cs} /\ UNCHANGED queued
  BY DEF CommitBatch
<1>7. ClaimKeysUnique'
  BY CommitKeepsKeysUnique
<1> QED
  BY <1>1, <1>2, <1>3, <1>4, <1>5, <1>6, <1>7
  DEF Gate!PassGate, Gate!Record, Gate!KeysAreUnique, ClaimKeysUnique

\* The commit of a completed batch (a replay) is Amend.
LEMMA DoneBatchAmends ==
    ASSUME StoreInv, ClaimKeysUnique, NEW turns \in StoredBatches, turns \notin openBatches,
           NEW cs \in CandidateSets, CommitBatch(turns, cs)
    PROVE  Gate!Amend(Inventory(turns), {ClaimOf(turns, c) : c \in cs})
<1>1. GatedRevisions' = GatedRevisions /\ Inventory(turns) \subseteq GatedRevisions
  BY CommitGates
<1>2. claims' = claims \cup {ClaimOf(turns, c) : c \in cs} /\ UNCHANGED queued
  BY DEF CommitBatch
<1>3. ClaimKeysUnique'
  BY CommitKeepsKeysUnique
<1> QED
  BY <1>1, <1>2, <1>3 DEF Gate!Amend, Gate!Record, Gate!KeysAreUnique, ClaimKeysUnique

\* Every transaction is a step of the abstract gate or invisible to it.
LEMMA StoreStepIsGateStep ==
    StoreInv /\ ClaimKeysUnique /\ [StoreNext]_storeVars => [Gate!GateNext]_(Gate!gateVars)
<1> SUFFICES ASSUME StoreInv, ClaimKeysUnique, [StoreNext]_storeVars
             PROVE  [Gate!GateNext]_(Gate!gateVars)
  OBVIOUS
<1>0. ASSUME UNCHANGED <<queued, doneBatches, claims>> PROVE UNCHANGED Gate!gateVars
  <2>1. GatedRevisions' = GatedRevisions
    BY <1>0 DEF GatedRevisions, Inventory, TurnRevision
  <2> QED
    BY <1>0, <2>1 DEF Gate!gateVars
<1>1. ASSUME NEW t \in Turn, NEW final \in BOOLEAN, ApplyTranscript(t, final)
      PROVE  [Gate!GateNext]_(Gate!gateVars)
  <2>1. CASE final /\ t.rev > queued[t.seg]
    <3>1. GatedRevisions' = GatedRevisions
      BY <1>1 DEF ApplyTranscript, GatedRevisions, Inventory, TurnRevision
    <3>2. t.seg \in Segments /\ t.rev \in Revisions
      BY DEF Turn
    <3>3. Gate!Queue(t.seg, t.rev)
      BY <1>1, <2>1, <3>1 DEF ApplyTranscript, UpsertSegment, EnqueueSegment, Gate!Queue
    <3> QED
      BY <3>2, <3>3 DEF Gate!GateNext, Gate!Revisions, Revisions
  <2>2. CASE ~(final /\ t.rev > queued[t.seg])
    BY <1>0, <1>1, <2>2 DEF ApplyTranscript, UpsertSegment, EnqueueSegment
  <2> QED
    BY <2>1, <2>2
<1>2. ASSUME NEW s \in Segments, NEW k \in Speakers, ApplySpeakers(s, k)
      PROVE  [Gate!GateNext]_(Gate!gateVars)
  BY <1>0, <1>2 DEF ApplySpeakers
<1>3. ASSUME NEW turns \in SUBSET Turn, BeginBatch(turns)
      PROVE  [Gate!GateNext]_(Gate!gateVars)
  BY <1>0, <1>3 DEF BeginBatch
<1>4. ASSUME NEW turns \in StoredBatches, NEW cs \in CandidateSets, CommitBatch(turns, cs)
      PROVE  [Gate!GateNext]_(Gate!gateVars)
  <2> DEFINE revs == Inventory(turns)
             new == {ClaimOf(turns, c) : c \in cs}
  <2>1. turns \in SUBSET Turn
    BY DEF StoreInv, StoreTypeOK, StoredBatches
  <2>2. revs \in SUBSET (Segments \X Gate!Revisions)
    BY <2>1 DEF Inventory, TurnRevision, Turn, Gate!Revisions, Revisions
  <2>3. new \in SUBSET Gate!ClaimsOf(revs)
    BY DEF ClaimOf, Gate!ClaimsOf, CandidateSets, Candidate
  <2>4. Gate!PassGate(revs, new) \/ Gate!Amend(revs, new)
    BY <1>4, OpenBatchPassesGate, DoneBatchAmends
  <2> HIDE DEF revs, new
  <2> QED
    BY <2>2, <2>3, <2>4 DEF Gate!GateNext
<1>5. CASE UNCHANGED storeVars
  BY <1>0, <1>5 DEF storeVars
<1> QED
  BY <1>1, <1>2, <1>3, <1>4, <1>5 DEF StoreNext

-----------------------------------------------------------------------------
\* Two durable claims never have the same duplicate key (apply_claim_version and
\* the unique index of the claims table).
THEOREM ClaimKeysStayUnique == StoreSpec => []ClaimKeysUnique
<1>1. StoreInit => ClaimKeysUnique
  BY DEF StoreInit, ClaimKeysUnique
<1> QED
  BY <1>1, StoreKeepsKeysUnique, PTL DEF StoreSpec

\* The tables implement the abstract gate: each queued revision passes it at most
\* once, with its claims in the same step, for every client of the store.
THEOREM StoreImplementsGate == StoreSpec => ImplementsClaimGate
<1>1. StoreInit => Gate!GateInit
  BY DEF StoreInit, Gate!GateInit, GatedRevisions, Gate!NoRevision, NoRevision
<1> QED
  BY <1>1, StoreStepIsGateStep, StoreInvariant, ClaimKeysStayUnique, PTL
  DEF StoreSpec, ImplementsClaimGate, Gate!GateSpec

-----------------------------------------------------------------------------
(***************************************************************************)
(* The class ClaimScheduler keeps its promises under every host.  A method *)
(* is a function from the state of the object to its next state, so each   *)
(* has two lemmas about that function: ...Inv (it preserves SchedulerInv)  *)
(* and ...Keeps (it keeps what StepsKeepPromises asks for).  They rest on  *)
(* lemmas about the fields a method assigns and about the queue of batches.*)
(***************************************************************************)
\* The fields of a scheduler.  A step of the object leaves all but some alone.
Fields ==
    {"pendingTurns", "pendingBatches", "knownBatchIds", "completed", "gateCalls",
     "hourClaims", "burstClaims", "maxGateCalls", "timer", "phase", "batch", "existing",
     "accepted", "rateLimited", "limitReached", "disposed"}

IsScheduler(S) == S = [f \in Fields |-> S[f]]
SameBut(S, T, changed) == \A f \in Fields \ changed : T[f] = S[f]

\* A new scheduler has all fields.
LEMMA NewSchedulerFields ==
    ASSUME NEW limit
    PROVE  IsScheduler(NewScheduler(limit))
  BY DEF IsScheduler, Fields, NewScheduler

\* scheduleFlush assigns the timer.
LEMMA ScheduleFlushFields ==
    ASSUME NEW S, IsScheduler(S)
    PROVE  LET T == ScheduleFlush(S) IN
           /\ IsScheduler(T)
           /\ SameBut(S, T, {"timer"})
           /\ T.timer = (S.timer \/ ~S.disposed)
  BY DEF IsScheduler, Fields, SameBut, ScheduleFlush

\* The finally clause ends the run and sets a timer if work is left.
LEMMA SettleFields ==
    ASSUME NEW S, IsScheduler(S)
    PROVE  LET T == Settle(S) IN
           /\ IsScheduler(T)
           /\ SameBut(S, T, {"phase", "batch", "existing", "accepted", "rateLimited", "timer"})
           /\ T.phase = "idle" /\ T.batch = NoBatch /\ T.existing = {} /\ T.accepted = {}
           /\ T.rateLimited = FALSE
           /\ T.timer = IF HasWork(S) THEN S.timer \/ ~S.disposed ELSE S.timer
<1> DEFINE T0 == [S EXCEPT !.phase = "idle", !.batch = NoBatch, !.existing = {}, !.accepted = {},
                       !.rateLimited = FALSE]
<1>1. /\ IsScheduler(T0) 
           /\ SameBut(S, T0, {"phase", "batch", "existing", "accepted", "rateLimited"})
           /\ T0.phase = "idle" /\ T0.batch = NoBatch /\ T0.existing = {} /\ T0.accepted = {}
           /\ T0.rateLimited = FALSE
  BY DEF IsScheduler, Fields, SameBut
<1>2. HasWork(T0) = HasWork(S)
  BY <1>1 DEF SameBut, HasWork, Fields
<1>3. Settle(S) = IF HasWork(S) THEN ScheduleFlush(T0) ELSE T0
  BY <1>2 DEF Settle
<1> HIDE DEF T0
<1>4. CASE HasWork(S)
  BY <1>1, <1>3, <1>4, ScheduleFlushFields DEF SameBut, Fields
<1>5. CASE ~HasWork(S)
  BY <1>1, <1>3, <1>5 DEF SameBut, Fields
<1> QED
  BY <1>4, <1>5

\* flush returns at once, reports the limit, or takes a batch and awaits.
LEMMA FlushFields ==
    ASSUME NEW S, NEW listed, IsScheduler(S)
    PROVE  LET T == Flush(S, listed)
               E == Earliest(S.pendingTurns) IN
           /\ IsScheduler(T)
           /\ \/ T = S /\ (S.disposed \/ Running(S) \/ ~HasWork(S))
              \/ SameBut(S, T, {"limitReached"}) /\ T.limitReached = TRUE
              \/ /\ ~S.disposed /\ ~Running(S) /\ ~(S.gateCalls >= S.maxGateCalls)
                 /\ T.phase \in {"begin", "detect"} /\ T.existing \in {S.existing, listed}
                 /\ \/ /\ S.pendingBatches # <<>>
                       /\ SameBut(S, T, {"batch", "pendingBatches", "phase", "existing"})
                       /\ T.batch = Head(S.pendingBatches)
                       /\ T.pendingBatches = Tail(S.pendingBatches)
                    \/ /\ S.pendingBatches = <<>>
                       /\ SameBut(S, T, {"batch", "pendingTurns", "knownBatchIds", "phase",
                                         "existing"})
                       /\ T.batch = [turns |-> E, begun |-> FALSE]
                       /\ T.pendingTurns = S.pendingTurns \ E
                       /\ T.knownBatchIds = S.knownBatchIds \cup {Inventory(E)}
<1> DEFINE E == Earliest(S.pendingTurns)
           T == Flush(S, listed)
           B == TakeBatch(S)
           L == [S EXCEPT !.limitReached = TRUE]
           D == IF B.batch.begun THEN [B EXCEPT !.phase = "detect", !.existing = listed]
                                 ELSE [B EXCEPT !.phase = "begin"]
<1>1. T = IF S.disposed \/ Running(S) \/ ~HasWork(S) THEN S
          ELSE IF S.gateCalls >= S.maxGateCalls THEN L ELSE D
  BY DEF Flush
<1>2. IsScheduler(L) /\ SameBut(S, L, {"limitReached"}) /\ L.limitReached = TRUE
  BY DEF IsScheduler, Fields, SameBut
<1>3. /\ IsScheduler(B)
      /\ \/ /\ S.pendingBatches # <<>>
            /\ SameBut(S, B, {"batch", "pendingBatches"})
            /\ B.batch = Head(S.pendingBatches)
            /\ B.pendingBatches = Tail(S.pendingBatches)
         \/ /\ S.pendingBatches = <<>>
            /\ SameBut(S, B, {"batch", "pendingTurns", "knownBatchIds"})
            /\ B.batch = [turns |-> E, begun |-> FALSE]
            /\ B.pendingTurns = S.pendingTurns \ E
            /\ B.knownBatchIds = S.knownBatchIds \cup {Inventory(E)}
  <2> HIDE DEF E
  <2>1. CASE S.pendingBatches # <<>>
    BY <2>1 DEF IsScheduler, Fields, SameBut, TakeBatch
  <2>2. CASE S.pendingBatches = <<>>
    BY <2>2 DEF IsScheduler, Fields, SameBut, TakeBatch, E
  <2> QED
    BY <2>1, <2>2
<1> HIDE DEF B, E, T, L
<1>4. /\ IsScheduler(D) /\ SameBut(B, D, {"phase", "existing"})
      /\ D.phase \in {"begin", "detect"} /\ D.existing \in {B.existing, listed}
  BY <1>3 DEF IsScheduler, Fields, SameBut
<1>5. B.existing = S.existing
  BY <1>3 DEF SameBut, Fields
<1> HIDE DEF D
<1>6. CASE S.disposed \/ Running(S) \/ ~HasWork(S)
  BY <1>1, <1>6 DEF T
<1>7. CASE ~(S.disposed \/ Running(S) \/ ~HasWork(S)) /\ S.gateCalls >= S.maxGateCalls
  BY <1>1, <1>2, <1>7 DEF T
<1>8. CASE ~(S.disposed \/ Running(S) \/ ~HasWork(S)) /\ ~(S.gateCalls >= S.maxGateCalls)
  <2>1. T = D
    BY <1>1, <1>8
  <2>2. CASE S.pendingBatches # <<>>
    BY <1>3, <1>4, <1>5, <1>8, <2>1, <2>2 DEF SameBut, Fields, T
  <2>3. CASE S.pendingBatches = <<>>
    BY <1>3, <1>4, <1>5, <1>8, <2>1, <2>3 DEF SameBut, Fields, T, E
  <2> QED
    BY <2>2, <2>3
<1> QED
  BY <1>6, <1>7, <1>8

-----------------------------------------------------------------------------
(***************************************************************************)
(* The queue of batches.  Ids are the inventories of its batches.          *)
(***************************************************************************)
Ids(queue) == {Inventory(queue[i].turns) : i \in DOMAIN queue}
Distinct(queue) ==
    \A i, j \in DOMAIN queue :
        Inventory(queue[i].turns) = Inventory(queue[j].turns) => i = j
Elements(queue) == {queue[i] : i \in DOMAIN queue}

\* recoverBatch: a batch is appended.
LEMMA QueueAppend ==
    ASSUME NEW queue \in Seq(Batch), NEW b \in Batch
    PROVE  LET longer == Append(queue, b) IN
           /\ longer \in Seq(Batch) /\ longer # <<>>
           /\ Ids(longer) = Ids(queue) \cup {Inventory(b.turns)}
           /\ Elements(longer) = Elements(queue) \cup {b}
           /\ Distinct(queue) /\ Inventory(b.turns) \notin Ids(queue) => Distinct(longer)
<1> DEFINE longer == Append(queue, b)
<1>1. /\ longer \in Seq(Batch) /\ longer # <<>>
      /\ Len(longer) = Len(queue) + 1
      /\ \A i \in 1 .. Len(queue) : longer[i] = queue[i]
      /\ longer[Len(queue) + 1] = b
  BY AppendProperties
<1>2. DOMAIN queue = 1 .. Len(queue) /\ DOMAIN longer = 1 .. (Len(queue) + 1)
      /\ Len(queue) \in Nat
  BY <1>1, LenProperties
<1> HIDE DEF longer
<1>3. \A i \in DOMAIN longer : i \in DOMAIN queue \/ i = Len(queue) + 1
  BY <1>2
<1>4. DOMAIN queue \subseteq DOMAIN longer /\ Len(queue) + 1 \in DOMAIN longer
  BY <1>2
<1>5. \A i \in DOMAIN queue : longer[i] = queue[i]
  BY <1>1, <1>2
<1>6. Elements(longer) = Elements(queue) \cup {b}
  BY <1>1, <1>3, <1>4, <1>5 DEF Elements
<1>7. Ids(longer) = Ids(queue) \cup {Inventory(b.turns)}
  BY <1>1, <1>3, <1>4, <1>5 DEF Ids
<1>8. ASSUME Distinct(queue), Inventory(b.turns) \notin Ids(queue)
      PROVE  Distinct(longer)
  BY <1>1, <1>3, <1>5, <1>8 DEF Distinct, Ids
<1> QED
  BY <1>1, <1>6, <1>7, <1>8 DEF longer

\* The catch clause of flush: the batch in flight goes back to the head.
LEMMA QueuePrepend ==
    ASSUME NEW queue \in Seq(Batch), NEW b \in Batch
    PROVE  LET longer == <<b>> \o queue IN
           /\ longer \in Seq(Batch) /\ longer # <<>>
           /\ Ids(longer) = Ids(queue) \cup {Inventory(b.turns)}
           /\ Elements(longer) = Elements(queue) \cup {b}
           /\ Distinct(queue) /\ Inventory(b.turns) \notin Ids(queue) => Distinct(longer)
<1> DEFINE longer == <<b>> \o queue
<1>1. <<b>> \in Seq(Batch) /\ Len(<<b>>) = 1 /\ <<b>>[1] = b
  OBVIOUS
<1>2. /\ longer \in Seq(Batch)
      /\ Len(longer) = 1 + Len(queue)
      /\ \A i \in 1 .. 1 + Len(queue) :
             longer[i] = IF i <= 1 THEN <<b>>[i] ELSE queue[i - 1]
  BY <1>1, ConcatProperties
<1>3. DOMAIN queue = 1 .. Len(queue) /\ DOMAIN longer = 1 .. (Len(queue) + 1)
      /\ Len(queue) \in Nat
  BY <1>2, LenProperties
<1>4. longer # <<>>
  BY <1>2, <1>3
<1> HIDE DEF longer
<1>5. \A i \in DOMAIN longer :
          (i = 1 /\ longer[i] = b) \/ (i - 1 \in DOMAIN queue /\ longer[i] = queue[i - 1])
  BY <1>1, <1>2, <1>3
<1>6. 1 \in DOMAIN longer /\ longer[1] = b
  BY <1>1, <1>2, <1>3
<1>7. \A i \in DOMAIN queue : i + 1 \in DOMAIN longer /\ longer[i + 1] = queue[i]
  BY <1>2, <1>3
<1>8. Elements(longer) = Elements(queue) \cup {b}
  BY <1>5, <1>6, <1>7 DEF Elements
<1>9. Ids(longer) = Ids(queue) \cup {Inventory(b.turns)}
  BY <1>5, <1>6, <1>7 DEF Ids
<1>10. ASSUME Distinct(queue), Inventory(b.turns) \notin Ids(queue)
       PROVE  Distinct(longer)
  <2> SUFFICES ASSUME NEW i \in DOMAIN longer, NEW j \in DOMAIN longer,
                      Inventory(longer[i].turns) = Inventory(longer[j].turns)
               PROVE  i = j
    BY DEF Distinct
  <2>1. i \in Int /\ j \in Int
    BY <1>3
  <2>2. CASE i = 1 /\ longer[i] = b
    BY <1>5, <1>10, <2>2 DEF Ids
  <2>3. CASE j = 1 /\ longer[j] = b
    BY <1>5, <1>10, <2>3 DEF Ids
  <2>4. CASE /\ i - 1 \in DOMAIN queue /\ longer[i] = queue[i - 1]
             /\ j - 1 \in DOMAIN queue /\ longer[j] = queue[j - 1]
    <3>1. i - 1 = j - 1
      BY <1>10, <2>4 DEF Distinct
    <3> QED
      BY <2>1, <3>1
  <2> QED
    BY <1>5, <2>2, <2>3, <2>4
<1> QED
  BY <1>2, <1>4, <1>8, <1>9, <1>10 DEF longer

\* nextBatch: the head is taken.
LEMMA QueueTake ==
    ASSUME NEW queue \in Seq(Batch), queue # <<>>
    PROVE  /\ Head(queue) \in Batch /\ Tail(queue) \in Seq(Batch)
           /\ Ids(queue) = Ids(Tail(queue)) \cup {Inventory(Head(queue).turns)}
           /\ Elements(queue) = Elements(Tail(queue)) \cup {Head(queue)}
           /\ Distinct(queue) => /\ Distinct(Tail(queue))
                                 /\ Inventory(Head(queue).turns) \notin Ids(Tail(queue))
<1> DEFINE rest == Tail(queue)
<1>1. /\ Head(queue) \in Batch /\ rest \in Seq(Batch)
      /\ Len(rest) = Len(queue) - 1
      /\ \A i \in 1 .. Len(rest) : rest[i] = queue[i + 1]
  BY HeadTailProperties
<1>2. DOMAIN queue = 1 .. Len(queue) /\ DOMAIN rest = 1 .. Len(rest)
      /\ Len(queue) \in Nat \ {0} /\ Len(rest) \in Nat
  BY <1>1, LenProperties, EmptySeq
<1>3. Head(queue) = queue[1] /\ 1 \in DOMAIN queue
  BY <1>2
<1> HIDE DEF rest
<1>4. \A i \in DOMAIN rest : i + 1 \in DOMAIN queue /\ rest[i] = queue[i + 1] /\ i + 1 # 1
  BY <1>1, <1>2
<1>5. \A i \in DOMAIN queue : i = 1 \/ (i - 1 \in DOMAIN rest /\ rest[i - 1] = queue[i])
  BY <1>1, <1>2
<1>6. Elements(queue) = Elements(rest) \cup {Head(queue)}
  BY <1>3, <1>4, <1>5 DEF Elements
<1>7. Ids(queue) = Ids(rest) \cup {Inventory(Head(queue).turns)}
  BY <1>3, <1>4, <1>5 DEF Ids
<1>8. ASSUME Distinct(queue)
      PROVE  Distinct(rest) /\ Inventory(Head(queue).turns) \notin Ids(rest)
  <2>1. ASSUME NEW i \in DOMAIN rest, NEW j \in DOMAIN rest,
               Inventory(rest[i].turns) = Inventory(rest[j].turns)
        PROVE  i = j
    <3>1. i + 1 = j + 1
      BY <1>4, <1>8, <2>1 DEF Distinct
    <3> QED
      BY <1>2, <3>1
  <2>2. Inventory(Head(queue).turns) \notin Ids(rest)
    BY <1>3, <1>4, <1>8 DEF Distinct, Ids
  <2> QED
    BY <2>1, <2>2 DEF Distinct
<1> QED
  BY <1>1, <1>6, <1>7, <1>8 DEF rest

\* An empty queue.
LEMMA QueueEmpty == Ids(<<>>) = {} /\ Elements(<<>>) = {} /\ Distinct(<<>>)
  BY DEF Ids, Elements, Distinct

-----------------------------------------------------------------------------
(***************************************************************************)
(* The inductive invariant of a scheduler S, for the revisions a handed to *)
(* it and the revisions c whose commit has resolved.                       *)
(***************************************************************************)
FieldTypes(S) ==
    /\ IsScheduler(S)
    /\ S.pendingTurns \subseteq Turn
    /\ S.pendingBatches \in Seq(Batch)
    /\ S.batch \in Batch
    /\ S.knownBatchIds \subseteq SUBSET (Segments \X Revisions)
    /\ S.gateCalls \in Nat /\ S.hourClaims \in Nat /\ S.burstClaims \in Nat
    /\ S.maxGateCalls \in GateLimits
    /\ S.phase \in {"idle", "begin", "detect", "commit"}
    /\ S.existing \subseteq Keys
    /\ S.accepted \subseteq Candidate
    /\ S.timer \in BOOLEAN /\ S.limitReached \in BOOLEAN
    /\ S.rateLimited \in BOOLEAN /\ S.disposed \in BOOLEAN

\* What an idle and a disposed scheduler hold; accepted lives until the commit.
PhaseInv(S) ==
    /\ ~Running(S) => S.batch = NoBatch
    /\ S.phase # "commit" => S.accepted = {}
    /\ S.disposed => S.pendingTurns = {} /\ S.pendingBatches = <<>> /\ ~S.timer

\* Queue, batch in flight and known ids agree: KnownBatchesExact without counting.
QueueInv(S) ==
    ~S.disposed =>
        /\ Distinct(S.pendingBatches)
        /\ S.knownBatchIds = Ids(S.pendingBatches) \cup
                                 (IF Running(S) THEN {Inventory(S.batch.turns)} ELSE {})
        /\ Running(S) => Inventory(S.batch.turns) \notin Ids(S.pendingBatches)

\* NothingDropped, and the memory of completed revisions holds committed ones only.
HandInv(S, a, c) ==
    /\ DOMAIN S.completed \subseteq c
    /\ ~S.disposed => a \subseteq Inventory(S.pendingTurns) \cup Inventory(S.batch.turns)
                                      \cup (UNION Ids(S.pendingBatches)) \cup c

\* BudgetsRespected, and a gate call that is not counted yet fits in the limit.
BudgetInv(S) ==
    /\ IsFiniteSet(S.accepted)
    /\ S.hourClaims + Cardinality(S.accepted) <= MaxClaimsPerHour
    /\ S.burstClaims + Cardinality(S.accepted) <= MaxBurstClaims
    /\ \E limit \in GateLimits : S.gateCalls <= limit
    /\ S.phase \in {"begin", "detect"} => \E limit \in GateLimits : S.gateCalls < limit

SchedulerInv(S, a, c) ==
    FieldTypes(S) /\ PhaseInv(S) /\ QueueInv(S) /\ HandInv(S, a, c) /\ BudgetInv(S)

\* WorkIsScheduled, of any scheduler.
Scheduled(S) == (~S.disposed /\ ~Running(S) /\ HasWork(S)) => S.timer \/ S.limitReached

-----------------------------------------------------------------------------
\* Inventories are sets of turn revisions.
LEMMA InventoryType ==
    /\ \A turns \in SUBSET Turn : Inventory(turns) \subseteq Segments \X Revisions
    /\ \A t \in Turn : TurnRevision(t) \in Segments \X Revisions
    /\ NoBatch \in Batch
    /\ Inventory(NoBatch.turns) = {}
  BY DEF Inventory, TurnRevision, Turn, NoBatch, Batch

\* The test of the gate limit in flush.
LEMMA BelowLimit ==
    \A calls \in Nat, limit \in GateLimits : ~(calls >= limit) => calls < limit
<1> TAKE calls \in Nat, limit \in GateLimits
<1>1. limit \in Nat
  BY SchedulerOptions
<1> QED
  BY <1>1

\* A new scheduler.
LEMMA NewSchedulerInv ==
    ASSUME NEW limit \in GateLimits
    PROVE  SchedulerInv(NewScheduler(limit), {}, {}) /\ Scheduled(NewScheduler(limit))
<1> DEFINE S == NewScheduler(limit)
<1>1. IsScheduler(S)
  BY NewSchedulerFields
<1>2. FieldTypes(S)
  BY <1>1, InventoryType, EmptySeq DEF FieldTypes, NewScheduler
<1>3. PhaseInv(S) /\ Scheduled(S)
  BY DEF PhaseInv, NewScheduler, Running, Scheduled, HasWork
<1>4. QueueInv(S)
  BY QueueEmpty DEF QueueInv, NewScheduler, Running
<1>5. HandInv(S, {}, {})
  BY DEF HandInv, NewScheduler
<1>6. BudgetInv(S)
  <2>1. IsFiniteSet({}) /\ Cardinality({}) = 0
    BY FS_EmptySet
  <2>2. limit \in Nat /\ 0 <= limit
    BY SchedulerOptions
  <2> QED
    BY <2>1, <2>2, SchedulerOptions DEF BudgetInv, NewScheduler
<1> QED
  BY <1>2, <1>3, <1>4, <1>5, <1>6 DEF SchedulerInv

\* The timer is set or cleared, or the notice of the limit: nothing else matters.
LEMMA TimerInv ==
    ASSUME NEW S, NEW T, NEW a, NEW c, SchedulerInv(S, a, c), IsScheduler(T),
           SameBut(S, T, {"timer", "limitReached"}),
           T.timer \in BOOLEAN, T.limitReached \in BOOLEAN, T.disposed => ~T.timer
    PROVE  SchedulerInv(T, a, c)
<1> USE DEF SchedulerInv, SameBut, Fields
<1>1. FieldTypes(T)
  BY DEF FieldTypes
<1>2. PhaseInv(T)
  BY DEF PhaseInv, Running
<1>3. QueueInv(T)
  BY DEF QueueInv, Running
<1>4. HandInv(T, a, c)
  BY DEF HandInv
<1>5. BudgetInv(T)
  BY DEF BudgetInv
<1> QED
  BY <1>1, <1>2, <1>3, <1>4, <1>5

\* flush up to its first await.
LEMMA FlushInv ==
    ASSUME NEW S, NEW a, NEW c, NEW listed \in SUBSET Keys, SchedulerInv(S, a, c)
    PROVE  LET T == Flush(S, listed) IN
           SchedulerInv(T, a, c) /\ Scheduled(T)
<1> DEFINE T == Flush(S, listed)
           E == Earliest(S.pendingTurns)
<1>1. IsScheduler(S)
  BY DEF SchedulerInv, FieldTypes
<1>2. CASE T = S /\ (S.disposed \/ Running(S) \/ ~HasWork(S))
  BY <1>2 DEF Scheduled
<1>3. CASE SameBut(S, T, {"limitReached"}) /\ T.limitReached = TRUE
  <2>1. IsScheduler(T)
    BY <1>1, FlushFields
  <2>2. SameBut(S, T, {"timer", "limitReached"})
    BY <1>3 DEF SameBut
  <2>3. T.timer \in BOOLEAN /\ (T.disposed => ~T.timer)
    BY <1>3 DEF SameBut, Fields, SchedulerInv, FieldTypes, PhaseInv
  <2> HIDE DEF T
  <2>4. SchedulerInv(T, a, c)
    BY <1>3, <2>1, <2>2, <2>3, TimerInv
  <2> QED
    BY <1>3, <2>4 DEF Scheduled, T
<1>4. CASE /\ ~S.disposed /\ ~Running(S) /\ ~(S.gateCalls >= S.maxGateCalls)
           /\ T.phase \in {"begin", "detect"} /\ T.existing \in {S.existing, listed}
           /\ S.pendingBatches # <<>>
           /\ SameBut(S, T, {"batch", "pendingBatches", "phase", "existing"})
           /\ T.batch = Head(S.pendingBatches)
           /\ T.pendingBatches = Tail(S.pendingBatches)
  <2>1. IsScheduler(T)
    BY <1>1, FlushFields
  <2> HIDE DEF T
  <2> USE DEF SchedulerInv, SameBut, Fields
  <2>2. S.pendingBatches \in Seq(Batch)
    BY DEF FieldTypes
  <2> DEFINE queue == S.pendingBatches
  <2>3. /\ Head(queue) \in Batch /\ Tail(queue) \in Seq(Batch)
        /\ Ids(queue) = Ids(Tail(queue)) \cup {Inventory(Head(queue).turns)}
        /\ Distinct(queue) => /\ Distinct(Tail(queue))
                              /\ Inventory(Head(queue).turns) \notin Ids(Tail(queue))
    BY <1>4, <2>2, QueueTake
  <2>4. FieldTypes(T)
    BY <1>4, <2>1, <2>3 DEF FieldTypes
  <2>5. PhaseInv(T)
    BY <1>4 DEF PhaseInv, Running
  <2>6. QueueInv(T)
    BY <1>4, <2>3 DEF QueueInv, Running
  <2>7. HandInv(T, a, c)
    BY <1>4, <2>3, InventoryType DEF HandInv, PhaseInv
  <2>8. BudgetInv(T)
    <3>1. S.maxGateCalls \in GateLimits /\ S.gateCalls \in Nat
      BY DEF FieldTypes
    <3>2. ~(S.gateCalls >= S.maxGateCalls)
      BY <1>4
    <3>3. S.gateCalls < S.maxGateCalls
      BY <3>1, <3>2, BelowLimit
    <3> QED
      BY <1>4, <3>1, <3>3 DEF BudgetInv
  <2>9. Running(T)
    BY <1>4 DEF Running
  <2> QED
    BY <2>4, <2>5, <2>6, <2>7, <2>8, <2>9 DEF Scheduled, T
<1>5. CASE /\ ~S.disposed /\ ~Running(S) /\ ~(S.gateCalls >= S.maxGateCalls)
           /\ T.phase \in {"begin", "detect"} /\ T.existing \in {S.existing, listed}
           /\ S.pendingBatches = <<>>
           /\ SameBut(S, T, {"batch", "pendingTurns", "knownBatchIds", "phase", "existing"})
           /\ T.batch = [turns |-> E, begun |-> FALSE]
           /\ T.pendingTurns = S.pendingTurns \ E
           /\ T.knownBatchIds = S.knownBatchIds \cup {Inventory(E)}
  <2>1. IsScheduler(T)
    BY <1>1, FlushFields
  <2>2. E \subseteq S.pendingTurns
    BY DEF Earliest
  <2> HIDE DEF T, E
  <2> USE DEF SchedulerInv, SameBut, Fields
  <2>3. E \in SUBSET Turn /\ T.batch \in Batch /\ T.batch.turns = E
        /\ Inventory(E) \in SUBSET (Segments \X Revisions)
    BY <1>4, <1>5, <2>2, InventoryType DEF FieldTypes, Batch
  <2>4. FieldTypes(T)
    BY <1>5, <2>1, <2>3 DEF FieldTypes
  <2>5. PhaseInv(T)
    BY <1>5 DEF PhaseInv, Running
  <2>6. QueueInv(T)
    BY <1>5, <2>3, QueueEmpty DEF QueueInv, Running
  <2>7. HandInv(T, a, c)
    <3>1. Inventory(S.pendingTurns) = Inventory(T.pendingTurns) \cup Inventory(T.batch.turns)
      BY <1>5, <2>2, <2>3 DEF Inventory
    <3>2. Inventory(S.batch.turns) = {}
      BY <1>5, InventoryType DEF PhaseInv
    <3> QED
      BY <1>5, <3>1, <3>2 DEF HandInv
  <2>8. BudgetInv(T)
    <3>1. S.maxGateCalls \in GateLimits /\ S.gateCalls \in Nat
      BY DEF FieldTypes
    <3>2. ~(S.gateCalls >= S.maxGateCalls)
      BY <1>5
    <3>3. S.gateCalls < S.maxGateCalls
      BY <3>1, <3>2, BelowLimit
    <3> QED
      BY <1>5, <3>1, <3>3 DEF BudgetInv
  <2>9. Running(T)
    BY <1>5 DEF Running
  <2> QED
    BY <2>4, <2>5, <2>6, <2>7, <2>8, <2>9 DEF Scheduled, T
<1> QED
  BY <1>1, <1>2, <1>3, <1>4, <1>5, FlushFields

-----------------------------------------------------------------------------
\* The timer callback: the timer is gone, then flush runs.
LEMMA FlushTimerInv ==
    ASSUME NEW S, NEW a, NEW c, NEW listed \in SUBSET Keys, SchedulerInv(S, a, c)
    PROVE  SchedulerInv(FlushTimer(S, listed), a, c) /\ Scheduled(FlushTimer(S, listed))
<1> DEFINE T == [S EXCEPT !.timer = FALSE]
<1>1. IsScheduler(S) /\ S.limitReached \in BOOLEAN
  BY DEF SchedulerInv, FieldTypes
<1>2. /\ IsScheduler(T) /\ SameBut(S, T, {"timer", "limitReached"})
      /\ T.timer = FALSE /\ T.limitReached = S.limitReached
  BY <1>1 DEF IsScheduler, SameBut, Fields
<1> HIDE DEF T
<1>3. SchedulerInv(T, a, c)
  BY <1>1, <1>2, TimerInv
<1> QED
  BY <1>3, FlushInv DEF FlushTimer, T

\* A turn is added to the pending ones.
LEMMA PendingTurnInv ==
    ASSUME NEW S, NEW a, NEW c, NEW t \in Turn, SchedulerInv(S, a, c), ~S.disposed
    PROVE  LET T == [S EXCEPT !.pendingTurns = S.pendingTurns \cup {t}] IN
           SchedulerInv(T, a \cup {TurnRevision(t)}, c) /\ ~T.disposed
<1> DEFINE T == [S EXCEPT !.pendingTurns = S.pendingTurns \cup {t}]
<1>1. IsScheduler(S)
  BY DEF SchedulerInv, FieldTypes
<1>2. /\ IsScheduler(T) /\ SameBut(S, T, {"pendingTurns"})
      /\ T.pendingTurns = S.pendingTurns \cup {t}
  BY <1>1 DEF IsScheduler, SameBut, Fields
<1> HIDE DEF T
<1> USE DEF SchedulerInv, SameBut, Fields
<1>3. FieldTypes(T)
  BY <1>2 DEF FieldTypes
<1>4. PhaseInv(T)
  BY <1>2 DEF PhaseInv, Running
<1>5. QueueInv(T)
  BY <1>2 DEF QueueInv, Running
<1>6. HandInv(T, a \cup {TurnRevision(t)}, c)
  <2>1. Inventory(T.pendingTurns) = Inventory(S.pendingTurns) \cup {TurnRevision(t)}
    BY <1>2 DEF Inventory
  <2> QED
    BY <1>2, <2>1 DEF HandInv
<1>7. BudgetInv(T)
  BY <1>2 DEF BudgetInv
<1>8. ~T.disposed
  BY <1>2
<1> QED
  BY <1>3, <1>4, <1>5, <1>6, <1>7, <1>8 DEF T

\* scheduleFlush of a live scheduler.
LEMMA ScheduleFlushInv ==
    ASSUME NEW S, NEW a, NEW c, SchedulerInv(S, a, c), ~S.disposed
    PROVE  SchedulerInv(ScheduleFlush(S), a, c) /\ Scheduled(ScheduleFlush(S))
<1> DEFINE T == ScheduleFlush(S)
<1>1. IsScheduler(S) /\ S.limitReached \in BOOLEAN
  BY DEF SchedulerInv, FieldTypes
<1>2. /\ IsScheduler(T) /\ SameBut(S, T, {"timer"})
      /\ T.timer = (S.timer \/ ~S.disposed)
  BY <1>1, ScheduleFlushFields
<1> HIDE DEF T
<1>3. T.timer /\ T.timer \in BOOLEAN
  BY <1>2
<1>4. SameBut(S, T, {"timer", "limitReached"}) /\ T.limitReached = S.limitReached
  BY <1>2 DEF SameBut, Fields
<1>5. ~T.disposed
  BY <1>2 DEF SameBut, Fields
<1>6. SchedulerInv(T, a, c)
  BY <1>1, <1>2, <1>3, <1>4, <1>5, TimerInv
<1> QED
  BY <1>3, <1>6 DEF Scheduled, T

\* A turn that hasTurnRevision knows is in hand or committed.
LEMMA KnownTurn ==
    ASSUME NEW S, NEW a, NEW c, NEW t \in Turn, SchedulerInv(S, a, c),
           HasTurnRevision(S, t)
    PROVE  HandInv(S, a \cup {TurnRevision(t)}, c)
<1>1. ASSUME NEW b \in QueuedBatches(S) PROVE Inventory(b.turns) \in Ids(S.pendingBatches)
  BY DEF Ids, QueuedBatches
<1>2. TurnRevision(t) \in Inventory(S.pendingTurns) \cup (UNION Ids(S.pendingBatches)) \cup c
  <2>1. CASE TurnRevision(t) \in Inventory(S.pendingTurns)
    BY <2>1
  <2>2. CASE TurnRevision(t) \in DOMAIN S.completed
    <3>1. DOMAIN S.completed \subseteq c
      BY DEF SchedulerInv, HandInv
    <3> QED
      BY <2>2, <3>1
  <2>3. CASE \E b \in QueuedBatches(S) : TurnRevision(t) \in Inventory(b.turns)
    BY <1>1, <2>3
  <2> QED
    BY <2>1, <2>2, <2>3 DEF HasTurnRevision
<1> QED
  BY <1>2 DEF SchedulerInv, HandInv

\* addFinalTurn, with the flush it may start.
LEMMA AddFinalTurnInv ==
    ASSUME NEW S, NEW a, NEW c, NEW t \in Turn, NEW listed \in SUBSET Keys,
           SchedulerInv(S, a, c), Scheduled(S)
    PROVE  LET T == AddFinalTurn(S, t, listed)
               b == IF S.disposed THEN a ELSE a \cup {TurnRevision(t)} IN
           SchedulerInv(T, b, c) /\ Scheduled(T)
<1> DEFINE P == [S EXCEPT !.pendingTurns = S.pendingTurns \cup {t}]
<1>1. CASE S.disposed
  BY <1>1 DEF AddFinalTurn
<1>2. CASE ~S.disposed /\ HasTurnRevision(S, t)
  BY <1>2, KnownTurn DEF AddFinalTurn, SchedulerInv
<1>3. CASE ~S.disposed /\ ~HasTurnRevision(S, t)
  <2>1. SchedulerInv(P, a \cup {TurnRevision(t)}, c) /\ ~P.disposed
    BY <1>3, PendingTurnInv
  <2>2. AddFinalTurn(S, t, listed) = IF Cardinality(P.pendingTurns) >= MaxTurnsPerBatch
                                     THEN Flush(P, listed) ELSE ScheduleFlush(P)
    BY <1>3 DEF AddFinalTurn
  <2> HIDE DEF P
  <2>3. SchedulerInv(Flush(P, listed), a \cup {TurnRevision(t)}, c) /\ Scheduled(Flush(P, listed))
    BY <2>1, FlushInv
  <2>4. SchedulerInv(ScheduleFlush(P), a \cup {TurnRevision(t)}, c) /\ Scheduled(ScheduleFlush(P))
    BY <2>1, ScheduleFlushInv
  <2> QED
    BY <1>3, <2>2, <2>3, <2>4
<1> QED
  BY <1>1, <1>2, <1>3

\* recoverBatch.
LEMMA RecoverBatchInv ==
    ASSUME NEW S, NEW a, NEW c, NEW turns \in SUBSET Turn,
           SchedulerInv(S, a, c), Scheduled(S)
    PROVE  LET T == RecoverBatch(S, turns)
               b == IF S.disposed THEN a ELSE a \cup Inventory(turns) IN
           SchedulerInv(T, b, c) /\ Scheduled(T)
<1> DEFINE new == [turns |-> turns, begun |-> TRUE]
           P == [S EXCEPT !.knownBatchIds = S.knownBatchIds \cup {Inventory(turns)},
                          !.pendingBatches = Append(S.pendingBatches, new)]
<1>1. CASE S.disposed
  BY <1>1 DEF RecoverBatch
<1>2. CASE ~S.disposed /\ (turns = {} \/ Inventory(turns) \in S.knownBatchIds)
  <2>1. Inventory(turns) \subseteq Inventory(S.batch.turns) \cup (UNION Ids(S.pendingBatches))
    <3>1. CASE turns = {}
      BY <3>1 DEF Inventory
    <3>2. CASE Inventory(turns) \in S.knownBatchIds
      BY <1>2, <3>2 DEF SchedulerInv, QueueInv
    <3> QED
      BY <1>2, <3>1, <3>2
  <2>2. HandInv(S, a \cup Inventory(turns), c)
    BY <2>1 DEF SchedulerInv, HandInv
  <2> QED
    BY <1>2, <2>2 DEF RecoverBatch, SchedulerInv
<1>3. CASE ~S.disposed /\ ~(turns = {} \/ Inventory(turns) \in S.knownBatchIds)
  <2>1. IsScheduler(S) /\ S.pendingBatches \in Seq(Batch)
    BY DEF SchedulerInv, FieldTypes
  <2>2. new \in Batch /\ new.turns = turns /\ Inventory(turns) \in SUBSET (Segments \X Revisions)
    BY InventoryType DEF Batch
  <2> HIDE DEF new
  <2>3. /\ IsScheduler(P) /\ SameBut(S, P, {"knownBatchIds", "pendingBatches"})
        /\ P.knownBatchIds = S.knownBatchIds \cup {Inventory(turns)}
        /\ P.pendingBatches = Append(S.pendingBatches, new)
    BY <2>1 DEF IsScheduler, SameBut, Fields
  <2> DEFINE longer == Append(S.pendingBatches, new)
  <2>4. /\ longer \in Seq(Batch) /\ longer # <<>>
        /\ Ids(longer) = Ids(S.pendingBatches) \cup {Inventory(turns)}
        /\ Distinct(S.pendingBatches) /\ Inventory(turns) \notin Ids(S.pendingBatches)
               => Distinct(longer)
    BY <2>1, <2>2, QueueAppend
  <2>5. RecoverBatch(S, turns) = ScheduleFlush(P)
    BY <1>3 DEF RecoverBatch, new
  <2> HIDE DEF P, longer
  <2>6. P.pendingBatches = longer
    BY <2>3 DEF longer
  <2> USE DEF SchedulerInv, SameBut, Fields
  <2>7. FieldTypes(P)
    BY <2>2, <2>3, <2>4, <2>6 DEF FieldTypes
  <2>8. PhaseInv(P)
    BY <1>3, <2>3 DEF PhaseInv, Running
  <2>9. QueueInv(P)
    BY <1>3, <2>3, <2>4, <2>6 DEF QueueInv, Running
  <2>10. HandInv(P, a \cup Inventory(turns), c)
    BY <1>3, <2>3, <2>4, <2>6 DEF HandInv
  <2>11. BudgetInv(P)
    BY <2>3 DEF BudgetInv
  <2>12. ~P.disposed
    BY <1>3, <2>3
  <2>13. SchedulerInv(P, a \cup Inventory(turns), c)
    BY <2>7, <2>8, <2>9, <2>10, <2>11
  <2> QED
    BY <1>3, <2>5, <2>12, <2>13, ScheduleFlushInv
<1> QED
  BY <1>1, <1>2, <1>3

-----------------------------------------------------------------------------
\* The finally clause after dispose: nothing is left, and no timer is set.
LEMMA SettleDisposedInv ==
    ASSUME NEW S, NEW a, NEW c, NEW d, SchedulerInv(S, a, c), c \subseteq d, S.disposed
    PROVE  LET T == Settle(S) IN
           SchedulerInv(T, a, d) /\ Scheduled(T) /\ T.disposed
<1> DEFINE T == Settle(S)
<1> USE DEF SchedulerInv
<1>1. IsScheduler(S) /\ ~HasWork(S) /\ ~S.timer /\ S.timer \in BOOLEAN
  BY DEF FieldTypes, PhaseInv, HasWork
<1>2. /\ IsScheduler(T)
      /\ SameBut(S, T, {"phase", "batch", "existing", "accepted", "rateLimited", "timer"})
      /\ T.phase = "idle" /\ T.batch = NoBatch /\ T.existing = {} /\ T.accepted = {}
      /\ T.rateLimited = FALSE
      /\ T.timer = IF HasWork(S) THEN S.timer \/ ~S.disposed ELSE S.timer
  BY <1>1, SettleFields
<1>3. T.timer = FALSE
  BY <1>1, <1>2
<1> HIDE DEF T
<1> USE DEF SameBut, Fields
<1>4. FieldTypes(T)
  <2>1. T.disposed \in BOOLEAN /\ T.limitReached \in BOOLEAN
    BY <1>2 DEF FieldTypes
  <2>2. T.timer \in BOOLEAN /\ T.rateLimited \in BOOLEAN
    BY <1>2, <1>3
  <2> QED
    BY <1>2, <2>1, <2>2, InventoryType DEF FieldTypes
<1>5. PhaseInv(T)
  BY <1>2, <1>3 DEF PhaseInv, Running
<1>6. T.disposed
  BY <1>2
<1>7. QueueInv(T) /\ Scheduled(T)
  BY <1>6 DEF QueueInv, Scheduled
<1>8. HandInv(T, a, d)
  BY <1>2, <1>6 DEF HandInv
<1>9. BudgetInv(T)
  <2>1. IsFiniteSet({}) /\ Cardinality({}) = 0
    BY FS_EmptySet
  <2>2. Cardinality(S.accepted) \in Nat
    BY FS_CardinalityType DEF BudgetInv
  <2>3. S.hourClaims <= MaxClaimsPerHour /\ S.burstClaims <= MaxBurstClaims
    BY <2>2, SchedulerOptions DEF BudgetInv, FieldTypes
  <2>4. S.hourClaims + 0 <= MaxClaimsPerHour /\ S.burstClaims + 0 <= MaxBurstClaims
    BY <2>3 DEF FieldTypes
  <2> QED
    BY <1>2, <2>1, <2>4 DEF BudgetInv
<1> QED
  BY <1>4, <1>5, <1>6, <1>7, <1>8, <1>9 DEF T

\* The catch clause: the batch in flight is queued again.
LEMMA FailedFields ==
    ASSUME NEW S, IsScheduler(S), ~S.disposed, S.pendingBatches \in Seq(Batch), S.batch \in Batch
    PROVE  LET T == Failed(S) IN
           /\ IsScheduler(T)
           /\ SameBut(S, T, {"pendingBatches", "phase", "batch", "existing", "accepted",
                             "rateLimited", "timer"})
           /\ T.pendingBatches = <<S.batch>> \o S.pendingBatches
           /\ T.phase = "idle" /\ T.batch = NoBatch /\ T.existing = {} /\ T.accepted = {}
           /\ T.rateLimited = FALSE /\ T.timer = TRUE
<1> DEFINE queue == <<S.batch>> \o S.pendingBatches
           P == [S EXCEPT !.pendingBatches = queue]
<1>1. queue # <<>>
  BY QueuePrepend
<1> HIDE DEF queue
<1>2. IsScheduler(P) /\ SameBut(S, P, {"pendingBatches"}) /\ P.pendingBatches = queue
  BY DEF IsScheduler, SameBut, Fields
<1>3. Failed(S) = Settle(P)
  BY DEF Failed, queue
<1> HIDE DEF P
<1>4. HasWork(P) /\ ~P.disposed
  BY <1>1, <1>2 DEF HasWork, SameBut, Fields
<1> DEFINE T == Settle(P)
<1>5. /\ IsScheduler(T)
      /\ SameBut(P, T, {"phase", "batch", "existing", "accepted", "rateLimited", "timer"})
      /\ T.phase = "idle" /\ T.batch = NoBatch /\ T.existing = {} /\ T.accepted = {}
      /\ T.rateLimited = FALSE
      /\ T.timer = IF HasWork(P) THEN P.timer \/ ~P.disposed ELSE P.timer
  BY <1>2, SettleFields
<1>6. T.timer = TRUE
  BY <1>4, <1>5
<1> HIDE DEF T
<1>7. SameBut(S, T, {"pendingBatches", "phase", "batch", "existing", "accepted",
                     "rateLimited", "timer"})
      /\ T.pendingBatches = queue
  BY <1>2, <1>5 DEF SameBut, Fields
<1> QED
  BY <1>3, <1>5, <1>6, <1>7 DEF T, queue

\* The catch clause restores the queue as it was before nextBatch.
LEMMA FailedInv ==
    ASSUME NEW S, NEW a, NEW c, SchedulerInv(S, a, c), Running(S)
    PROVE  SchedulerInv(Failed(S), a, c) /\ Scheduled(Failed(S))
<1>1. CASE S.disposed
  BY <1>1, SettleDisposedInv DEF Failed
<1>2. CASE ~S.disposed
  <2> DEFINE T == Failed(S)
             queue == <<S.batch>> \o S.pendingBatches
  <2> USE DEF SchedulerInv
  <2>1. IsScheduler(S) /\ S.pendingBatches \in Seq(Batch) /\ S.batch \in Batch
    BY DEF FieldTypes
  <2>2. /\ IsScheduler(T)
        /\ SameBut(S, T, {"pendingBatches", "phase", "batch", "existing", "accepted",
                          "rateLimited", "timer"})
        /\ T.pendingBatches = queue
        /\ T.phase = "idle" /\ T.batch = NoBatch /\ T.existing = {} /\ T.accepted = {}
        /\ T.rateLimited = FALSE /\ T.timer = TRUE
    BY <1>2, <2>1, FailedFields
  <2>3. /\ queue \in Seq(Batch) /\ queue # <<>>
        /\ Ids(queue) = Ids(S.pendingBatches) \cup {Inventory(S.batch.turns)}
        /\ Distinct(S.pendingBatches) /\ Inventory(S.batch.turns) \notin Ids(S.pendingBatches)
               => Distinct(queue)
    BY <2>1, QueuePrepend
  <2> HIDE DEF T, queue
  <2> USE DEF SameBut, Fields
  <2>4. FieldTypes(T)
    BY <2>2, <2>3, InventoryType DEF FieldTypes
  <2>5. PhaseInv(T)
    BY <1>2, <2>2 DEF PhaseInv, Running
  <2>6. QueueInv(T)
    BY <1>2, <2>2, <2>3 DEF QueueInv, Running
  <2>7. HandInv(T, a, c)
    BY <1>2, <2>2, <2>3, InventoryType DEF HandInv
  <2>8. BudgetInv(T)
    <3>1. IsFiniteSet({}) /\ Cardinality({}) = 0
      BY FS_EmptySet
    <3>2. Cardinality(S.accepted) \in Nat
      BY FS_CardinalityType DEF BudgetInv
    <3>3. S.hourClaims <= MaxClaimsPerHour /\ S.burstClaims <= MaxBurstClaims
      BY <3>2, SchedulerOptions DEF BudgetInv, FieldTypes
    <3>4. S.hourClaims + 0 <= MaxClaimsPerHour /\ S.burstClaims + 0 <= MaxBurstClaims
      BY <3>3 DEF FieldTypes
    <3> QED
      BY <2>2, <3>1, <3>4 DEF BudgetInv
  <2>9. Scheduled(T)
    BY <2>2 DEF Scheduled
  <2> QED
    BY <2>4, <2>5, <2>6, <2>7, <2>8, <2>9 DEF T
<1> QED
  BY <1>1, <1>2 DEF SchedulerInv, FieldTypes

\* The continuation of await beginBatch.
LEMMA BeginSettledInv ==
    ASSUME NEW S, NEW a, NEW c, NEW ok \in BOOLEAN, NEW listed \in SUBSET Keys,
           SchedulerInv(S, a, c), S.phase = "begin"
    PROVE  LET T == BeginSettled(S, ok, listed) IN SchedulerInv(T, a, c) /\ Scheduled(T)
<1> DEFINE T == [S EXCEPT !.batch.begun = TRUE, !.existing = listed, !.phase = "detect"]
<1>1. CASE S.disposed
  BY <1>1, SettleDisposedInv DEF BeginSettled
<1>2. CASE ~S.disposed /\ ~ok
  BY <1>2, FailedInv DEF BeginSettled, Running
<1>3. CASE ~S.disposed /\ ok
  <2>1. BeginSettled(S, ok, listed) = T
    BY <1>3 DEF BeginSettled
  <2>2. IsScheduler(S) /\ S.batch \in Batch
    BY DEF SchedulerInv, FieldTypes
  <2>3. /\ IsScheduler(T) /\ SameBut(S, T, {"batch", "existing", "phase"})
        /\ T.existing = listed /\ T.phase = "detect"
        /\ T.batch = [S.batch EXCEPT !.begun = TRUE]
    BY <2>2 DEF IsScheduler, SameBut, Fields
  <2>4. T.batch \in Batch /\ T.batch.turns = S.batch.turns
    BY <2>2, <2>3, ZenonT(40) DEF Batch
  <2> HIDE DEF T
  <2> USE DEF SchedulerInv, SameBut, Fields
  <2>5. FieldTypes(T)
    BY <2>3, <2>4 DEF FieldTypes
  <2>6. PhaseInv(T) /\ Scheduled(T)
    BY <2>3 DEF PhaseInv, Running, Scheduled
  <2>7. QueueInv(T)
    BY <2>3, <2>4 DEF QueueInv, Running
  <2>8. HandInv(T, a, c)
    BY <2>3, <2>4 DEF HandInv
  <2>9. BudgetInv(T)
    BY <2>3 DEF BudgetInv
  <2> QED
    BY <2>1, <2>5, <2>6, <2>7, <2>8, <2>9
<1> QED
  BY <1>1, <1>2, <1>3 DEF SchedulerInv, FieldTypes

-----------------------------------------------------------------------------
\* What acceptedCandidates selects fits in both budgets of claims.
LEMMA AcceptedWithinBudgets ==
    ASSUME NEW S, FieldTypes(S), BudgetInv(S), S.accepted = {},
           NEW candidates \in CandidateSets,
           NEW accepted \in AcceptedCandidates(S, candidates)
    PROVE  /\ accepted \subseteq Candidate /\ IsFiniteSet(accepted)
           /\ S.hourClaims + Cardinality(accepted) <= MaxClaimsPerHour
           /\ S.burstClaims + Cardinality(accepted) <= MaxBurstClaims
<1> DEFINE new == NewCandidates(S, candidates)
           take == IF Cardinality(new) < RemainingClaims(S) THEN Cardinality(new)
                                                            ELSE RemainingClaims(S)
<1>1. /\ candidates \subseteq Candidate /\ IsFiniteSet(candidates)
      /\ accepted \subseteq new /\ Cardinality(accepted) = take
  BY DEF CandidateSets, AcceptedCandidates
<1>2. new \subseteq candidates
  BY DEF NewCandidates
<1>3. accepted \subseteq Candidate /\ IsFiniteSet(accepted) /\ IsFiniteSet(new)
  BY <1>1, <1>2, FS_Subset
<1>4. Cardinality(accepted) \in Nat /\ Cardinality(new) \in Nat
  BY <1>3, FS_CardinalityType
<1>5. Cardinality(S.accepted) = 0
  BY FS_EmptySet
<1>6. /\ S.hourClaims \in Nat /\ S.burstClaims \in Nat
      /\ S.hourClaims <= MaxClaimsPerHour /\ S.burstClaims <= MaxBurstClaims
  BY <1>5, SchedulerOptions DEF FieldTypes, BudgetInv
<1>7. /\ RemainingClaims(S) \in Nat
      /\ RemainingClaims(S) <= MaxClaimsPerHour - S.hourClaims
      /\ RemainingClaims(S) <= MaxBurstClaims - S.burstClaims
  BY <1>6, SchedulerOptions DEF RemainingClaims
<1>8. Cardinality(accepted) <= RemainingClaims(S)
  BY <1>1, <1>4, <1>7
<1> QED
  BY <1>3, <1>4, <1>6, <1>7, <1>8, SchedulerOptions

\* The continuation of await detect.
LEMMA DetectedInv ==
    ASSUME NEW S, NEW a, NEW c, NEW candidates \in CandidateSets,
           NEW accepted \in AcceptedCandidates(S, candidates), NEW counted \in BOOLEAN,
           SchedulerInv(S, a, c), S.phase = "detect"
    PROVE  LET T == Detected(S, candidates, accepted, counted) IN
           SchedulerInv(T, a, c) /\ Scheduled(T)
<1> DEFINE limited == accepted # NewCandidates(S, candidates)
           calls == S.gateCalls + (IF counted THEN 1 ELSE 0)
           T == [S EXCEPT !.gateCalls = calls, !.accepted = accepted,
                          !.rateLimited = limited, !.phase = "commit"]
<1>1. CASE S.disposed
  BY <1>1, SettleDisposedInv DEF Detected
<1>2. CASE ~S.disposed
  <2>1. Detected(S, candidates, accepted, counted) = T
    BY <1>2 DEF Detected
  <2>2. IsScheduler(S) /\ S.accepted = {}
    BY DEF SchedulerInv, FieldTypes, PhaseInv
  <2>3. limited \in BOOLEAN
    OBVIOUS
  <2> HIDE DEF limited, calls
  <2>4. /\ IsScheduler(T)
        /\ SameBut(S, T, {"gateCalls", "accepted", "rateLimited", "phase"})
        /\ T.gateCalls = calls /\ T.accepted = accepted /\ T.rateLimited = limited
        /\ T.phase = "commit"
    BY <2>2 DEF IsScheduler, SameBut, Fields
  <2>5. /\ accepted \subseteq Candidate /\ IsFiniteSet(accepted)
        /\ S.hourClaims + Cardinality(accepted) <= MaxClaimsPerHour
        /\ S.burstClaims + Cardinality(accepted) <= MaxBurstClaims
    BY <2>2, AcceptedWithinBudgets DEF SchedulerInv
  <2> HIDE DEF T
  <2> USE DEF SchedulerInv, SameBut, Fields
  <2>6. S.gateCalls \in Nat
    BY DEF FieldTypes
  <2>7. calls \in Nat /\ calls <= S.gateCalls + 1
    BY <2>6 DEF calls
  <2>8. FieldTypes(T)
    BY <2>3, <2>4, <2>5, <2>7 DEF FieldTypes
  <2>9. PhaseInv(T) /\ Scheduled(T)
    BY <1>2, <2>4 DEF PhaseInv, Running, Scheduled
  <2>10. QueueInv(T)
    BY <2>4 DEF QueueInv, Running
  <2>11. HandInv(T, a, c)
    BY <2>4 DEF HandInv
  <2>12. BudgetInv(T)
    <3>1. PICK limit \in GateLimits : S.gateCalls < limit
      BY DEF BudgetInv
    <3>2. limit \in Nat
      BY SchedulerOptions
    <3>3. calls <= limit
      BY <2>6, <2>7, <3>1, <3>2
    <3> QED
      BY <2>4, <2>5, <3>3 DEF BudgetInv
  <2> QED
    BY <2>1, <2>8, <2>9, <2>10, <2>11, <2>12
<1> QED
  BY <1>1, <1>2 DEF SchedulerInv, FieldTypes

\* Only revisions of the batch are added to the completed ones.
LEMMA MarkCompletedDomain ==
    ASSUME NEW completed, NEW turns
    PROVE  DOMAIN MarkCompleted(completed, turns) \subseteq DOMAIN completed \cup Inventory(turns)
  BY DEF MarkCompleted

\* A commit that resolved for a live scheduler.
LEMMA CommittedFields ==
    ASSUME NEW S, IsScheduler(S), ~S.disposed
    PROVE  LET T == CommitSettled(S, TRUE)
               count == Cardinality(S.accepted) IN
           /\ IsScheduler(T)
           /\ SameBut(S, T, {"knownBatchIds", "completed", "hourClaims", "burstClaims",
                             "limitReached", "phase", "batch", "existing", "accepted",
                             "rateLimited", "timer"})
           /\ T.knownBatchIds = S.knownBatchIds \ {Inventory(S.batch.turns)}
           /\ T.completed = MarkCompleted(S.completed, S.batch.turns)
           /\ T.hourClaims = S.hourClaims + count /\ T.burstClaims = S.burstClaims + count
           /\ T.limitReached = S.rateLimited
           /\ T.phase = "idle" /\ T.batch = NoBatch /\ T.existing = {} /\ T.accepted = {}
           /\ T.rateLimited = FALSE
           /\ T.timer = IF HasWork(S) THEN S.timer \/ ~S.disposed ELSE S.timer
<1> DEFINE ids == S.knownBatchIds \ {Inventory(S.batch.turns)}
           done == MarkCompleted(S.completed, S.batch.turns)
           hour == S.hourClaims + Cardinality(S.accepted)
           burst == S.burstClaims + Cardinality(S.accepted)
           P == [S EXCEPT !.knownBatchIds = ids, !.completed = done, !.hourClaims = hour,
                          !.burstClaims = burst, !.limitReached = S.rateLimited]
           T == Settle(P)
<1>1. CommitSettled(S, TRUE) = T
  BY DEF CommitSettled
<1> HIDE DEF ids, done, hour, burst
<1>2. /\ IsScheduler(P)
      /\ SameBut(S, P, {"knownBatchIds", "completed", "hourClaims", "burstClaims",
                        "limitReached"})
      /\ P.knownBatchIds = ids /\ P.completed = done /\ P.hourClaims = hour
      /\ P.burstClaims = burst /\ P.limitReached = S.rateLimited
  BY DEF IsScheduler, SameBut, Fields
<1> HIDE DEF P
<1>3. HasWork(P) = HasWork(S) /\ P.timer = S.timer /\ P.disposed = S.disposed
  BY <1>2 DEF HasWork, SameBut, Fields
<1>4. /\ IsScheduler(T)
      /\ SameBut(P, T, {"phase", "batch", "existing", "accepted", "rateLimited", "timer"})
      /\ T.phase = "idle" /\ T.batch = NoBatch /\ T.existing = {} /\ T.accepted = {}
      /\ T.rateLimited = FALSE
      /\ T.timer = IF HasWork(P) THEN P.timer \/ ~P.disposed ELSE P.timer
  BY <1>2, SettleFields
<1>5. T.timer = IF HasWork(S) THEN S.timer \/ ~S.disposed ELSE S.timer
  BY <1>3, <1>4
<1> HIDE DEF T
<1>6. SameBut(S, T, {"knownBatchIds", "completed", "hourClaims", "burstClaims",
                     "limitReached", "phase", "batch", "existing", "accepted",
                     "rateLimited", "timer"})
      /\ T.knownBatchIds = ids /\ T.completed = done /\ T.hourClaims = hour
      /\ T.burstClaims = burst /\ T.limitReached = S.rateLimited
  BY <1>2, <1>4 DEF SameBut, Fields
<1> QED
  BY <1>1, <1>4, <1>5, <1>6 DEF ids, done, hour, burst

\* The continuation of await commitBatch.
LEMMA CommitSettledInv ==
    ASSUME NEW S, NEW a, NEW c, NEW ok \in BOOLEAN, SchedulerInv(S, a, c), S.phase = "commit"
    PROVE  LET T == CommitSettled(S, ok)
               d == IF ok THEN c \cup Inventory(S.batch.turns) ELSE c IN
           SchedulerInv(T, a, d) /\ Scheduled(T)
<1> DEFINE T == CommitSettled(S, ok)
           d == IF ok THEN c \cup Inventory(S.batch.turns) ELSE c
<1>1. CASE S.disposed
  <2>1. T = Settle(S) /\ c \subseteq d
    BY <1>1 DEF CommitSettled
  <2> HIDE DEF T, d
  <2>2. SchedulerInv(T, a, d) /\ Scheduled(T)
    BY <1>1, <2>1, SettleDisposedInv
  <2> QED
    BY <2>2 DEF T, d
<1>2. CASE ~S.disposed /\ ~ok
  BY <1>2, FailedInv DEF CommitSettled, Running
<1>3. CASE ~S.disposed /\ ok
  <2>1. ok = TRUE /\ d = c \cup Inventory(S.batch.turns)
    BY <1>3
  <2>2. IsScheduler(S)
    BY DEF SchedulerInv, FieldTypes
  <2>3. /\ IsScheduler(T)
        /\ SameBut(S, T, {"knownBatchIds", "completed", "hourClaims", "burstClaims",
                          "limitReached", "phase", "batch", "existing", "accepted",
                          "rateLimited", "timer"})
        /\ T.knownBatchIds = S.knownBatchIds \ {Inventory(S.batch.turns)}
        /\ T.completed = MarkCompleted(S.completed, S.batch.turns)
        /\ T.hourClaims = S.hourClaims + Cardinality(S.accepted)
        /\ T.burstClaims = S.burstClaims + Cardinality(S.accepted)
        /\ T.limitReached = S.rateLimited
        /\ T.phase = "idle" /\ T.batch = NoBatch /\ T.existing = {} /\ T.accepted = {}
        /\ T.rateLimited = FALSE
        /\ T.timer = IF HasWork(S) THEN S.timer \/ ~S.disposed ELSE S.timer
    BY <1>3, <2>1, <2>2, CommittedFields
  <2> HIDE DEF T, d
  <2> USE DEF SchedulerInv, SameBut, Fields
  <2>4. Cardinality(S.accepted) \in Nat
    BY FS_CardinalityType DEF BudgetInv
  <2>5. T.timer \in BOOLEAN /\ (HasWork(T) => T.timer)
    BY <1>3, <2>3 DEF FieldTypes, HasWork
  <2>6. FieldTypes(T)
    <3>1. T.hourClaims \in Nat /\ T.burstClaims \in Nat
      BY <2>3, <2>4 DEF FieldTypes
    <3>2. T.limitReached \in BOOLEAN /\ T.rateLimited \in BOOLEAN /\ T.disposed \in BOOLEAN
      BY <2>3 DEF FieldTypes
    <3> QED
      BY <2>3, <2>5, <3>1, <3>2, InventoryType DEF FieldTypes
  <2>7. PhaseInv(T)
    BY <1>3, <2>3 DEF PhaseInv, Running
  <2>8. Scheduled(T)
    BY <2>5 DEF Scheduled
  <2>9. QueueInv(T)
    BY <1>3, <2>3 DEF QueueInv, Running
  <2>10. HandInv(T, a, d)
    <3>1. DOMAIN T.completed \subseteq d
      BY <2>1, <2>3, MarkCompletedDomain DEF HandInv
    <3> QED
      BY <1>3, <2>1, <2>3, <3>1, InventoryType DEF HandInv
  <2>11. BudgetInv(T)
    <3>1. IsFiniteSet({}) /\ Cardinality({}) = 0
      BY FS_EmptySet
    <3>2. /\ T.hourClaims + 0 <= MaxClaimsPerHour /\ T.burstClaims + 0 <= MaxBurstClaims
      <4>1. T.hourClaims \in Nat /\ T.burstClaims \in Nat
        BY <2>6 DEF FieldTypes
      <4>2. T.hourClaims <= MaxClaimsPerHour /\ T.burstClaims <= MaxBurstClaims
        BY <2>3 DEF BudgetInv
      <4> QED
        BY <4>1, <4>2
    <3> QED
      BY <2>3, <3>1, <3>2 DEF BudgetInv
  <2> QED
    BY <2>6, <2>7, <2>8, <2>9, <2>10, <2>11 DEF T, d
<1> QED
  BY <1>1, <1>2, <1>3 DEF SchedulerInv, FieldTypes

-----------------------------------------------------------------------------
\* setMaxGateCallsPerHour.
LEMMA SetMaxGateCallsPerHourInv ==
    ASSUME NEW S, NEW a, NEW c, NEW limit \in GateLimits, SchedulerInv(S, a, c), Scheduled(S)
    PROVE  LET T == SetMaxGateCallsPerHour(S, limit) IN SchedulerInv(T, a, c) /\ Scheduled(T)
<1> DEFINE T == [S EXCEPT !.maxGateCalls = limit]
           U == [T EXCEPT !.limitReached = FALSE]
<1>1. CASE S.disposed
  BY <1>1 DEF SetMaxGateCallsPerHour
<1>2. CASE ~S.disposed
  <2>1. SetMaxGateCallsPerHour(S, limit) =
            IF S.limitReached /\ S.gateCalls < limit /\ HasWork(S)
            THEN ScheduleFlush(U) ELSE T
    BY <1>2 DEF SetMaxGateCallsPerHour
  <2>2. IsScheduler(S)
    BY DEF SchedulerInv, FieldTypes
  <2>3. IsScheduler(T) /\ SameBut(S, T, {"maxGateCalls"}) /\ T.maxGateCalls = limit
    BY <2>2 DEF IsScheduler, SameBut, Fields
  <2> HIDE DEF T
  <2>4. IsScheduler(U) /\ SameBut(T, U, {"limitReached"}) /\ U.limitReached = FALSE
    BY <2>3 DEF IsScheduler, SameBut, Fields
  <2> HIDE DEF U
  <2>5. SchedulerInv(T, a, c) /\ Scheduled(T) /\ ~T.disposed
    <3> USE DEF SchedulerInv, SameBut, Fields
    <3>1. FieldTypes(T)
      BY <2>3 DEF FieldTypes
    <3>2. PhaseInv(T)
      BY <2>3 DEF PhaseInv, Running
    <3>3. QueueInv(T)
      BY <2>3 DEF QueueInv, Running
    <3>4. HandInv(T, a, c)
      BY <2>3 DEF HandInv
    <3>5. BudgetInv(T)
      BY <2>3 DEF BudgetInv
    <3>6. Scheduled(T)
      BY <2>3 DEF Scheduled, Running, HasWork
    <3>7. ~T.disposed
      BY <1>2, <2>3
    <3> QED
      BY <3>1, <3>2, <3>3, <3>4, <3>5, <3>6, <3>7
  <2>6. SchedulerInv(U, a, c) /\ ~U.disposed
    <3>1. SameBut(T, U, {"timer", "limitReached"}) /\ U.limitReached \in BOOLEAN
      BY <2>4 DEF SameBut
    <3>2. ~U.disposed
      BY <2>4, <2>5 DEF SameBut, Fields
    <3>3. U.timer = T.timer
      BY <2>4 DEF SameBut, Fields
    <3>4. U.timer \in BOOLEAN
      BY <2>5, <3>3 DEF SchedulerInv, FieldTypes
    <3> QED
      BY <2>4, <2>5, <3>1, <3>2, <3>4, TimerInv
  <2>7. SchedulerInv(ScheduleFlush(U), a, c) /\ Scheduled(ScheduleFlush(U))
    BY <2>6, ScheduleFlushInv
  <2> QED
    BY <2>1, <2>5, <2>7
<1> QED
  BY <1>1, <1>2

\* dispose.
LEMMA DisposeInv ==
    ASSUME NEW S, NEW a, NEW c, SchedulerInv(S, a, c)
    PROVE  SchedulerInv(Dispose(S), a, c) /\ Scheduled(Dispose(S))
<1> DEFINE T == Dispose(S)
<1>1. IsScheduler(S)
  BY DEF SchedulerInv, FieldTypes
<1>2. /\ IsScheduler(T)
      /\ SameBut(S, T, {"disposed", "timer", "pendingTurns", "pendingBatches",
                        "knownBatchIds", "completed"})
      /\ T.disposed = TRUE /\ T.timer = FALSE /\ T.pendingTurns = {}
      /\ T.pendingBatches = <<>> /\ T.knownBatchIds = {} /\ T.completed = <<>>
  BY <1>1 DEF IsScheduler, SameBut, Fields, Dispose
<1> HIDE DEF T
<1> USE DEF SchedulerInv, SameBut, Fields
<1>3. FieldTypes(T)
  <2>1. <<>> \in Seq(Batch)
    BY EmptySeq
  <2>2. T.disposed \in BOOLEAN /\ T.timer \in BOOLEAN
    BY <1>2
  <2> QED
    BY <1>2, <2>1, <2>2 DEF FieldTypes
<1>4. PhaseInv(T)
  BY <1>2 DEF PhaseInv, Running
<1>5. QueueInv(T) /\ Scheduled(T)
  BY <1>2 DEF QueueInv, Scheduled
<1>6. HandInv(T, a, c)
  <2>1. DOMAIN <<>> = {}
    OBVIOUS
  <2> QED
    BY <1>2, <2>1 DEF HandInv
<1>7. BudgetInv(T)
  BY <1>2 DEF BudgetInv
<1> QED
  BY <1>3, <1>4, <1>5, <1>6, <1>7 DEF T

\* Time passes: a budget has an entry less.
LEMMA ExpiryInv ==
    ASSUME NEW S, NEW T, NEW a, NEW c, SchedulerInv(S, a, c), Scheduled(S), IsScheduler(T),
           SameBut(S, T, {"gateCalls", "hourClaims", "burstClaims"}),
           T.gateCalls \in Nat, T.gateCalls <= S.gateCalls,
           T.hourClaims \in Nat, T.hourClaims <= S.hourClaims,
           T.burstClaims \in Nat, T.burstClaims <= S.burstClaims
    PROVE  SchedulerInv(T, a, c) /\ Scheduled(T)
<1> USE DEF SchedulerInv, SameBut, Fields
<1>1. FieldTypes(T)
  BY DEF FieldTypes
<1>2. PhaseInv(T) /\ Scheduled(T)
  BY DEF PhaseInv, Running, Scheduled, HasWork
<1>3. QueueInv(T)
  BY DEF QueueInv, Running
<1>4. HandInv(T, a, c)
  BY DEF HandInv
<1>5. BudgetInv(T)
  <2>1. /\ S.gateCalls \in Nat /\ S.hourClaims \in Nat /\ S.burstClaims \in Nat
        /\ T.accepted = S.accepted /\ T.phase = S.phase
    BY DEF FieldTypes
  <2>2. Cardinality(S.accepted) \in Nat
    BY FS_CardinalityType DEF BudgetInv
  <2>3. /\ T.hourClaims + Cardinality(T.accepted) <= MaxClaimsPerHour
        /\ T.burstClaims + Cardinality(T.accepted) <= MaxBurstClaims
    BY <2>1, <2>2, SchedulerOptions DEF BudgetInv
  <2>4. \A limit \in GateLimits : /\ S.gateCalls <= limit => T.gateCalls <= limit
                                  /\ S.gateCalls < limit => T.gateCalls < limit
    <3> TAKE limit \in GateLimits
    <3>1. limit \in Nat
      BY SchedulerOptions
    <3> QED
      BY <2>1, <3>1
  <2> QED
    BY <2>1, <2>3, <2>4 DEF BudgetInv
<1> QED
  BY <1>1, <1>2, <1>3, <1>4, <1>5

-----------------------------------------------------------------------------
(***************************************************************************)
(* The inductive invariant of the host.                                    *)
(***************************************************************************)
HostIInv ==
    /\ SchedulerInv(sched, added, committed)
    /\ Scheduled(sched)
    /\ added \subseteq Segments \X Revisions
    /\ committed \subseteq Segments \X Revisions

\* The host starts with a new scheduler.
LEMMA HostInitInv == HostInit => HostIInv
  BY NewSchedulerInv DEF HostInit, HostIInv

\* An entry leaves the window of a budget.
LEMMA TimePassesInv ==
    ASSUME HostIInv, TimePasses
    PROVE  SchedulerInv(sched, added, committed)' /\ Scheduled(sched)'
<1>1. /\ IsScheduler(sched) /\ sched.gateCalls \in Nat /\ sched.hourClaims \in Nat
      /\ sched.burstClaims \in Nat
  BY DEF HostIInv, SchedulerInv, FieldTypes
<1>2. UNCHANGED <<added, committed>>
  BY DEF TimePasses, ExpireGateCall, ExpireBurstClaim, ExpireHourClaim
<1>3. /\ IsScheduler(sched') /\ SameBut(sched, sched', {"gateCalls", "hourClaims", "burstClaims"})
      /\ sched'.gateCalls \in Nat /\ sched'.gateCalls <= sched.gateCalls
      /\ sched'.hourClaims \in Nat /\ sched'.hourClaims <= sched.hourClaims
      /\ sched'.burstClaims \in Nat /\ sched'.burstClaims <= sched.burstClaims
  <2>1. CASE ExpireGateCall
    BY <1>1, <2>1 DEF ExpireGateCall, GateCallExpires, IsScheduler, SameBut, Fields
  <2>2. CASE ExpireBurstClaim
    BY <1>1, <2>2 DEF ExpireBurstClaim, BurstClaimExpires, IsScheduler, SameBut, Fields
  <2>3. CASE ExpireHourClaim
    BY <1>1, <2>3 DEF ExpireHourClaim, HourClaimExpires, IsScheduler, SameBut, Fields
  <2> QED
    BY <2>1, <2>2, <2>3 DEF TimePasses
<1> QED
  BY <1>2, <1>3, ExpiryInv DEF HostIInv

\* One step of the host, action by action.
LEMMA HostNextInv == HostIInv /\ [HostNext]_hostVars => HostIInv'
<1> SUFFICES ASSUME HostIInv, [HostNext]_hostVars PROVE HostIInv'
  OBVIOUS
<1> USE DEF HostIInv
<1>1. ASSUME NEW t \in Turn, NEW listed \in SUBSET Keys, AddTurn(t, listed) PROVE HostIInv'
  BY <1>1, AddFinalTurnInv, InventoryType DEF AddTurn
<1>2. ASSUME NEW turns \in RecoverableBatches, Recover(turns) PROVE HostIInv'
  <2>1. turns \in SUBSET Turn
    BY RecoverableBatchesAssumption
  <2> QED
    BY <1>2, <2>1, RecoverBatchInv, InventoryType DEF Recover
<1>3. ASSUME NEW listed \in SUBSET Keys, FireTimer(listed) PROVE HostIInv'
  BY <1>3, FlushTimerInv DEF FireTimer
<1>4. ASSUME NEW ok \in BOOLEAN, NEW listed \in SUBSET Keys, SettleBegin(ok, listed)
      PROVE  HostIInv'
  BY <1>4, BeginSettledInv DEF SettleBegin, Awaits
<1>5. CASE DetectSettles
  <2>1. CASE RejectDetection
    BY <2>1, FailedInv DEF RejectDetection, DetectFailed, Awaits, Running
  <2>2. ASSUME NEW candidates \in CandidateSets, NEW accepted \in SUBSET candidates,
               NEW counted \in BOOLEAN, ResolveDetection(candidates, accepted, counted)
        PROVE  HostIInv'
    BY <2>2, DetectedInv DEF ResolveDetection, Awaits
  <2> QED
    BY <1>5, <2>1, <2>2 DEF DetectSettles
<1>6. ASSUME NEW ok \in BOOLEAN, SettleCommit(ok) PROVE HostIInv'
  <2>1. SchedulerInv(sched', added', committed') /\ Scheduled(sched')
    BY <1>6, CommitSettledInv DEF SettleCommit, Awaits
  <2>2. sched.batch.turns \in SUBSET Turn
    BY DEF SchedulerInv, FieldTypes, Batch
  <2> QED
    BY <1>6, <2>1, <2>2, InventoryType DEF SettleCommit
<1>7. ASSUME NEW limit \in GateLimits, SetLimit(limit) PROVE HostIInv'
  BY <1>7, SetMaxGateCallsPerHourInv DEF SetLimit
<1>8. CASE DisposeScheduler
  BY <1>8, DisposeInv DEF DisposeScheduler
<1>9. CASE TimePasses
  BY <1>9, TimePassesInv
  DEF TimePasses, ExpireGateCall, ExpireBurstClaim, ExpireHourClaim
<1>10. CASE UNCHANGED hostVars
  BY <1>10 DEF hostVars
<1> QED
  BY <1>1, <1>2, <1>3, <1>4, <1>5, <1>6, <1>7, <1>8, <1>9, <1>10 DEF HostNext

(***************************************************************************)
(* HostIInv holds whatever the host does and in whatever order the calls   *)
(* settle.                                                                 *)
(***************************************************************************)
THEOREM SchedulerInvariant == HostSpec => []HostIInv
<1>1. HostInit => HostIInv
  BY HostInitInv
<1>2. HostIInv /\ [HostNext]_hostVars => HostIInv'
  BY HostNextInv
<1> QED
  BY <1>1, <1>2, PTL DEF HostSpec

-----------------------------------------------------------------------------
\* A queue without repetitions has as many ids as batches.
LEMMA DistinctCardinality ==
    ASSUME NEW queue \in Seq(Batch), Distinct(queue)
    PROVE  Cardinality(Ids(queue)) = Len(queue)
<1> DEFINE idOf == [i \in DOMAIN queue |-> Inventory(queue[i].turns)]
<1>1. DOMAIN queue = 1 .. Len(queue) /\ Len(queue) \in Nat
  BY LenProperties
<1>2. IsFiniteSet(DOMAIN queue) /\ Cardinality(DOMAIN queue) = Len(queue)
  BY <1>1, FS_Interval, SMTT(30)
<1>3. idOf \in Surjection(DOMAIN queue, Ids(queue))
  BY DEF Surjection, Ids
<1>4. idOf \in Injection(DOMAIN queue, Ids(queue))
  BY <1>3 DEF Injection, IsInjective, Surjection, Distinct
<1> HIDE DEF idOf
<1>5. Cardinality(Ids(queue)) = Cardinality(DOMAIN queue)
  BY <1>2, <1>3, <1>4, FS_Surjection
<1> QED
  BY <1>2, <1>5

\* Queue and batch in flight, as one sequence, have distinct ids.
LEMMA KnownBatchesExactInv ==
    ASSUME HostIInv
    PROVE  KnownBatchesExact
<1> SUFFICES ASSUME ~sched.disposed PROVE KnownBatchesExact
  BY DEF KnownBatchesExact
<1> DEFINE queue == sched.pendingBatches
           batch == sched.batch
           held == queue \o (IF Running(sched) THEN <<batch>> ELSE <<>>)
<1>1. queue \in Seq(Batch) /\ batch \in Batch
  BY DEF HostIInv, SchedulerInv, FieldTypes
<1>2. /\ Distinct(queue)
      /\ sched.knownBatchIds = Ids(queue) \cup
                                   (IF Running(sched) THEN {Inventory(batch.turns)} ELSE {})
      /\ Running(sched) => Inventory(batch.turns) \notin Ids(queue)
  BY DEF HostIInv, SchedulerInv, QueueInv
<1>3. held \in Seq(Batch) /\ Distinct(held) /\ sched.knownBatchIds = Ids(held)
  <2>1. CASE Running(sched)
    <3>1. held = Append(queue, batch)
      BY <1>1, <2>1, AppendIsConcat
    <3> HIDE DEF held, queue, batch
    <3> QED
      BY <1>1, <1>2, <2>1, <3>1, QueueAppend
  <2>2. CASE ~Running(sched)
    <3>1. held = queue
      BY <1>1, <2>2, ConcatEmptySeq
    <3> HIDE DEF held, queue, batch
    <3> QED
      BY <1>1, <1>2, <2>2, <3>1
  <2> QED
    BY <2>1, <2>2
<1>4. Cardinality(sched.knownBatchIds) = Len(held)
  <2> HIDE DEF held
  <2> QED
    BY <1>3, DistinctCardinality
<1>5. sched.knownBatchIds = {Inventory(held[i].turns) : i \in DOMAIN held}
  BY <1>3 DEF Ids
<1> QED
  BY <1>4, <1>5 DEF KnownBatchesExact

(***************************************************************************)
(* What the class guarantees of every state follows from HostIInv.         *)
(***************************************************************************)
LEMMA HostConsequences ==
    ASSUME HostIInv
    PROVE  HostInv /\ NothingDropped /\ WorkIsScheduled
<1> USE DEF HostIInv, SchedulerInv
<1>1. HostTypeOK
  <2>1. QueuedBatches(sched) \subseteq Batch
    BY ElementOfSeq, LenProperties DEF FieldTypes, QueuedBatches
  <2>2. {sched.timer, sched.limitReached, sched.rateLimited, sched.disposed} \subseteq BOOLEAN
    BY DEF FieldTypes
  <2> QED
    BY <2>1, <2>2 DEF HostTypeOK, FieldTypes
<1>2. BudgetsRespected
  BY DEF BudgetsRespected, BudgetInv
<1>3. NothingDropped
  <2>1. UNION Ids(sched.pendingBatches) =
            UNION {Inventory(b.turns) : b \in QueuedBatches(sched)}
    BY DEF Ids, QueuedBatches
  <2> QED
    BY <2>1 DEF NothingDropped, InHand, HandInv
<1>4. WorkIsScheduled
  BY DEF WorkIsScheduled, Scheduled
<1> QED
  BY <1>1, <1>2, <1>3, <1>4 DEF HostInv

(***************************************************************************)
(* The state of the scheduler has its type, and no interleaving of turns,  *)
(* retries and settling calls overruns the budgets of claims and gate      *)
(* calls.                                                                  *)
(***************************************************************************)
THEOREM BudgetsHold == HostSpec => []HostInv
  BY SchedulerInvariant, HostConsequences, PTL

(***************************************************************************)
(* No turn revision handed to a live scheduler is lost.                    *)
(***************************************************************************)
THEOREM NothingIsDropped == HostSpec => []NothingDropped
  BY SchedulerInvariant, HostConsequences, PTL

(***************************************************************************)
(* An idle scheduler with work has a timer or stopped at the gate limit.   *)
(***************************************************************************)
THEOREM WorkStaysScheduled == HostSpec => []WorkIsScheduled
  BY SchedulerInvariant, HostConsequences, PTL

(***************************************************************************)
(* knownBatchIds names each batch that is queued or in flight exactly once.*)
(***************************************************************************)
THEOREM KnownBatchesStayExact == HostSpec => []KnownBatchesExact
  BY SchedulerInvariant, KnownBatchesExactInv, PTL

-----------------------------------------------------------------------------
(***************************************************************************)
(* The promises of a step from S to T, when the revisions d are committed. *)
(***************************************************************************)
KeepsPromises(S, T, d) ==
    /\ ~T.disposed => \A turns \in BegunBatches(S) :
                          turns \in BegunBatches(T) \/ Inventory(turns) \subseteq d
    /\ S.disposed => T.disposed /\ T.phase \in {S.phase, "idle"}

Held(S) == Elements(S.pendingBatches) \cup {S.batch}

\* A begun batch that is still held, in the queue or in flight, is kept.
LEMMA HeldIsKept ==
    ASSUME NEW S, NEW T, NEW d, ~S.disposed,
           \A b \in Held(S) : b.begun => \/ b \in Held(T)
                                         \/ Inventory(b.turns) \subseteq d
    PROVE  KeepsPromises(S, T, d)
<1>1. BegunBatches(S) = {b.turns : b \in {h \in Held(S) : h.begun}}
  BY DEF BegunBatches, QueuedBatches, Held, Elements
<1>2. BegunBatches(T) = {b.turns : b \in {h \in Held(T) : h.begun}}
  BY DEF BegunBatches, QueuedBatches, Held, Elements
<1> QED
  BY <1>1, <1>2 DEF KeepsPromises

\* A step that touches neither the queue nor the batch in flight.
LEMMA UntouchedIsKept ==
    ASSUME NEW S, NEW T, NEW d,
           T.pendingBatches = S.pendingBatches, T.batch = S.batch,
           T.disposed = S.disposed, S.disposed => T.phase = S.phase
    PROVE  KeepsPromises(S, T, d)
  BY DEF KeepsPromises, BegunBatches, QueuedBatches

\* Steps of a disposed scheduler that only settle.
LEMMA SettleDisposedKeeps ==
    ASSUME NEW S, NEW d, IsScheduler(S), S.disposed
    PROVE  KeepsPromises(S, Settle(S), d)
<1>1. /\ SameBut(S, Settle(S), {"phase", "batch", "existing", "accepted", "rateLimited", "timer"})
      /\ Settle(S).phase = "idle"
  BY SettleFields
<1>2. Settle(S).disposed = S.disposed
  BY <1>1 DEF SameBut, Fields
<1> QED
  BY <1>1, <1>2 DEF KeepsPromises

\* flush moves the head of the queue into flight.
LEMMA FlushKeeps ==
    ASSUME NEW S, NEW d, NEW listed, FieldTypes(S), PhaseInv(S)
    PROVE  KeepsPromises(S, Flush(S, listed), d)
<1> DEFINE T == Flush(S, listed)
<1>1. IsScheduler(S) /\ S.pendingBatches \in Seq(Batch)
  BY DEF FieldTypes
<1>2. \/ T = S
      \/ SameBut(S, T, {"limitReached"})
      \/ /\ ~S.disposed /\ ~Running(S) /\ S.pendingBatches # <<>>
         /\ T.batch = Head(S.pendingBatches)
         /\ T.pendingBatches = Tail(S.pendingBatches)
      \/ /\ ~S.disposed /\ ~Running(S)
         /\ SameBut(S, T, {"batch", "pendingTurns", "knownBatchIds", "phase", "existing"})
  BY <1>1, FlushFields
<1> HIDE DEF T
<1>3. CASE T = S
  BY <1>3, UntouchedIsKept DEF T
<1>4. CASE SameBut(S, T, {"limitReached"})
  <2>1. /\ T.pendingBatches = S.pendingBatches /\ T.batch = S.batch
        /\ T.disposed = S.disposed /\ T.phase = S.phase
    BY <1>4 DEF SameBut, Fields
  <2> QED
    BY <2>1, UntouchedIsKept DEF T
<1>5. ~Running(S) => S.batch.begun = FALSE
  BY DEF PhaseInv, NoBatch
<1>6. CASE /\ ~S.disposed /\ ~Running(S) /\ S.pendingBatches # <<>>
           /\ T.batch = Head(S.pendingBatches)
           /\ T.pendingBatches = Tail(S.pendingBatches)
  <2>1. Elements(S.pendingBatches) =
            Elements(Tail(S.pendingBatches)) \cup {Head(S.pendingBatches)}
    BY <1>1, <1>6, QueueTake
  <2>2. \A b \in Held(S) : b.begun => b \in Held(T)
    BY <1>5, <1>6, <2>1 DEF Held
  <2> QED
    BY <1>6, <2>2, HeldIsKept DEF T
<1>7. CASE /\ ~S.disposed /\ ~Running(S)
           /\ SameBut(S, T, {"batch", "pendingTurns", "knownBatchIds", "phase", "existing"})
  <2>1. T.pendingBatches = S.pendingBatches
    BY <1>7 DEF SameBut, Fields
  <2>2. \A b \in Held(S) : b.begun => b \in Held(T)
    BY <1>5, <1>7, <2>1 DEF Held
  <2> QED
    BY <1>7, <2>2, HeldIsKept DEF T
<1> QED
  BY <1>2, <1>3, <1>4, <1>6, <1>7

\* The timer callback.
LEMMA FlushTimerKeeps ==
    ASSUME NEW S, NEW d, NEW listed, FieldTypes(S), PhaseInv(S)
    PROVE  KeepsPromises(S, FlushTimer(S, listed), d)
<1> DEFINE P == [S EXCEPT !.timer = FALSE]
<1>1. IsScheduler(S)
  BY DEF FieldTypes
<1>2. SameBut(S, P, {"timer"}) /\ IsScheduler(P) /\ P.timer = FALSE
  BY <1>1 DEF IsScheduler, SameBut, Fields
<1> HIDE DEF P
<1>3. FieldTypes(P)
  <2>1. P.timer \in BOOLEAN
    BY <1>2
  <2> QED
    BY <1>2, <2>1 DEF FieldTypes, SameBut, Fields
<1>4. PhaseInv(P)
  BY <1>2 DEF PhaseInv, SameBut, Fields, Running
<1>5. KeepsPromises(P, Flush(P, listed), d)
  BY <1>3, <1>4, FlushKeeps
<1>6. /\ P.pendingBatches = S.pendingBatches /\ P.batch = S.batch
      /\ P.disposed = S.disposed /\ P.phase = S.phase
  BY <1>2 DEF SameBut, Fields
<1> QED
  BY <1>5, <1>6, ZenonT(40) DEF FlushTimer, P, KeepsPromises, BegunBatches, QueuedBatches

\* addFinalTurn.
LEMMA AddFinalTurnKeeps ==
    ASSUME NEW S, NEW d, NEW a, NEW c, NEW t \in Turn, NEW listed, SchedulerInv(S, a, c)
    PROVE  KeepsPromises(S, AddFinalTurn(S, t, listed), d)
<1> DEFINE P == [S EXCEPT !.pendingTurns = S.pendingTurns \cup {t}]
<1>1. CASE S.disposed \/ HasTurnRevision(S, t)
  BY <1>1, UntouchedIsKept DEF AddFinalTurn
<1>2. CASE ~S.disposed /\ ~HasTurnRevision(S, t)
  <2>1. IsScheduler(S)
    BY DEF SchedulerInv, FieldTypes
  <2>2. SameBut(S, P, {"pendingTurns"}) /\ IsScheduler(P)
    BY <2>1 DEF IsScheduler, SameBut, Fields
  <2>3. FieldTypes(P) /\ PhaseInv(P)
    BY <1>2, PendingTurnInv DEF SchedulerInv
  <2>4. AddFinalTurn(S, t, listed) = IF Cardinality(P.pendingTurns) >= MaxTurnsPerBatch
                                     THEN Flush(P, listed) ELSE ScheduleFlush(P)
    BY <1>2 DEF AddFinalTurn
  <2> HIDE DEF P
  <2>5. /\ P.pendingBatches = S.pendingBatches /\ P.batch = S.batch
        /\ P.disposed = S.disposed /\ P.phase = S.phase
    BY <2>2 DEF SameBut, Fields
  <2>6. KeepsPromises(P, Flush(P, listed), d)
    BY <2>3, FlushKeeps
  <2>7. SameBut(P, ScheduleFlush(P), {"timer"})
    BY <2>2, ScheduleFlushFields
  <2> DEFINE U == ScheduleFlush(P)
  <2>8. /\ U.pendingBatches = P.pendingBatches /\ U.batch = P.batch
        /\ U.disposed = P.disposed /\ U.phase = P.phase
    BY <2>7 DEF SameBut, Fields
  <2>9. KeepsPromises(P, U, d)
    BY <2>8, UntouchedIsKept
  <2>10. KeepsPromises(P, AddFinalTurn(S, t, listed), d)
    BY <2>4, <2>6, <2>9
  <2> QED
    BY <2>5, <2>10 DEF KeepsPromises, BegunBatches, QueuedBatches
<1> QED
  BY <1>1, <1>2

\* recoverBatch only adds a batch.
LEMMA RecoverBatchKeeps ==
    ASSUME NEW S, NEW d, NEW turns \in SUBSET Turn, FieldTypes(S)
    PROVE  KeepsPromises(S, RecoverBatch(S, turns), d)
<1> DEFINE new == [turns |-> turns, begun |-> TRUE]
           P == [S EXCEPT !.knownBatchIds = S.knownBatchIds \cup {Inventory(turns)},
                          !.pendingBatches = Append(S.pendingBatches, new)]
           U == ScheduleFlush(P)
<1>1. CASE S.disposed \/ turns = {} \/ Inventory(turns) \in S.knownBatchIds
  BY <1>1, UntouchedIsKept DEF RecoverBatch
<1>2. CASE ~(S.disposed \/ turns = {} \/ Inventory(turns) \in S.knownBatchIds)
  <2>1. RecoverBatch(S, turns) = U
    BY <1>2 DEF RecoverBatch
  <2>2. IsScheduler(S) /\ S.pendingBatches \in Seq(Batch) /\ new \in Batch
    BY DEF FieldTypes, Batch
  <2> HIDE DEF new
  <2>3. /\ IsScheduler(P) /\ SameBut(S, P, {"knownBatchIds", "pendingBatches"})
        /\ P.pendingBatches = Append(S.pendingBatches, new)
    BY <2>2 DEF IsScheduler, SameBut, Fields
  <2> HIDE DEF P
  <2>4. SameBut(P, U, {"timer"})
    BY <2>3, ScheduleFlushFields
  <2> HIDE DEF U
  <2>5. U.pendingBatches = Append(S.pendingBatches, new) /\ U.batch = S.batch
    BY <2>3, <2>4 DEF SameBut, Fields
  <2>6. Elements(U.pendingBatches) = Elements(S.pendingBatches) \cup {new}
    BY <2>2, <2>5, QueueAppend
  <2>7. \A b \in Held(S) : b \in Held(U)
    BY <2>5, <2>6 DEF Held
  <2> QED
    BY <1>2, <2>1, <2>7, HeldIsKept
<1> QED
  BY <1>1, <1>2

\* The catch clause keeps the batch in flight in the queue.
LEMMA FailedKeeps ==
    ASSUME NEW S, NEW d, FieldTypes(S)
    PROVE  KeepsPromises(S, Failed(S), d)
<1>1. IsScheduler(S) /\ S.pendingBatches \in Seq(Batch) /\ S.batch \in Batch
  BY DEF FieldTypes
<1>2. CASE S.disposed
  BY <1>1, <1>2, SettleDisposedKeeps DEF Failed
<1>3. CASE ~S.disposed
  <2> DEFINE T == Failed(S)
  <2>1. T.pendingBatches = <<S.batch>> \o S.pendingBatches
    BY <1>1, <1>3, FailedFields
  <2> HIDE DEF T
  <2>2. Elements(T.pendingBatches) = Elements(S.pendingBatches) \cup {S.batch}
    BY <1>1, <2>1, QueuePrepend
  <2>3. \A b \in Held(S) : b \in Held(T)
    BY <2>2 DEF Held
  <2> QED
    BY <1>3, <2>3, HeldIsKept DEF T
<1> QED
  BY <1>2, <1>3

\* The batch that has begun stays in flight.
LEMMA BeginSettledKeeps ==
    ASSUME NEW S, NEW d, NEW ok \in BOOLEAN, NEW listed, FieldTypes(S)
    PROVE  KeepsPromises(S, BeginSettled(S, ok, listed), d)
<1> DEFINE T == [S EXCEPT !.batch.begun = TRUE, !.existing = listed, !.phase = "detect"]
<1>1. IsScheduler(S) /\ S.batch \in Batch
  BY DEF FieldTypes
<1>2. CASE S.disposed
  BY <1>1, <1>2, SettleDisposedKeeps DEF BeginSettled
<1>3. CASE ~S.disposed /\ ~ok
  BY <1>3, FailedKeeps DEF BeginSettled
<1>4. CASE ~S.disposed /\ ok
  <2>1. BeginSettled(S, ok, listed) = T
    BY <1>4 DEF BeginSettled
  <2>2. /\ T.pendingBatches = S.pendingBatches
        /\ T.batch = [S.batch EXCEPT !.begun = TRUE]
    BY <1>1 DEF IsScheduler, Fields
  <2> HIDE DEF T
  <2>3. S.batch.begun => T.batch = S.batch
    <3> HAVE S.batch.begun
    <3>1. S.batch.begun = TRUE
      BY <1>1 DEF Batch
    <3> QED
      BY <1>1, <2>2, <3>1 DEF Batch
  <2>4. \A b \in Held(S) : b.begun => b \in Held(T)
    BY <2>2, <2>3 DEF Held
  <2> QED
    BY <1>4, <2>1, <2>4, HeldIsKept
<1> QED
  BY <1>2, <1>3, <1>4

\* Detection leaves the batch in flight.
LEMMA DetectedKeeps ==
    ASSUME NEW S, NEW d, NEW candidates, NEW accepted, NEW counted, FieldTypes(S)
    PROVE  KeepsPromises(S, Detected(S, candidates, accepted, counted), d)
<1> DEFINE T == Detected(S, candidates, accepted, counted)
<1>1. IsScheduler(S)
  BY DEF FieldTypes
<1>2. CASE S.disposed
  BY <1>1, <1>2, SettleDisposedKeeps DEF Detected
<1>3. CASE ~S.disposed
  <2>1. /\ T.pendingBatches = S.pendingBatches /\ T.batch = S.batch
        /\ T.disposed = S.disposed
    BY <1>1, <1>3 DEF Detected, IsScheduler, Fields
  <2> HIDE DEF T
  <2> QED
    BY <1>3, <2>1, UntouchedIsKept DEF T
<1> QED
  BY <1>2, <1>3

\* The batch in flight leaves only when it is committed.
LEMMA CommitSettledKeeps ==
    ASSUME NEW S, NEW c, NEW ok \in BOOLEAN, FieldTypes(S)
    PROVE  KeepsPromises(S, CommitSettled(S, ok),
                         IF ok THEN c \cup Inventory(S.batch.turns) ELSE c)
<1> DEFINE T == CommitSettled(S, ok)
           d == IF ok THEN c \cup Inventory(S.batch.turns) ELSE c
<1>1. IsScheduler(S)
  BY DEF FieldTypes
<1>2. CASE S.disposed
  BY <1>1, <1>2, SettleDisposedKeeps DEF CommitSettled
<1>3. CASE ~S.disposed /\ ~ok
  BY <1>3, FailedKeeps DEF CommitSettled
<1>4. CASE ~S.disposed /\ ok
  <2>1. ok = TRUE
    BY <1>4
  <2>2. SameBut(S, T, {"knownBatchIds", "completed", "hourClaims", "burstClaims",
                       "limitReached", "phase", "batch", "existing", "accepted",
                       "rateLimited", "timer"})
    BY <1>1, <1>4, <2>1, CommittedFields
  <2> HIDE DEF T
  <2>3. T.pendingBatches = S.pendingBatches
    BY <2>2 DEF SameBut, Fields
  <2>4. \A b \in Held(S) : b \in Held(T) \/ Inventory(b.turns) \subseteq d
    BY <2>1, <2>3 DEF Held
  <2> HIDE DEF d
  <2>5. KeepsPromises(S, T, d)
    BY <1>4, <2>4, HeldIsKept
  <2> QED
    BY <2>5 DEF T, d
<1> QED
  BY <1>2, <1>3, <1>4

\* setMaxGateCallsPerHour.
LEMMA SetMaxGateCallsPerHourKeeps ==
    ASSUME NEW S, NEW d, NEW limit, FieldTypes(S)
    PROVE  KeepsPromises(S, SetMaxGateCallsPerHour(S, limit), d)
<1> DEFINE T == [S EXCEPT !.maxGateCalls = limit]
           U == [T EXCEPT !.limitReached = FALSE]
           V == ScheduleFlush(U)
<1>1. SetMaxGateCallsPerHour(S, limit) \in {S, T, V}
  BY DEF SetMaxGateCallsPerHour
<1>2. IsScheduler(S)
  BY DEF FieldTypes
<1>3. IsScheduler(T) /\ SameBut(S, T, {"maxGateCalls"})
  BY <1>2 DEF IsScheduler, SameBut, Fields
<1> HIDE DEF T
<1>4. IsScheduler(U) /\ SameBut(T, U, {"limitReached"})
  BY <1>3 DEF IsScheduler, SameBut, Fields
<1> HIDE DEF U
<1>5. SameBut(U, V, {"timer"})
  BY <1>4, ScheduleFlushFields
<1> HIDE DEF V
<1>6. \A R \in {S, T, V} : /\ R.pendingBatches = S.pendingBatches /\ R.batch = S.batch
                           /\ R.disposed = S.disposed /\ R.phase = S.phase
  BY <1>3, <1>4, <1>5 DEF SameBut, Fields
<1> QED
  BY <1>1, <1>6, UntouchedIsKept

\* dispose.
LEMMA DisposeKeeps ==
    ASSUME NEW S, NEW d, FieldTypes(S)
    PROVE  KeepsPromises(S, Dispose(S), d)
<1>1. Dispose(S).disposed = TRUE /\ Dispose(S).phase = S.phase
  BY DEF Dispose, FieldTypes, IsScheduler, Fields
<1> QED
  BY <1>1 DEF KeepsPromises

\* An entry leaves the window of a budget.
LEMMA TimePassesKeeps ==
    ASSUME HostIInv, TimePasses
    PROVE  KeepsPromises(sched, sched', committed')
<1>1. IsScheduler(sched)
  BY DEF HostIInv, SchedulerInv, FieldTypes
<1>2. /\ sched'.pendingBatches = sched.pendingBatches /\ sched'.batch = sched.batch
      /\ sched'.disposed = sched.disposed /\ sched'.phase = sched.phase
  BY <1>1 DEF TimePasses, ExpireGateCall, ExpireBurstClaim, ExpireHourClaim,
              GateCallExpires, BurstClaimExpires, HourClaimExpires, IsScheduler, Fields
<1> QED
  BY <1>2, UntouchedIsKept

-----------------------------------------------------------------------------
\* Every step of the host keeps the promises.
LEMMA HostStepKeepsPromises ==
    ASSUME HostIInv, HostIInv', HostNext
    PROVE  KeepsBegunBatches /\ SilentStep
<1>1. SchedulerInv(sched, added, committed) /\ FieldTypes(sched) /\ PhaseInv(sched)
  BY DEF HostIInv, SchedulerInv
<1>2. KeepsPromises(sched, sched', committed')
  <2>1. ASSUME NEW t \in Turn, NEW listed \in SUBSET Keys, AddTurn(t, listed)
        PROVE  KeepsPromises(sched, sched', committed')
    BY <1>1, <2>1, AddFinalTurnKeeps DEF AddTurn
  <2>2. ASSUME NEW turns \in RecoverableBatches, Recover(turns)
        PROVE  KeepsPromises(sched, sched', committed')
    BY <1>1, <2>2, RecoverBatchKeeps, RecoverableBatchesAssumption DEF Recover
  <2>3. ASSUME NEW listed \in SUBSET Keys, FireTimer(listed)
        PROVE  KeepsPromises(sched, sched', committed')
    BY <1>1, <2>3, FlushTimerKeeps DEF FireTimer
  <2>4. ASSUME NEW ok \in BOOLEAN, NEW listed \in SUBSET Keys, SettleBegin(ok, listed)
        PROVE  KeepsPromises(sched, sched', committed')
    BY <1>1, <2>4, BeginSettledKeeps DEF SettleBegin
  <2>5. CASE DetectSettles
    <3>1. CASE RejectDetection
      BY <1>1, <3>1, FailedKeeps DEF RejectDetection, DetectFailed
    <3>2. ASSUME NEW candidates \in CandidateSets, NEW accepted \in SUBSET candidates,
                 NEW counted \in BOOLEAN, ResolveDetection(candidates, accepted, counted)
          PROVE  KeepsPromises(sched, sched', committed')
      BY <1>1, <3>2, DetectedKeeps DEF ResolveDetection
    <3> QED
      BY <2>5, <3>1, <3>2 DEF DetectSettles
  <2>6. ASSUME NEW ok \in BOOLEAN, SettleCommit(ok)
        PROVE  KeepsPromises(sched, sched', committed')
    BY <1>1, <2>6, CommitSettledKeeps DEF SettleCommit
  <2>7. ASSUME NEW limit \in GateLimits, SetLimit(limit)
        PROVE  KeepsPromises(sched, sched', committed')
    BY <1>1, <2>7, SetMaxGateCallsPerHourKeeps DEF SetLimit
  <2>8. CASE DisposeScheduler
    BY <1>1, <2>8, DisposeKeeps DEF DisposeScheduler
  <2>9. CASE TimePasses
    BY <2>9, TimePassesKeeps
  <2> QED
    BY <2>1, <2>2, <2>3, <2>4, <2>5, <2>6, <2>7, <2>8, <2>9 DEF HostNext
<1>3. KeepsBegunBatches
  BY <1>2 DEF KeepsPromises, KeepsBegunBatches
<1>4. SilentStep
  <2> SUFFICES ASSUME sched.disposed PROVE SilentStep
    BY DEF SilentStep
  <2>1. sched'.disposed /\ sched'.phase \in {sched.phase, "idle"}
    BY <1>2 DEF KeepsPromises
  <2>2. ~sched'.timer /\ ~HasWork(sched')
    BY <2>1 DEF HostIInv, SchedulerInv, PhaseInv, HasWork
  <2> QED
    BY <2>1, <2>2 DEF SilentStep
<1> QED
  BY <1>3, <1>4

(***************************************************************************)
(* flush, interrupted at any of its awaits, neither loses a batch that has *)
(* begun nor works on after dispose.                                       *)
(***************************************************************************)
THEOREM PromisesAreKept == HostSpec => StepsKeepPromises
<1>1. HostIInv /\ HostIInv' /\ HostNext => KeepsBegunBatches /\ SilentStep
  BY HostStepKeepsPromises
<1>2. HostIInv /\ HostIInv' /\ [HostNext]_hostVars => [KeepsBegunBatches /\ SilentStep]_hostVars
  BY <1>1
<1> QED
  BY <1>2, SchedulerInvariant, PTL DEF HostSpec, StepsKeepPromises

-----------------------------------------------------------------------------
(* The methods of the scheduler, as the pipeline calls them: ...Sound.     *)

\* A batch that is sent to the store only when it is not there yet.
Durable(b, stored) == b \in Batch /\ (b.begun => b.turns \in stored)

\* What a scheduler takes for begun is among the stored batches, and what it takes for
\* completed is in one of the done ones.
SchedulerSound(S, stored, done) ==
    /\ IsScheduler(S)
    /\ S.pendingTurns \subseteq Turn
    /\ S.pendingBatches \in Seq(Batch)
    /\ \A b \in QueuedBatches(S) : Durable(b, stored)
    /\ Durable(S.batch, stored)
    /\ S.phase \in {"idle", "begin", "detect", "commit"}
    /\ S.phase \in {"detect", "commit"} => S.batch.begun
    /\ S.phase = "commit" => S.accepted \in CandidateSets
    /\ S.disposed => S.phase = "idle"
    /\ \A r \in DOMAIN S.completed : \E b \in done : r \in Inventory(b)

\* A method that is called while flush waits leaves the request of flush alone.
Goes(S, T) == S.phase # "idle" => T.phase = S.phase /\ T.batch = S.batch

\* The queue of batches: push, unshift and shift.
LEMMA QueueFacts ==
    ASSUME NEW q \in Seq(Batch), NEW b \in Batch
    PROVE  LET In(s) == {s[i] : i \in DOMAIN s} IN
           /\ Append(q, b) \in Seq(Batch) /\ In(Append(q, b)) \subseteq In(q) \cup {b}
           /\ <<b>> \o q \in Seq(Batch) /\ In(<<b>> \o q) \subseteq In(q) \cup {b}
           /\ q # <<>> => /\ Head(q) \in In(q) /\ Tail(q) \in Seq(Batch)
                          /\ In(Tail(q)) \subseteq In(q)
<1>1. Append(q, b) \in Seq(Batch) /\ <<b>> \o q \in Seq(Batch)
  OBVIOUS
<1>2. \A i \in DOMAIN Append(q, b) :
         Append(q, b)[i] = b \/ (i \in DOMAIN q /\ Append(q, b)[i] = q[i])
  OBVIOUS
<1>3. \A i \in DOMAIN (<<b>> \o q) :
         (<<b>> \o q)[i] = b \/ (i - 1 \in DOMAIN q /\ (<<b>> \o q)[i] = q[i - 1])
  OBVIOUS
<1>4. ASSUME q # <<>>
      PROVE  /\ 1 \in DOMAIN q /\ Head(q) = q[1] /\ Tail(q) \in Seq(Batch)
             /\ \A i \in DOMAIN Tail(q) : i + 1 \in DOMAIN q /\ Tail(q)[i] = q[i + 1]
  BY <1>4
<1>. QED  BY <1>1, <1>2, <1>3, <1>4

\* What is stored and done stays so.
LEMMA SoundStays ==
    ASSUME NEW S, NEW stored, NEW done, NEW stored2, NEW done2,
           SchedulerSound(S, stored, done), stored \subseteq stored2, done \subseteq done2
    PROVE  SchedulerSound(S, stored2, done2)
  BY DEF SchedulerSound, Durable

\* A new scheduler remembers nothing.
LEMMA NewSchedulerSound ==
    ASSUME NEW limit, NEW stored, NEW done
    PROVE  /\ SchedulerSound(NewScheduler(limit), stored, done)
           /\ NewScheduler(limit).phase = "idle"
<1>1. IsScheduler(NewScheduler(limit))
  BY DEF IsScheduler, Fields, NewScheduler
<1>2. NoBatch \in Batch /\ ~NoBatch.begun
  BY DEF NoBatch, Batch
<1>. QED  BY <1>1, <1>2 DEF SchedulerSound, Durable, NewScheduler, QueuedBatches

\* An assignment to a field that says nothing of batches or turns.
LEMMA OtherField ==
    ASSUME NEW S, NEW T, NEW stored, NEW done, SchedulerSound(S, stored, done), IsScheduler(T),
           \A f \in {"pendingTurns", "pendingBatches", "completed", "phase", "batch",
                     "accepted", "disposed"} : T[f] = S[f]
    PROVE  SchedulerSound(T, stored, done) /\ Goes(S, T)
  BY DEF SchedulerSound, QueuedBatches, Goes

\* scheduleFlush sets the timer only.
LEMMA ScheduleFlushSound ==
    ASSUME NEW S, NEW stored, NEW done, SchedulerSound(S, stored, done)
    PROVE  SchedulerSound(ScheduleFlush(S), stored, done) /\ Goes(S, ScheduleFlush(S))
<1>1. PICK T : T = ScheduleFlush(S)
  OBVIOUS
<1>2. IsScheduler(T) /\ \A f \in Fields \ {"timer"} : T[f] = S[f]
  BY <1>1 DEF ScheduleFlush, SchedulerSound, IsScheduler, Fields
<1>. QED  BY <1>1, <1>2, OtherField DEF Fields

\* The first turns of a sorted set are some of its turns.
LEMMA TakeBatchSound ==
    ASSUME NEW S, NEW stored, NEW done, SchedulerSound(S, stored, done)
    PROVE  LET T == TakeBatch(S) IN
           /\ IsScheduler(T)
           /\ \A f \in Fields \ {"batch", "pendingBatches", "pendingTurns", "knownBatchIds"} :
                  T[f] = S[f]
           /\ T.pendingTurns \subseteq Turn
           /\ T.pendingBatches \in Seq(Batch)
           /\ \A b \in QueuedBatches(T) \cup {T.batch} : Durable(b, stored)
<1>1. PICK T : T = TakeBatch(S)
  OBVIOUS
<1>2. CASE S.pendingBatches # <<>>
  <2>1. /\ IsScheduler(T)
        /\ \A f \in Fields \ {"batch", "pendingBatches"} : T[f] = S[f]
        /\ T.batch = Head(S.pendingBatches) /\ T.pendingBatches = Tail(S.pendingBatches)
    BY <1>1, <1>2 DEF TakeBatch, SchedulerSound, IsScheduler, Fields
  <2>2. S.batch \in Batch
    BY DEF SchedulerSound, Durable
  <2>3. /\ T.batch \in QueuedBatches(S) /\ T.pendingBatches \in Seq(Batch)
        /\ QueuedBatches(T) \subseteq QueuedBatches(S)
    BY <1>2, <2>1, <2>2, QueueFacts DEF SchedulerSound, QueuedBatches
  <2>. QED  BY <1>1, <2>1, <2>3 DEF SchedulerSound, Fields
<1>3. CASE S.pendingBatches = <<>>
  <2>1. PICK turns : turns = Earliest(S.pendingTurns)
    OBVIOUS
  <2>2. /\ IsScheduler(T)
        /\ \A f \in Fields \ {"batch", "pendingTurns", "knownBatchIds"} : T[f] = S[f]
        /\ T.batch = [turns |-> turns, begun |-> FALSE] /\ T.pendingTurns = S.pendingTurns \ turns
    BY <1>1, <1>3, <2>1 DEF TakeBatch, SchedulerSound, IsScheduler, Fields
  <2>3. turns \subseteq S.pendingTurns
    BY <2>1 DEF Earliest
  <2>4. Durable(T.batch, stored)
    BY <2>2, <2>3 DEF SchedulerSound, Durable, Batch
  <2>5. T.pendingBatches = S.pendingBatches
    BY <2>2 DEF Fields
  <2>. QED  BY <1>1, <2>2, <2>3, <2>4, <2>5 DEF SchedulerSound, Fields, QueuedBatches
<1>. QED  BY <1>2, <1>3

\* flush starts on a batch only when it is idle.
LEMMA FlushSound ==
    ASSUME NEW S, NEW stored, NEW done, NEW listed, SchedulerSound(S, stored, done)
    PROVE  SchedulerSound(Flush(S, listed), stored, done) /\ Goes(S, Flush(S, listed))
<1>1. PICK R : R = Flush(S, listed)
  OBVIOUS
<1>2. CASE S.disposed \/ Running(S) \/ ~HasWork(S)
  BY <1>2 DEF Flush, Goes
<1>3. CASE R = [S EXCEPT !.limitReached = TRUE]
  <2>1. IsScheduler(R) /\ \A f \in Fields \ {"limitReached"} : R[f] = S[f]
    BY <1>3 DEF SchedulerSound, IsScheduler, Fields
  <2>. QED  BY <1>1, <2>1, OtherField DEF Fields
<1>4. ASSUME ~S.disposed, ~Running(S),
             R = LET T == TakeBatch(S)
                 IN  IF T.batch.begun THEN [T EXCEPT !.phase = "detect", !.existing = listed]
                                      ELSE [T EXCEPT !.phase = "begin"]
      PROVE  SchedulerSound(R, stored, done) /\ Goes(S, R)
  <2>1. PICK T : T = TakeBatch(S)
    OBVIOUS
  <2>2. /\ IsScheduler(R)
        /\ \A f \in Fields \ {"phase", "existing"} : R[f] = T[f]
        /\ R.phase = IF T.batch.begun THEN "detect" ELSE "begin"
    BY <1>4, <2>1, TakeBatchSound, ZenonT(40) DEF IsScheduler, Fields
  <2>3. /\ \A f \in {"completed", "accepted", "disposed"} : R[f] = S[f]
        /\ R.pendingTurns \subseteq Turn /\ R.pendingBatches \in Seq(Batch)
        /\ \A b \in QueuedBatches(R) \cup {R.batch} : Durable(b, stored)
        /\ R.batch = T.batch
    BY <2>1, <2>2, TakeBatchSound DEF Fields, QueuedBatches
  <2>. QED  BY <1>4, <2>2, <2>3 DEF SchedulerSound, Goes, Running
<1>. QED  BY <1>1, <1>2, <1>3, <1>4 DEF Flush

\* The finally clause ends the request.
LEMMA SettleSound ==
    ASSUME NEW S, NEW stored, NEW done, SchedulerSound(S, stored, done)
    PROVE  SchedulerSound(Settle(S), stored, done) /\ Settle(S).phase = "idle"
<1>1. PICK T : T = [S EXCEPT !.phase = "idle", !.batch = NoBatch, !.existing = {},
                             !.accepted = {}, !.rateLimited = FALSE]
  OBVIOUS
<1>2. /\ IsScheduler(T)
      /\ \A f \in {"pendingTurns", "pendingBatches", "completed", "disposed"} : T[f] = S[f]
      /\ T.phase = "idle" /\ T.batch = NoBatch
  BY <1>1 DEF SchedulerSound, IsScheduler, Fields
<1>3. Durable(NoBatch, stored)
  BY DEF Durable, NoBatch, Batch
<1>4. SchedulerSound(T, stored, done)
  BY <1>2, <1>3 DEF SchedulerSound, QueuedBatches
<1>5. Settle(S) \in {T, ScheduleFlush(T)}
  BY <1>1 DEF Settle
<1>6. SchedulerSound(ScheduleFlush(T), stored, done) /\ ScheduleFlush(T).phase = "idle"
  <2>1. ScheduleFlush(T).phase = T.phase
    BY <1>2 DEF ScheduleFlush, IsScheduler, Fields
  <2>. QED  BY <1>2, <1>4, <2>1, ScheduleFlushSound
<1>. QED  BY <1>2, <1>4, <1>5, <1>6

\* The catch clause keeps the batch.
LEMMA FailedSound ==
    ASSUME NEW S, NEW stored, NEW done, SchedulerSound(S, stored, done)
    PROVE  SchedulerSound(Failed(S), stored, done) /\ Failed(S).phase = "idle"
<1>1. CASE S.disposed
  BY <1>1, SettleSound DEF Failed
<1>2. CASE ~S.disposed
  <2>1. PICK T : T = [S EXCEPT !.pendingBatches = <<S.batch>> \o S.pendingBatches]
    OBVIOUS
  <2>2. /\ IsScheduler(T) /\ \A f \in Fields \ {"pendingBatches"} : T[f] = S[f]
        /\ T.pendingBatches = <<S.batch>> \o S.pendingBatches
    BY <2>1 DEF SchedulerSound, IsScheduler, Fields
  <2>3. /\ T.pendingBatches \in Seq(Batch)
        /\ QueuedBatches(T) \subseteq QueuedBatches(S) \cup {S.batch}
    BY <2>2, QueueFacts DEF SchedulerSound, Durable, QueuedBatches
  <2>4. SchedulerSound(T, stored, done)
    BY <2>2, <2>3 DEF SchedulerSound, Fields
  <2>. QED  BY <1>2, <2>1, <2>4, SettleSound DEF Failed
<1>. QED  BY <1>1, <1>2

\* A turn is added, and flush may start.
LEMMA AddFinalTurnSound ==
    ASSUME NEW S, NEW stored, NEW done, NEW t \in Turn, NEW listed,
           SchedulerSound(S, stored, done)
    PROVE  /\ SchedulerSound(AddFinalTurn(S, t, listed), stored, done)
           /\ Goes(S, AddFinalTurn(S, t, listed))
<1>1. PICK T : T = [S EXCEPT !.pendingTurns = S.pendingTurns \cup {t}]
  OBVIOUS
<1>2. /\ IsScheduler(T) /\ \A f \in Fields \ {"pendingTurns"} : T[f] = S[f]
      /\ T.pendingTurns = S.pendingTurns \cup {t}
  BY <1>1 DEF SchedulerSound, IsScheduler, Fields
<1>3. SchedulerSound(T, stored, done) /\ T.phase = S.phase /\ T.batch = S.batch
  BY <1>2 DEF SchedulerSound, Fields, QueuedBatches
<1>4. AddFinalTurn(S, t, listed) \in {S, Flush(T, listed), ScheduleFlush(T)}
  BY <1>1 DEF AddFinalTurn
<1>. QED  BY <1>3, <1>4, FlushSound, ScheduleFlushSound DEF Goes

\* A recovered batch is one of the store.
LEMMA RecoverBatchSound ==
    ASSUME NEW S, NEW stored, NEW done, NEW turns \in SUBSET Turn, turns \in stored,
           SchedulerSound(S, stored, done)
    PROVE  /\ SchedulerSound(RecoverBatch(S, turns), stored, done)
           /\ Goes(S, RecoverBatch(S, turns))
<1>1. PICK b : b = [turns |-> turns, begun |-> TRUE]
  OBVIOUS
<1>2. PICK T : T = [S EXCEPT !.knownBatchIds = S.knownBatchIds \cup {Inventory(turns)},
                             !.pendingBatches = Append(S.pendingBatches, b)]
  OBVIOUS
<1>3. /\ IsScheduler(T) /\ \A f \in Fields \ {"knownBatchIds", "pendingBatches"} : T[f] = S[f]
      /\ T.pendingBatches = Append(S.pendingBatches, b)
  BY <1>2 DEF SchedulerSound, IsScheduler, Fields
<1>4. Durable(b, stored)
  BY <1>1 DEF Durable, Batch
<1>5. T.pendingBatches \in Seq(Batch) /\ QueuedBatches(T) \subseteq QueuedBatches(S) \cup {b}
  BY <1>3, <1>4, QueueFacts DEF SchedulerSound, Durable, QueuedBatches
<1>6. SchedulerSound(T, stored, done) /\ T.phase = S.phase /\ T.batch = S.batch
  BY <1>3, <1>4, <1>5 DEF SchedulerSound, Fields
<1>7. RecoverBatch(S, turns) \in {S, ScheduleFlush(T)}
  BY <1>1, <1>2 DEF RecoverBatch
<1>. QED  BY <1>6, <1>7, ScheduleFlushSound DEF Goes

\* A resolved beginBatch means that the batch is stored.
LEMMA BeginSettledSound ==
    ASSUME NEW S, NEW stored, NEW done, NEW ok, NEW listed, SchedulerSound(S, stored, done),
           ok => S.batch.turns \in stored
    PROVE  LET T == BeginSettled(S, ok, listed) IN
           SchedulerSound(T, stored, done) /\ T.phase \in {"idle", "detect"}
<1>1. CASE S.disposed
  BY <1>1, SettleSound DEF BeginSettled
<1>2. CASE ~S.disposed /\ ~ok
  BY <1>2, FailedSound DEF BeginSettled
<1>3. CASE ~S.disposed /\ ok
  <2>1. PICK T : T = [S EXCEPT !.batch.begun = TRUE, !.existing = listed, !.phase = "detect"]
    OBVIOUS
  <2>2. S.batch \in Batch
    BY DEF SchedulerSound, Durable
  <2>3. /\ IsScheduler(T)
        /\ \A f \in Fields \ {"batch", "existing", "phase"} : T[f] = S[f]
        /\ T.batch = [S.batch EXCEPT !.begun = TRUE] /\ T.phase = "detect"
    BY <2>1 DEF SchedulerSound, IsScheduler, Fields
  <2>4. T.batch.begun /\ Durable(T.batch, stored)
    BY <1>3, <2>2, <2>3 DEF Durable, Batch
  <2>5. SchedulerSound(T, stored, done)
    BY <1>3, <2>3, <2>4 DEF SchedulerSound, Fields, QueuedBatches
  <2>. QED  BY <1>3, <2>1, <2>3, <2>5 DEF BeginSettled
<1>. QED  BY <1>1, <1>2, <1>3

\* The accepted candidates are some of those detected.
LEMMA DetectedSound ==
    ASSUME NEW S, NEW stored, NEW done, NEW candidates \in CandidateSets, NEW counted,
           NEW accepted \in AcceptedCandidates(S, candidates),
           SchedulerSound(S, stored, done), S.phase = "detect"
    PROVE  LET T == Detected(S, candidates, accepted, counted) IN
           SchedulerSound(T, stored, done) /\ T.phase \in {"idle", "commit"}
<1>1. CASE S.disposed
  BY <1>1, SettleSound DEF Detected
<1>2. CASE ~S.disposed
  <2>1. PICK T : T = Detected(S, candidates, accepted, counted)
    OBVIOUS
  <2>2. /\ IsScheduler(T)
        /\ \A f \in Fields \ {"gateCalls", "accepted", "rateLimited", "phase"} : T[f] = S[f]
        /\ T.accepted = accepted /\ T.phase = "commit"
    BY <1>2, <2>1 DEF Detected, SchedulerSound, IsScheduler, Fields
  <2>3. accepted \subseteq candidates
    BY DEF AcceptedCandidates, NewCandidates
  <2>4. accepted \in CandidateSets
    <3>1. IsFiniteSet(accepted)
      BY <2>3, FS_Subset DEF CandidateSets
    <3>. QED  BY <2>3, <3>1 DEF CandidateSets
  <2>5. SchedulerSound(T, stored, done)
    BY <1>2, <2>2, <2>4 DEF SchedulerSound, Fields, QueuedBatches
  <2>. QED  BY <2>1, <2>2, <2>5
<1>. QED  BY <1>1, <1>2

\* A resolved commitBatch means that the batch is done, so its revisions are completed.
LEMMA CommitSettledSound ==
    ASSUME NEW S, NEW stored, NEW done, NEW ok, SchedulerSound(S, stored, done),
           ok => S.batch.turns \in done
    PROVE  /\ SchedulerSound(CommitSettled(S, ok), stored, done)
           /\ CommitSettled(S, ok).phase = "idle"
<1>1. CASE S.disposed
  BY <1>1, SettleSound DEF CommitSettled
<1>2. CASE ~S.disposed /\ ~ok
  BY <1>2, FailedSound DEF CommitSettled
<1>3. CASE ~S.disposed /\ ok
  <2>1. PICK completed : completed = MarkCompleted(S.completed, S.batch.turns)
    OBVIOUS
  <2>2. \A r \in DOMAIN completed : \E b \in done : r \in Inventory(b)
    BY <1>3, <2>1 DEF MarkCompleted, SchedulerSound
  <2>3. PICK T : T = [S EXCEPT !.knownBatchIds = S.knownBatchIds \ {Inventory(S.batch.turns)},
                  !.completed = completed,
                  !.hourClaims = S.hourClaims + Cardinality(S.accepted),
                  !.burstClaims = S.burstClaims + Cardinality(S.accepted),
                  !.limitReached = S.rateLimited]
    OBVIOUS
  <2>4. /\ IsScheduler(T)
        /\ \A f \in Fields \ {"knownBatchIds", "completed", "hourClaims", "burstClaims",
                              "limitReached"} : T[f] = S[f]
        /\ T.completed = completed
    BY <2>3 DEF SchedulerSound, IsScheduler, Fields
  <2>5. SchedulerSound(T, stored, done)
    BY <2>2, <2>4 DEF SchedulerSound, Fields, QueuedBatches
  <2>. QED  BY <1>3, <2>1, <2>3, <2>5, SettleSound DEF CommitSettled
<1>. QED  BY <1>1, <1>2, <1>3

\* setMaxGateCallsPerHour and the passing of time say nothing of turns and batches.
LEMMA BudgetsSound ==
    ASSUME NEW S, NEW stored, NEW done, NEW limit, SchedulerSound(S, stored, done)
    PROVE  \A T \in {SetMaxGateCallsPerHour(S, limit), GateCallExpires(S),
                     HourClaimExpires(BurstClaimExpires(S))} :
               SchedulerSound(T, stored, done) /\ Goes(S, T)
<1>. DEFINE Same(T) == IsScheduler(T) /\
                \A f \in Fields \ {"maxGateCalls", "limitReached", "gateCalls", "burstClaims",
                                   "hourClaims"} : T[f] = S[f]
<1>1. ASSUME NEW T, Same(T) PROVE SchedulerSound(T, stored, done) /\ Goes(S, T)
  BY <1>1, OtherField DEF Fields
<1>2. PICK L : L = [S EXCEPT !.maxGateCalls = limit]
  OBVIOUS
<1>3. Same(L)
  BY <1>2 DEF SchedulerSound, IsScheduler, Fields
<1>4. PICK T : T = [L EXCEPT !.limitReached = FALSE]
  OBVIOUS
<1>5. Same(T)
  BY <1>3, <1>4 DEF IsScheduler, Fields
<1>6. Same(GateCallExpires(S))
  BY DEF SchedulerSound, IsScheduler, Fields, GateCallExpires
<1>7. Same(HourClaimExpires(BurstClaimExpires(S)))
  <2>1. Same(BurstClaimExpires(S))
    BY DEF SchedulerSound, IsScheduler, Fields, BurstClaimExpires
  <2>. QED  BY <2>1 DEF IsScheduler, Fields, HourClaimExpires
<1>. HIDE DEF Same
<1>8. SchedulerSound(ScheduleFlush(T), stored, done) /\ Goes(S, ScheduleFlush(T))
  <2>1. SchedulerSound(T, stored, done) /\ Goes(S, T)
    BY <1>1, <1>5
  <2>. QED  BY <2>1, ScheduleFlushSound DEF Goes
<1>9. SetMaxGateCallsPerHour(S, limit) \in {S, L, ScheduleFlush(T)}
  BY <1>2, <1>4 DEF SetMaxGateCallsPerHour
<1>. QED  BY <1>1, <1>3, <1>6, <1>7, <1>8, <1>9 DEF Goes

\* The timer callback.
LEMMA FlushTimerSound ==
    ASSUME NEW S, NEW stored, NEW done, NEW listed, SchedulerSound(S, stored, done)
    PROVE  /\ SchedulerSound(FlushTimer(S, listed), stored, done)
           /\ Goes(S, FlushTimer(S, listed))
<1>1. PICK T : T = [S EXCEPT !.timer = FALSE]
  OBVIOUS
<1>2. IsScheduler(T) /\ \A f \in Fields \ {"timer"} : T[f] = S[f]
  BY <1>1 DEF SchedulerSound, IsScheduler, Fields
<1>3. SchedulerSound(T, stored, done) /\ Goes(S, T) /\ T.phase = S.phase
  BY <1>2, OtherField DEF Fields
<1>4. FlushTimer(S, listed) = Flush(T, listed)
  BY <1>1 DEF FlushTimer
<1>5. SchedulerSound(Flush(T, listed), stored, done) /\ Goes(T, Flush(T, listed))
  BY <1>3, FlushSound
<1>. QED  BY <1>3, <1>4, <1>5 DEF Goes

\* The scheduler that an unmount leaves behind.
LEMMA DisposedSound ==
    ASSUME NEW limit, NEW stored, NEW done
    PROVE  LET T == Settle(Dispose(NewScheduler(limit))) IN
           SchedulerSound(T, stored, done) /\ T.phase = "idle"
<1>1. PICK N : N = NewScheduler(limit)
  OBVIOUS
<1>2. SchedulerSound(N, stored, done) /\ N.phase = "idle"
  BY <1>1, NewSchedulerSound
<1>3. PICK T : T = Dispose(N)
  OBVIOUS
<1>4. /\ IsScheduler(T) /\ T.phase = N.phase /\ T.batch = N.batch
      /\ T.pendingTurns = {} /\ T.pendingBatches = <<>> /\ T.completed = <<>>
  BY <1>2, <1>3 DEF Dispose, SchedulerSound, IsScheduler, Fields
<1>5. /\ DOMAIN T.pendingBatches = {} /\ T.pendingBatches \in Seq(Batch)
      /\ DOMAIN T.completed = {}
  BY <1>4
<1>6. SchedulerSound(T, stored, done)
  BY <1>2, <1>4, <1>5 DEF SchedulerSound, QueuedBatches
<1>. QED  BY <1>1, <1>3, <1>6, SettleSound

-----------------------------------------------------------------------------
(* The recovery pass: two loops over lists.                                *)

\* Induction over the numbers, for a set.
LEMMA SetInduction ==
    ASSUME NEW P, 0 \in P, \A n \in Nat : n \in P => n + 1 \in P
    PROVE  Nat \subseteq P
<1>. DEFINE R == OpToRel(<, Nat)
<1>1. IsWellFoundedOn(R, Nat)
  BY NatLessThanWellFounded
<1>2. \A x, y \in Nat : <<x, y>> \in R <=> x < y
  BY DEF OpToRel
<1>. HIDE DEF R
<1>. SUFFICES ASSUME Nat \ P # {} PROVE FALSE
  OBVIOUS
<1>3. PICK n \in Nat \ P : \A m \in Nat \ P : ~ (<<m, n>> \in R)
  <2>. DEFINE T == Nat \ P
  <2>1. T \subseteq Nat /\ T # {}
    OBVIOUS
  <2>. HIDE DEF T
  <2>2. \E x \in T : \A y \in T : ~ (<<y, x>> \in R)
    BY <1>1, <2>1, WFMin
  <2>. QED  BY <2>2 DEF T
<1>4. n # 0
  BY <1>3
<1>5. n - 1 \in Nat /\ n - 1 < n /\ (n - 1) + 1 = n
  BY <1>4
<1>6. n - 1 \in P
  BY <1>2, <1>3, <1>5
<1>. QED  BY <1>3, <1>5, <1>6

\* The fold takes the last of the first n + 1 elements off.
LEMMA MaxOfInitialPart ==
    ASSUME NEW n \in Nat, NEW s \in SUBSET (1 .. n + 1), n + 1 \in s
    PROVE  Max(s) = n + 1 /\ s \ {Max(s)} \in SUBSET (1 .. n)
<1>1. \A y \in s : y \in Int /\ y <= n + 1
  OBVIOUS
<1>2. \E x \in s : \A y \in s : x >= y
  BY <1>1
<1>3. Max(s) \in s /\ \A y \in s : Max(s) >= y
  BY <1>2 DEF Max
<1>4. PICK m : m = Max(s)
  OBVIOUS
<1>5. m \in Int /\ m <= n + 1 /\ m >= n + 1
  BY <1>1, <1>3, <1>4
<1>6. m = n + 1
  BY <1>5
<1>. QED  BY <1>4, <1>6

\* One round of either loop of recoverClaimGateArtifact: over the pending batches, or
\* over the turns of the pending segments.
RecoveryRound(batches, listed, S, x) ==
    IF batches THEN RecoverBatch(S, x) ELSE AddFinalTurn(S, x, listed)

\* iter maps each set of positions of the list to the scheduler after those rounds.
LoopFrom(S0, seq, batches, listed, n, iter) ==
    iter = [s \in SUBSET (1 .. n) |->
               IF s = {} THEN S0
                         ELSE RecoveryRound(batches, listed, iter[s \ {Max(s)}], seq[Max(s)])]

\* The loop over n elements exists: the one over n + 1 continues the one over n.
LEMMA LoopExists ==
    ASSUME NEW S0, NEW seq, NEW batches, NEW listed, NEW n \in Nat
    PROVE  \E iter : LoopFrom(S0, seq, batches, listed, n, iter)
<1>. DEFINE Loop(iter, m) == LoopFrom(S0, seq, batches, listed, m, iter)
            Round(S, x) == RecoveryRound(batches, listed, S, x)
            P == {m \in Nat : \E iter : Loop(iter, m)}
<1>1. 0 \in P
  <2>1. SUBSET (1 .. 0) = {{}}
    OBVIOUS
  <2>2. PICK f : f = [s \in SUBSET (1 .. 0) |-> S0]
    OBVIOUS
  <2>3. Loop(f, 0)
    BY <2>1, <2>2 DEF LoopFrom
  <2>. QED  BY <2>3
<1>2. ASSUME NEW m \in Nat, m \in P PROVE m + 1 \in P
  <2>. HIDE DEF Round
  <2>1. PICK f : f = [s \in SUBSET (1 .. m) |->
                        IF s = {} THEN S0 ELSE Round(f[s \ {Max(s)}], seq[Max(s)])]
    BY <1>2 DEF LoopFrom, Round
  <2>2. PICK g : g = [s \in SUBSET (1 .. m + 1) |->
                        IF m + 1 \in s THEN Round(f[s \ {m + 1}], seq[m + 1]) ELSE f[s]]
    OBVIOUS
  <2>3. ASSUME NEW s \in SUBSET (1 .. m + 1)
        PROVE  g[s] = IF s = {} THEN S0 ELSE Round(g[s \ {Max(s)}], seq[Max(s)])
    <3>1. CASE m + 1 \in s
      <4>1. Max(s) = m + 1 /\ s \ {Max(s)} \in SUBSET (1 .. m)
        BY <3>1, MaxOfInitialPart
      <4>2. g[s \ {Max(s)}] = f[s \ {Max(s)}]
        BY <2>2, <4>1
      <4>. QED  BY <2>2, <3>1, <4>1, <4>2
    <3>2. CASE m + 1 \notin s
      <4>1. \A x \in s : x \in 1 .. m
        BY <3>2
      <4>2. s \in SUBSET (1 .. m) /\ s \ {Max(s)} \in SUBSET (1 .. m)
        BY <4>1
      <4>3. g[s] = f[s] /\ g[s \ {Max(s)}] = f[s \ {Max(s)}]
        BY <2>2, <4>2
      <4>. QED  BY <2>1, <4>2, <4>3
    <3>. QED  BY <3>1, <3>2
  <2>4. g = [s \in SUBSET (1 .. m + 1) |->
               IF s = {} THEN S0 ELSE Round(g[s \ {Max(s)}], seq[Max(s)])]
    BY <2>2, <2>3
  <2>5. Loop(g, m + 1)
    BY <2>4 DEF LoopFrom, Round
  <2>. HIDE DEF Loop
  <2>. QED  BY <2>5
<1>. HIDE DEF P
<1>3. Nat \subseteq P
  BY <1>1, <1>2, SetInduction
<1>. QED  BY <1>3 DEF P

\* A scheduler that is sound stays sound through the loop.
LEMMA LoopSound ==
    ASSUME NEW S0, NEW seq, NEW batches, NEW listed, NEW n \in Nat, NEW iter,
           LoopFrom(S0, seq, batches, listed, n, iter),
           NEW stored \in SUBSET SUBSET Turn, NEW done, SchedulerSound(S0, stored, done),
           \A i \in 1 .. n : seq[i] \in (IF batches THEN stored ELSE Turn)
    PROVE  SchedulerSound(iter[1 .. n], stored, done) /\ Goes(S0, iter[1 .. n])
<1>. DEFINE P == {k \in Nat : k <= n => /\ SchedulerSound(iter[1 .. k], stored, done)
                                        /\ Goes(S0, iter[1 .. k])}
<1>1. 0 \in P
  <2>1. iter[1 .. 0] = S0
    BY DEF LoopFrom
  <2>. QED  BY <2>1 DEF Goes
<1>2. ASSUME NEW k \in Nat, k \in P PROVE k + 1 \in P
  <2>. SUFFICES ASSUME k + 1 <= n
                PROVE  /\ SchedulerSound(iter[1 .. k + 1], stored, done)
                       /\ Goes(S0, iter[1 .. k + 1])
    OBVIOUS
  <2>1. Max(1 .. k + 1) = k + 1 /\ (1 .. k + 1) \ {Max(1 .. k + 1)} = 1 .. k
    BY MaxOfInitialPart
  <2>2. \A x \in 1 .. k + 1 : x \in 1 .. n
    OBVIOUS
  <2>3. 1 .. k + 1 \in SUBSET (1 .. n) /\ k + 1 \in 1 .. k + 1
    BY <2>2
  <2>4. iter[1 .. k + 1] = RecoveryRound(batches, listed, iter[1 .. k], seq[k + 1])
    BY <2>1, <2>3 DEF LoopFrom
  <2>5. SchedulerSound(iter[1 .. k], stored, done) /\ Goes(S0, iter[1 .. k])
    BY <1>2
  <2>6. PICK S : S = iter[1 .. k]
    OBVIOUS
  <2>7. PICK x : x = seq[k + 1]
    OBVIOUS
  <2>8. PICK T : T = RecoveryRound(batches, listed, S, x)
    OBVIOUS
  <2>9. SchedulerSound(T, stored, done) /\ Goes(S, T)
    BY <2>5, <2>6, <2>7, <2>8, RecoverBatchSound, AddFinalTurnSound DEF RecoveryRound
  <2>. QED  BY <2>4, <2>5, <2>6, <2>7, <2>8, <2>9 DEF Goes
<1>. HIDE DEF P
<1>3. Nat \subseteq P
  BY <1>1, <1>2, SetInduction
<1>. QED  BY <1>3 DEF P

\* recoverClaimGateArtifact: the batches of the artifact were stored when it was read.
LEMMA RecoverArtifactSound ==
    ASSUME NEW stored \in SUBSET SUBSET Turn, NEW done, NEW limit, NEW listed,
           SchedulerSound(SchedulerFor(limit), stored, done),
           NEW n \in Nat, NEW batches \in [1 .. n -> stored],
           NEW m \in Nat, NEW turns \in [1 .. m -> Turn]
    PROVE  LET T == RecoverClaimGateArtifact(limit, batches, turns, listed) IN
           SchedulerSound(T, stored, done) /\ Goes(SchedulerFor(limit), T)
<1>1. PICK S0 : S0 = SchedulerFor(limit)
  OBVIOUS
<1>2. PICK R : R = FoldLeft(RecoverBatch, S0, batches)
  OBVIOUS
<1>3. SchedulerSound(R, stored, done) /\ Goes(S0, R)
  <2>1. PICK iter : iter = CHOOSE f : f = [s \in SUBSET (1 .. n) |->
            IF s = {} THEN S0 ELSE RecoverBatch(f[s \ {Max(s)}], batches[Max(s)])]
    OBVIOUS
  <2>2. \E f : f = [s \in SUBSET (1 .. n) |->
            IF s = {} THEN S0 ELSE RecoverBatch(f[s \ {Max(s)}], batches[Max(s)])]
    <3>1. PICK f : LoopFrom(S0, batches, TRUE, listed, n, f)
      BY LoopExists
    <3>. QED  BY <3>1 DEF LoopFrom, RecoveryRound
  <2>3. iter = [s \in SUBSET (1 .. n) |->
            IF s = {} THEN S0 ELSE RecoverBatch(iter[s \ {Max(s)}], batches[Max(s)])]
    BY <2>1, <2>2
  <2>4. LoopFrom(S0, batches, TRUE, listed, n, iter)
    BY <2>3 DEF LoopFrom, RecoveryRound
  <2>5. DOMAIN batches = 1 .. n
    OBVIOUS
  <2>6. R = iter[1 .. n]
    BY <1>2, <2>1, <2>5 DEF FoldLeft, MapThenFoldSet
  <2>. QED  BY <1>1, <2>4, <2>6, LoopSound, ZenonT(60)
<1>4. PICK T : T = FoldLeft(LAMBDA S, t : AddFinalTurn(S, t, listed), R, turns)
  OBVIOUS
<1>5. SchedulerSound(T, stored, done) /\ Goes(R, T)
  <2>1. PICK iter : iter = CHOOSE f : f = [s \in SUBSET (1 .. m) |->
            IF s = {} THEN R ELSE AddFinalTurn(f[s \ {Max(s)}], turns[Max(s)], listed)]
    OBVIOUS
  <2>2. \E f : f = [s \in SUBSET (1 .. m) |->
            IF s = {} THEN R ELSE AddFinalTurn(f[s \ {Max(s)}], turns[Max(s)], listed)]
    <3>1. PICK f : LoopFrom(R, turns, FALSE, listed, m, f)
      BY LoopExists
    <3>. QED  BY <3>1 DEF LoopFrom, RecoveryRound
  <2>3. iter = [s \in SUBSET (1 .. m) |->
            IF s = {} THEN R ELSE AddFinalTurn(iter[s \ {Max(s)}], turns[Max(s)], listed)]
    BY <2>1, <2>2
  <2>4. LoopFrom(R, turns, FALSE, listed, m, iter)
    BY <2>3 DEF LoopFrom, RecoveryRound
  <2>5. DOMAIN turns = 1 .. m
    OBVIOUS
  <2>6. T = iter[1 .. m]
    BY <1>4, <2>1, <2>5 DEF FoldLeft, MapThenFoldSet
  <2>7. \A i \in 1 .. m : turns[i] \in (IF FALSE THEN stored ELSE Turn)
    OBVIOUS
  <2>. QED  BY <1>3, <2>4, <2>6, <2>7, LoopSound, ZenonT(60)
<1>6. RecoverClaimGateArtifact(limit, batches, turns, listed) = T
  BY <1>1, <1>2, <1>4 DEF RecoverClaimGateArtifact
<1>. QED  BY <1>1, <1>3, <1>5, <1>6 DEF Goes

-----------------------------------------------------------------------------
(* The inductive invariant of the pipeline.                                *)

TablesFinite ==
    IsFiniteSet({s \in Segments : segment[s].rev # NoRevision}) /\ IsFiniteSet(openBatches)

\* A request that the store has applied is in the store.
RequestInv ==
    /\ SchedulerSound(sched, StoredBatches, doneBatches)
    /\ served \in {"no", "applied", "refused"}
    /\ served = "applied" /\ sched.phase = "begin" => sched.batch.turns \in StoredBatches
    /\ served = "applied" /\ sched.phase = "commit" => sched.batch.turns \in doneBatches

\* A request without a scheduler is one that the scheduler could send.
OrphanInv ==
    \/ orphan = NoRequest
    \/ orphan.phase = "begin" /\ orphan.turns \in SUBSET Turn
    \/ orphan.phase = "commit" /\ orphan.turns \in StoredBatches
                               /\ orphan.accepted \in CandidateSets

ProducerInv ==
    /\ live \in [Segments -> [seg : Segments, rev : RevisionOrNone, speaker : Speakers]]
    /\ writes \subseteq Turn /\ written \subseteq writes
    /\ persisted \in [Segments -> RevisionOrNone]
    /\ terminal \in [Segments -> RevisionOrNone]

\* What a pass has read is finite, and the batches it has read are still stored.
PassInv ==
    /\ pass \in [stage : {"idle", "turns", "segments", "batches"}, turns : SUBSET Turn,
                 batches : SUBSET StoredBatches, claims : SUBSET Keys]
    /\ IsFiniteSet(pass.turns) /\ IsFiniteSet(pass.batches)

WindowInv == known \subseteq Keys /\ remounts \in 0 .. MaxRemounts

PipelineIInv ==
    /\ StoreInv /\ TablesFinite /\ RequestInv /\ OrphanInv /\ ProducerInv /\ PassInv
    /\ WindowInv

-----------------------------------------------------------------------------
(* What each part of the invariant owes to the others.                     *)

\* The store's records stay, so a batch that was stored is stored, and so on.
Grows == StoredBatches \subseteq StoredBatches' /\ doneBatches \subseteq doneBatches'

\* A transaction keeps what the tables promise, takes no batch back and adds finitely much.
LEMMA TablesMove ==
    ASSUME StoreInv, TablesFinite, [StoreNext]_storeVars
    PROVE  StoreInv' /\ TablesFinite' /\ Grows
<1>1. StoreInv'
  BY StoreNextInv
<1>. DEFINE Rows == {s \in Segments : segment[s].rev # NoRevision}
<1>2. CASE UNCHANGED storeVars
  BY <1>1, <1>2 DEF storeVars, Grows, TablesFinite, StoredBatches
<1>3. CASE StoreNext
  <2>1. Grows
    BY <1>3, StoreNextDurable DEF DurableStep, Grows, StoredBatches
  <2>2. \/ Rows' \subseteq Rows
        \/ \E t \in Turn : Rows' \subseteq Rows \cup {t.seg}
    <3>1. ASSUME NEW t \in Turn, NEW final \in BOOLEAN, ApplyTranscript(t, final)
          PROVE  Rows' \subseteq Rows \cup {t.seg}
      BY <3>1 DEF ApplyTranscript, UpsertSegment, StoreInv, StoreTypeOK
    <3>2. ASSUME NEW s \in Segments, NEW k \in Speakers, ApplySpeakers(s, k)
          PROVE  Rows' \subseteq Rows
      BY <3>2 DEF ApplySpeakers, StoreInv, StoreTypeOK, SegmentRow
    <3>3. ASSUME NEW turns \in SUBSET Turn, BeginBatch(turns)
          PROVE  Rows' \subseteq Rows
      BY <3>3 DEF BeginBatch
    <3>4. ASSUME NEW turns \in StoredBatches, NEW cs \in CandidateSets, CommitBatch(turns, cs)
          PROVE  Rows' \subseteq Rows
      BY <3>4 DEF CommitBatch
    <3>. QED  BY <1>3, <3>1, <3>2, <3>3, <3>4 DEF StoreNext
  <2>3. IsFiniteSet(Rows')
    <3>1. IsFiniteSet(Rows)
      BY DEF TablesFinite
    <3>2. \A x : IsFiniteSet(Rows \cup {x})
      BY <3>1, FS_AddElement
    <3>. QED  BY <2>2, <3>1, <3>2, FS_Subset
  <2>4. \/ openBatches' \subseteq openBatches
        \/ \E turns : openBatches' \subseteq openBatches \cup {turns}
    BY <1>3 DEF StoreNext, ApplyTranscript, ApplySpeakers, BeginBatch, CommitBatch
  <2>5. IsFiniteSet(openBatches')
    <3>1. IsFiniteSet(openBatches) /\ \A x : IsFiniteSet(openBatches \cup {x})
      BY FS_AddElement DEF TablesFinite
    <3>. QED  BY <2>4, <3>1, FS_Subset
  <2>. QED  BY <1>1, <2>1, <2>3, <2>5 DEF TablesFinite
<1>. QED  BY <1>2, <1>3

\* The scheduler and its request while the store moves on.
LEMMA RequestStays ==
    ASSUME RequestInv, Grows, UNCHANGED <<sched, served>>
    PROVE  RequestInv'
<1>1. PICK S : S = sched
  OBVIOUS
<1>2. SchedulerSound(S, StoredBatches', doneBatches')
  BY <1>1, SoundStays DEF RequestInv, Grows
<1>3. SchedulerSound(sched, StoredBatches, doneBatches)'
  BY <1>1, <1>2
<1>. QED  BY <1>3 DEF RequestInv, Grows

\* A step of the scheduler leaves its request alone or makes a new one.
LEMMA RequestSteps ==
    ASSUME RequestInv, UNCHANGED storeVars, NEW T, SchedStep(T),
           SchedulerSound(T, StoredBatches, doneBatches),
           T.phase = sched.phase /\ T.phase # "idle" => T.batch = sched.batch
    PROVE  RequestInv'
<1>1. StoredBatches' = StoredBatches /\ doneBatches' = doneBatches
  BY DEF storeVars, StoredBatches
<1>2. sched' = T /\ served' = IF T.phase = sched.phase THEN served ELSE "no"
  BY DEF SchedStep
<1>3. SchedulerSound(sched, StoredBatches, doneBatches)'
  BY <1>1, <1>2
<1>. QED  BY <1>1, <1>2, <1>3 DEF RequestInv

\* A request without a scheduler while the store moves on.
LEMMA OrphanStays ==
    ASSUME OrphanInv, Grows, UNCHANGED orphan
    PROVE  OrphanInv'
  BY DEF OrphanInv, Grows

\* What a pass has read while the store moves on.
LEMMA PassStays ==
    ASSUME PassInv, Grows, UNCHANGED pass
    PROVE  PassInv'
  BY DEF PassInv, Grows

\* The producer is left alone.
LEMMA ProducerStays == ASSUME ProducerInv, UNCHANGED producerVars PROVE ProducerInv'
  BY DEF ProducerInv, producerVars

\* The tables are left alone.
LEMMA TablesStay ==
    ASSUME StoreInv, TablesFinite, UNCHANGED storeVars
    PROVE  [StoreNext]_storeVars /\ StoreInv' /\ TablesFinite' /\ Grows
  BY TablesMove

\* listClaims returns keys.
LEMMA ClaimKeysTyped == ASSUME StoreInv PROVE ClaimKeys \subseteq Keys
  BY DEF StoreInv, StoreTypeOK, ClaimKeys, Claim

-----------------------------------------------------------------------------
(* The actions.                                                            *)

\* The steps that call neither the store nor the scheduler.
LEMMA QuietInv ==
    ASSUME PipelineIInv, UNCHANGED <<storeVars, schedVars, orphan, pass, remounts>>,
           ProducerInv'
    PROVE  PipelineIInv' /\ [StoreNext]_storeVars
<1>. USE DEF PipelineIInv
<1>1. StoreInv' /\ TablesFinite' /\ Grows /\ [StoreNext]_storeVars
  BY TablesStay
<1>2. RequestInv' /\ OrphanInv' /\ PassInv'
  BY <1>1, RequestStays, OrphanStays, PassStays DEF schedVars
<1>. QED  BY <1>1, <1>2 DEF WindowInv, schedVars

\* Revisions and the mark for none are numbers.
LEMMA RevisionFacts ==
    /\ \A r \in RevisionOrNone :
           r \in Int /\ r >= NoRevision /\ (r # NoRevision => r \in Revisions)
    /\ \A r \in RevisionOrNone : r < MaxRevision => r + 1 \in RevisionOrNone
    /\ \A r \in RevisionOrNone, q \in RevisionOrNone : r > q => r \in Revisions
    /\ Revisions \subseteq RevisionOrNone /\ NoRevision \in RevisionOrNone
  BY MaxRevisionAssumption DEF RevisionOrNone, Revisions, NoRevision

\* Speech, lost relabels, and writes that start.
LEMMA ProduceQuietly ==
    ASSUME PipelineIInv, NEW s \in Segments, NEW k \in Speakers,
           \/ TurnEvent(s, k) \/ SpeakerRevision(s, k) \/ RelabelLost(s, k)
           \/ StartWrite(s) \/ RetryTerminalWrite(s)
    PROVE  PipelineIInv' /\ [StoreNext]_storeVars
<1>. USE DEF PipelineIInv
<1>1. ASSUME live[s].rev < MaxRevision, Revise(s, k)
      PROVE  live' \in [Segments -> [seg : Segments, rev : RevisionOrNone, speaker : Speakers]]
  <2>1. PICK r : r = live[s].rev + 1
    OBVIOUS
  <2>2. r \in RevisionOrNone
    BY <1>1, <2>1, RevisionFacts DEF ProducerInv
  <2>3. PICK turn : turn = [live[s] EXCEPT !.rev = r, !.speaker = k]
    OBVIOUS
  <2>4. turn \in [seg : Segments, rev : RevisionOrNone, speaker : Speakers]
    <3>1. live[s] \in [seg : Segments, rev : RevisionOrNone, speaker : Speakers]
      BY DEF ProducerInv
    <3>. QED  BY ONLY <2>2, <2>3, <3>1, k \in Speakers
  <2>5. live' = [live EXCEPT ![s] = turn]
    BY <1>1, <2>1, <2>3 DEF Revise, ProducerInv
  <2>. QED  BY <2>4, <2>5 DEF ProducerInv
<1>2. CASE TurnEvent(s, k)
  BY <1>1, <1>2, QuietInv DEF TurnEvent, ProducerInv
<1>3. CASE SpeakerRevision(s, k)
  <2>1. live[s].rev < MaxRevision
    BY <1>3, MaxRevisionAssumption DEF SpeakerRevision
  <2>. QED  BY <1>1, <1>3, <2>1, QuietInv DEF SpeakerRevision, ProducerInv
<1>4. CASE RelabelLost(s, k)
  BY <1>4, QuietInv DEF RelabelLost, ProducerInv
<1>5. ASSUME live[s].rev > persisted[s] PROVE live[s] \in Turn
  BY <1>5, RevisionFacts DEF ProducerInv, Turn
<1>6. CASE StartWrite(s)
  BY <1>5, <1>6, QuietInv DEF StartWrite, ProducerInv
<1>7. CASE RetryTerminalWrite(s)
  BY <1>5, <1>7, QuietInv, RevisionFacts DEF RetryTerminalWrite, ProducerInv
<1>. QED  BY <1>2, <1>3, <1>4, <1>6, <1>7

\* A write that gave up leaves the store as it is.
LEMMA WriteGivesUpInv ==
    ASSUME PipelineIInv, NEW t \in writes, WriteGivesUp(t)
    PROVE  PipelineIInv' /\ [StoreNext]_storeVars
<1>1. ProducerInv'
  BY RevisionFacts DEF PipelineIInv, ProducerInv, WriteGivesUp, Turn
<1>. QED  BY <1>1, QuietInv DEF WriteGivesUp

\* The steps that are a transaction of the store and nothing else.
LEMMA TransactionInv ==
    ASSUME PipelineIInv, [StoreNext]_storeVars, ProducerInv',
           UNCHANGED <<schedVars, orphan, pass, remounts>>
    PROVE  PipelineIInv'
<1>. USE DEF PipelineIInv
<1>1. StoreInv' /\ TablesFinite' /\ Grows
  BY TablesMove
<1>2. RequestInv' /\ OrphanInv' /\ PassInv'
  BY <1>1, RequestStays, OrphanStays, PassStays DEF schedVars
<1>. QED  BY <1>1, <1>2 DEF WindowInv, schedVars

\* A relabel is apply_speakers, or is refused.
LEMMA ArrivesInv ==
    ASSUME PipelineIInv, NEW s \in Segments, NEW k \in Speakers, RelabelArrives(s, k)
    PROVE  PipelineIInv' /\ [StoreNext]_storeVars
<1>1. [StoreNext]_storeVars
  BY DEF RelabelArrives, StoreNext
<1>. QED  BY <1>1, TransactionInv DEF RelabelArrives, PipelineIInv, ProducerInv

\* A write is apply_transcript, or a duplicate.
LEMMA WriteAppliesInv ==
    ASSUME PipelineIInv, NEW t \in writes, WriteApplies(t)
    PROVE  PipelineIInv' /\ [StoreNext]_storeVars
<1>1. t \in Turn
  BY DEF PipelineIInv, ProducerInv
<1>2. [StoreNext]_storeVars
  BY <1>1 DEF WriteApplies, StoreNext
<1>3. ProducerInv'
  BY DEF WriteApplies, PipelineIInv, ProducerInv
<1>. QED  BY <1>2, <1>3, TransactionInv DEF WriteApplies

\* The steps of the scheduler that leave the store alone.
LEMMA SchedulerMoves ==
    ASSUME PipelineIInv, UNCHANGED <<storeVars, orphan, remounts>>, ProducerInv', PassInv',
           known' \subseteq Keys, NEW T, SchedStep(T),
           SchedulerSound(T, StoredBatches, doneBatches),
           T.phase = sched.phase /\ T.phase # "idle" => T.batch = sched.batch
    PROVE  PipelineIInv' /\ [StoreNext]_storeVars
<1>. USE DEF PipelineIInv
<1>1. StoreInv' /\ TablesFinite' /\ Grows /\ [StoreNext]_storeVars
  BY TablesStay
<1>2. RequestInv' /\ OrphanInv'
  BY <1>1, RequestSteps, OrphanStays
<1>. QED  BY <1>1, <1>2 DEF WindowInv

\* A write that resolved hands its turn to the scheduler.
LEMMA WriteResolvesInv ==
    ASSUME PipelineIInv, NEW t \in writes, WriteResolves(t)
    PROVE  PipelineIInv' /\ [StoreNext]_storeVars
<1>. USE DEF PipelineIInv
<1>1. t \in Turn
  BY DEF ProducerInv
<1>2. ProducerInv'
  BY <1>1, RevisionFacts DEF WriteResolves, ProducerInv, Turn
<1>3. PICK T : T = AddFinalTurn(sched, t, known)
  OBVIOUS
<1>4. SchedulerSound(T, StoredBatches, doneBatches) /\ Goes(sched, T)
  BY <1>1, <1>3, AddFinalTurnSound DEF RequestInv
<1>5. Grows /\ PassInv'
  BY TablesStay, PassStays DEF WriteResolves
<1>. QED  BY <1>2, <1>3, <1>4, <1>5, SchedulerMoves DEF WriteResolves, Goes, WindowInv

\* The timer, the replies of the store and of the detector, and the passing of time.
LEMMA ScheduleStepInv ==
    ASSUME PipelineIInv, Schedule
    PROVE  PipelineIInv' /\ [StoreNext]_storeVars
<1>. USE DEF PipelineIInv
<1>. DEFINE Sound(T) == SchedulerSound(T, StoredBatches, doneBatches)
            Move(T) == /\ SchedStep(T) /\ Sound(T)
                       /\ T.phase = sched.phase /\ T.phase # "idle" => T.batch = sched.batch
            Moves == \E T : Move(T)
<1>1. Sound(sched) /\ sched.phase \in {"idle", "begin", "detect", "commit"}
  BY DEF RequestInv, SchedulerSound
<1>2. UNCHANGED <<storeVars, orphan, producerVars, pass, remounts>>
  BY DEF Schedule, TimerFires, BeginSettles, DetectResolves, DetectRejects, CommitSettles,
         GateCallLeavesWindow, ClaimLeavesWindow
<1>3. ProducerInv' /\ PassInv'
  BY <1>2, TablesStay, PassStays, ProducerStays
<1>4. known' \subseteq Keys
  BY ClaimKeysTyped
  DEF Schedule, TimerFires, BeginSettles, DetectResolves, DetectRejects, CommitSettles,
      GateCallLeavesWindow, ClaimLeavesWindow, WindowInv, Listed
<1>5. Moves
  <2>1. CASE TimerFires
    BY <1>1, <2>1, FlushTimerSound DEF TimerFires, Goes
  <2>2. ASSUME NEW ok \in BOOLEAN, BeginSettles(ok)
        PROVE  Moves
    <3>1. ok => sched.batch.turns \in StoredBatches
      BY <2>2 DEF BeginSettles, RequestInv
    <3>. QED  BY <1>1, <2>2, <3>1, BeginSettledSound DEF BeginSettles
  <2>3. CASE DetectResolves
    BY <1>1, <2>3, DetectedSound DEF DetectResolves
  <2>4. CASE DetectRejects
    BY <1>1, <2>4, FailedSound DEF DetectRejects, DetectFailed
  <2>5. ASSUME NEW ok \in BOOLEAN, CommitSettles(ok)
        PROVE  Moves
    <3>1. ok => sched.batch.turns \in doneBatches
      BY <2>5 DEF CommitSettles, RequestInv
    <3>. QED  BY <1>1, <2>5, <3>1, CommitSettledSound DEF CommitSettles
  <2>6. CASE GateCallLeavesWindow
    BY <1>1, <2>6, BudgetsSound DEF GateCallLeavesWindow, Goes
  <2>7. CASE ClaimLeavesWindow
    BY <1>1, <2>7, BudgetsSound DEF ClaimLeavesWindow, Goes
  <2>. QED  BY <2>1, <2>2, <2>3, <2>4, <2>5, <2>6, <2>7 DEF Schedule
<1>6. PICK T : Move(T)
  <2>. HIDE DEF Move
  <2>. QED  BY <1>5
<1>. QED  BY <1>2, <1>3, <1>4, <1>6, SchedulerMoves

\* The store serves the request of the scheduler.
LEMMA ServeInv ==
    ASSUME PipelineIInv, ServeBegin \/ ServeCommit
    PROVE  PipelineIInv' /\ [StoreNext]_storeVars
<1>. USE DEF PipelineIInv
<1>1. PICK turns : turns = sched.batch.turns
  OBVIOUS
<1>2. turns \in SUBSET Turn
  BY <1>1 DEF RequestInv, SchedulerSound, Durable, Batch
<1>3. /\ [StoreNext]_storeVars
      /\ served' = "applied" /\ sched.phase = "begin" => turns \in StoredBatches'
      /\ served' = "applied" /\ sched.phase = "commit" => turns \in doneBatches'
      /\ served' \in {"applied", "refused"}
  <2>1. ASSUME ServeBegin, BeginBatch(turns) PROVE StoreNext /\ turns \in StoredBatches'
    BY <1>2, <2>1 DEF StoreNext, BeginBatch, StoredBatches
  <2>2. ASSUME ServeCommit, CommitBatch(turns, sched.accepted)
        PROVE  StoreNext /\ turns \in doneBatches'
    <3>1. turns \in StoredBatches /\ sched.accepted \in CandidateSets
      BY <1>1, <2>2 DEF ServeCommit, RequestInv, SchedulerSound, Durable
    <3>2. turns \in doneBatches'
      BY <2>2, <3>1 DEF CommitBatch, StoredBatches
    <3>. QED  BY <2>2, <3>1, <3>2 DEF StoreNext
  <2>. QED  BY <1>1, <2>1, <2>2 DEF ServeBegin, ServeCommit
<1>4. UNCHANGED <<sched, known, orphan, producerVars, pass, remounts>>
  BY DEF ServeBegin, ServeCommit
<1>5. StoreInv' /\ TablesFinite' /\ Grows
  BY <1>3, TablesMove
<1>6. RequestInv'
  <2>1. PICK S : S = sched
    OBVIOUS
  <2>2. SchedulerSound(S, StoredBatches', doneBatches')
    BY <1>5, <2>1, SoundStays DEF RequestInv, Grows
  <2>3. SchedulerSound(sched, StoredBatches, doneBatches)'
    BY <1>4, <2>1, <2>2
  <2>. QED  BY <1>1, <1>3, <1>4, <2>3 DEF RequestInv
<1>7. OrphanInv' /\ PassInv' /\ ProducerInv'
  BY <1>4, <1>5, OrphanStays, PassStays, ProducerStays
<1>. QED  BY <1>3, <1>4, <1>5, <1>6, <1>7 DEF WindowInv

\* A request that outlived its scheduler is one more transaction.
LEMMA OrphanArrivesInv ==
    ASSUME PipelineIInv, OrphanArrives
    PROVE  PipelineIInv' /\ [StoreNext]_storeVars
<1>. USE DEF PipelineIInv
<1>1. [StoreNext]_storeVars
  <2>1. ASSUME orphan.phase = "begin", BeginBatch(orphan.turns) PROVE StoreNext
    <3>1. orphan.turns \in SUBSET Turn
      BY <2>1 DEF OrphanInv, NoRequest
    <3>. QED  BY <2>1, <3>1 DEF StoreNext
  <2>2. ASSUME orphan.phase = "commit", CommitBatch(orphan.turns, orphan.accepted)
        PROVE  StoreNext
    <3>1. orphan.turns \in StoredBatches /\ orphan.accepted \in CandidateSets
      BY <2>2 DEF OrphanInv, NoRequest
    <3>. QED  BY <2>2, <3>1 DEF StoreNext
  <2>. QED  BY <2>1, <2>2 DEF OrphanArrives
<1>2. UNCHANGED <<schedVars, producerVars, pass, remounts>> /\ orphan' = NoRequest
  BY DEF OrphanArrives
<1>3. StoreInv' /\ TablesFinite' /\ Grows
  BY <1>1, TablesMove
<1>4. RequestInv' /\ PassInv' /\ ProducerInv'
  BY <1>2, <1>3, RequestStays, PassStays, ProducerStays DEF schedVars
<1>5. OrphanInv'
  BY <1>2 DEF OrphanInv
<1>. QED  BY <1>1, <1>2, <1>3, <1>4, <1>5 DEF WindowInv, schedVars

\* get_artifact reads one table after the other.
LEMMA ReadInv ==
    ASSUME PipelineIInv, ReadTurns \/ ReadPendingSegments \/ ReadPendingBatches
    PROVE  PipelineIInv' /\ [StoreNext]_storeVars
<1>. USE DEF PipelineIInv
<1>1. UNCHANGED <<storeVars, schedVars, orphan, producerVars, remounts>>
  BY DEF ReadTurns, ReadPendingSegments, ReadPendingBatches
<1>2. StoreInv' /\ TablesFinite' /\ Grows /\ [StoreNext]_storeVars
  BY <1>1, TablesStay
<1>. DEFINE Read == [stage : {"idle", "turns", "segments", "batches"}, turns : SUBSET Turn,
                     batches : SUBSET StoredBatches, claims : SUBSET Keys]
<1>3. pass' \in Read /\ IsFiniteSet(pass'.turns) /\ IsFiniteSet(pass'.batches)
  <2>1. CASE ReadTurns
    <3>. DEFINE Rows == {s \in Segments : segment[s].rev # NoRevision}
                Row(s) == [seg |-> s, rev |-> segment[s].rev, speaker |-> segment[s].speaker]
    <3>1. PICK turns : turns = {Row(s) : s \in Rows}
      OBVIOUS
    <3>2. pass' = [pass EXCEPT !.stage = "turns", !.turns = turns]
      BY <2>1, <3>1 DEF ReadTurns
    <3>3. turns \in SUBSET Turn
      BY <3>1, RevisionFacts DEF StoreInv, StoreTypeOK, SegmentRow, Turn
    <3>4. IsFiniteSet(turns)
      <4>1. IsFiniteSet(Rows)
        BY DEF TablesFinite
      <4>2. PICK f : f = [s \in Rows |-> Row(s)]
        OBVIOUS
      <4>3. f \in Surjection(Rows, turns)
        BY <3>1, <4>2 DEF Surjection
      <4>. HIDE DEF Rows
      <4>. QED  BY <4>1, <4>3, FS_Surjection DEF ExistsSurjection
    <3>. QED  BY <3>2, <3>3, <3>4 DEF PassInv
  <2>2. CASE ReadPendingSegments
    <3>1. PICK turns, keys : /\ turns = {t \in pass.turns : t.seg \in PendingSegments}
                             /\ keys = Listed(ClaimKeys)
      OBVIOUS
    <3>2. pass' = [pass EXCEPT !.stage = "segments", !.claims = keys, !.turns = turns]
      BY <2>2, <3>1 DEF ReadPendingSegments
    <3>3. keys \subseteq Keys
      BY <3>1, ClaimKeysTyped DEF Listed, WindowInv
    <3>4. turns \subseteq pass.turns /\ IsFiniteSet(turns)
      BY <3>1, FS_Subset DEF PassInv
    <3>. QED  BY <3>2, <3>3, <3>4 DEF PassInv
  <2>3. CASE ReadPendingBatches
    BY <2>3 DEF ReadPendingBatches, PassInv, TablesFinite, StoredBatches
  <2>. QED  BY <2>1, <2>2, <2>3
<1>4. PassInv'
  <2>1. StoredBatches' = StoredBatches
    BY <1>1 DEF storeVars, StoredBatches
  <2>. QED  BY <1>3, <2>1 DEF PassInv
<1>5. RequestInv' /\ OrphanInv' /\ ProducerInv'
  BY <1>1, <1>2, RequestStays, OrphanStays, ProducerStays DEF schedVars
<1>. QED  BY <1>1, <1>2, <1>4, <1>5 DEF WindowInv, schedVars

\* A pass that has read nothing.
LEMMA NoPassTyped ==
    NoPass \in [stage : {"idle", "turns", "segments", "batches"}, turns : SUBSET Turn,
                batches : SUBSET StoredBatches, claims : SUBSET Keys]
    /\ IsFiniteSet(NoPass.turns) /\ IsFiniteSet(NoPass.batches)
  BY FS_EmptySet DEF NoPass

\* The artifact is handed to the scheduler, which exists or is created.
LEMMA FinishPassInv ==
    ASSUME PipelineIInv, NEW limit \in GateLimits, FinishPass(limit)
    PROVE  PipelineIInv' /\ [StoreNext]_storeVars
<1>. USE DEF PipelineIInv
<1>1. PICK S0 : S0 = SchedulerFor(limit)
  OBVIOUS
<1>2. SchedulerSound(S0, StoredBatches, doneBatches) /\ Goes(sched, S0)
  <2>1. SchedulerSound(sched, StoredBatches, doneBatches)
    BY DEF RequestInv
  <2>2. CASE sched.disposed
    BY <1>1, <2>1, <2>2, NewSchedulerSound DEF SchedulerFor, SchedulerSound, Goes
  <2>3. CASE ~sched.disposed
    BY <1>1, <2>1, <2>3, BudgetsSound DEF SchedulerFor
  <2>. QED  BY <2>2, <2>3
<1>3. PICK batches \in SetToSeqs(pass.batches), turns \in SetToSeqs(pass.turns) :
         SchedStep(RecoverClaimGateArtifact(limit, batches, turns, known'))
  BY DEF FinishPass
<1>4. PICK T : T = RecoverClaimGateArtifact(limit, batches, turns, known')
  OBVIOUS
<1>5. SchedulerSound(T, StoredBatches, doneBatches) /\ Goes(S0, T)
  <2>1. PICK n, m : n = Cardinality(pass.batches) /\ m = Cardinality(pass.turns)
    OBVIOUS
  <2>2. n \in Nat /\ m \in Nat
    BY <2>1, FS_CardinalityType DEF PassInv
  <2>3. batches \in [1 .. n -> StoredBatches] /\ turns \in [1 .. m -> Turn]
    BY <1>3, <2>1 DEF SetToSeqs, PassInv
  <2>4. StoredBatches \in SUBSET SUBSET Turn
    BY DEF StoreInv, StoreTypeOK, StoredBatches
  <2>5. PICK listed : listed = known'
    OBVIOUS
  <2>. QED  BY <1>1, <1>2, <1>4, <2>2, <2>3, <2>4, <2>5, RecoverArtifactSound
<1>6. known' \subseteq Keys
  BY DEF FinishPass, Listed, WindowInv, PassInv
<1>7. UNCHANGED <<storeVars, orphan, producerVars, remounts>> /\ pass' = NoPass
  BY DEF FinishPass
<1>8. PassInv' /\ ProducerInv'
  <2>1. StoredBatches' = StoredBatches
    BY <1>7 DEF storeVars, StoredBatches
  <2>. QED  BY <1>7, <2>1, NoPassTyped, ProducerStays DEF PassInv
<1>. QED  BY <1>2, <1>3, <1>4, <1>5, <1>6, <1>7, <1>8, SchedulerMoves DEF Goes

\* An unmount leaves at most the request that is on its way.
LEMMA RemountInv ==
    ASSUME PipelineIInv, Remount
    PROVE  PipelineIInv' /\ [StoreNext]_storeVars
<1>. USE DEF PipelineIInv
<1>1. UNCHANGED <<storeVars, producerVars>> /\ pass' = NoPass /\ known' = {}
      /\ SchedStep(Settle(Dispose(NewScheduler(sched.maxGateCalls))))
  BY DEF Remount
<1>2. /\ StoreInv' /\ TablesFinite' /\ Grows /\ [StoreNext]_storeVars
      /\ StoredBatches' = StoredBatches
  BY <1>1, TablesStay DEF storeVars, StoredBatches
<1>3. PICK T : T = Settle(Dispose(NewScheduler(sched.maxGateCalls)))
  OBVIOUS
<1>4. SchedulerSound(T, StoredBatches, doneBatches) /\ T.phase = "idle"
  BY <1>3, DisposedSound
<1>5. RequestInv'
  BY <1>1, <1>3, <1>4, RequestSteps
<1>6. OrphanInv'
  <2>1. CASE sched.phase \in {"begin", "commit"} /\
             orphan' = [phase |-> sched.phase, turns |-> sched.batch.turns,
                        accepted |-> sched.accepted]
    <3>1. /\ sched.batch.turns \in SUBSET Turn
          /\ sched.phase = "commit" => sched.batch.turns \in StoredBatches
                                       /\ sched.accepted \in CandidateSets
      BY DEF RequestInv, SchedulerSound, Durable, Batch
    <3>. QED  BY <1>2, <2>1, <3>1 DEF OrphanInv
  <2>2. CASE orphan' = orphan
    BY <1>2, <2>2, OrphanStays
  <2>3. CASE orphan' = NoRequest
    BY <2>3 DEF OrphanInv
  <2>. QED  BY <2>1, <2>2, <2>3 DEF Remount
<1>7. PassInv' /\ ProducerInv'
  BY <1>1, <1>2, NoPassTyped, ProducerStays DEF PassInv
<1>8. WindowInv'
  BY <1>1, PipelineOptions DEF WindowInv, Remount
<1>. QED  BY <1>2, <1>5, <1>6, <1>7, <1>8

\* The provider starts with nothing on its way.
LEMMA PipelineInitInv == PipelineInit => PipelineIInv
<1>. SUFFICES ASSUME PipelineInit PROVE PipelineIInv
  OBVIOUS
<1>1. StoreInv /\ TablesFinite
  <2>1. {s \in Segments : segment[s].rev # NoRevision} = {} /\ openBatches = {}
    BY DEF PipelineInit, StoreInit
  <2>. QED  BY <2>1, StoreInitInv, FS_EmptySet DEF PipelineInit, TablesFinite
<1>2. RequestInv
  BY NewSchedulerSound DEF PipelineInit, RequestInv
<1>3. OrphanInv /\ PassInv /\ WindowInv
  BY NoPassTyped, PipelineOptions DEF PipelineInit, OrphanInv, PassInv, WindowInv
<1>4. ProducerInv
  BY RevisionFacts DEF PipelineInit, StoreInit, ProducerInv
<1>. QED  BY <1>1, <1>2, <1>3, <1>4 DEF PipelineIInv

\* Every step keeps the invariant and is a transaction or leaves the tables alone.
LEMMA PipelineStepInv ==
    ASSUME PipelineIInv, [PipelineNext]_vars
    PROVE  PipelineIInv' /\ [StoreNext]_storeVars
<1>1. CASE Produce
  <2>1. PICK s \in Segments :
           \/ \E k \in Speakers : \/ TurnEvent(s, k) \/ SpeakerRevision(s, k)
                                  \/ RelabelArrives(s, k) \/ RelabelLost(s, k)
           \/ StartWrite(s) \/ RetryTerminalWrite(s)
    BY <1>1 DEF Produce
  <2>2. PICK k : k \in Speakers
    BY DEF PipelineIInv, ProducerInv
  <2>. QED  BY <2>1, <2>2, ProduceQuietly, ArrivesInv
<1>2. CASE Write
  BY <1>2, WriteAppliesInv, WriteResolvesInv, WriteGivesUpInv DEF Write
<1>3. CASE Serve
  BY <1>3, ServeInv, OrphanArrivesInv DEF Serve
<1>4. CASE Schedule
  BY <1>4, ScheduleStepInv
<1>5. CASE RecoveryPass
  BY <1>5, ReadInv, FinishPassInv DEF RecoveryPass
<1>6. CASE Remount
  BY <1>6, RemountInv
<1>7. CASE UNCHANGED vars
  BY <1>7, QuietInv, ProducerStays DEF vars, PipelineIInv
<1>. QED  BY <1>1, <1>2, <1>3, <1>4, <1>5, <1>6, <1>7 DEF PipelineNext

-----------------------------------------------------------------------------
\* The inductive invariant of the pipeline holds in every reachable state.
THEOREM PipelineInvariant == PipelineSpec => []PipelineIInv
<1>1. PipelineIInv /\ [PipelineNext]_vars => PipelineIInv'
  BY PipelineStepInv
<1>. QED  BY <1>1, PipelineInitInv, PTL DEF PipelineSpec

\* Whatever the provider, its schedulers, lost replies, unmounts and late requests do,
\* the tables see their transactions only, with arguments those are meant for: a commit
\* names a batch that is stored (beginBatch, commitBatch, applyTranscript).  So every
\* theorem about the tables holds in the pipeline.
THEOREM PipelineUsesTransactions == PipelineSpec => StoreSpec
<1>1. PipelineInit => StoreInit
  BY DEF PipelineInit
<1>2. PipelineIInv /\ [PipelineNext]_vars => [StoreNext]_storeVars
  BY PipelineStepInv
<1>. QED  BY <1>1, <1>2, PipelineInvariant, PTL DEF PipelineSpec, StoreSpec

\* The whole pipeline implements the abstract gate: no interleaving of writes, batches,
\* recovery passes and unmounts gates a revision twice or writes two claims of a key.
THEOREM PipelineImplementsGate == PipelineSpec => ImplementsClaimGate
  BY PipelineUsesTransactions, StoreImplementsGate, PTL

\* The state has its type, and a revision that completedTurnRevisions holds is in a
\* completed batch of the store: the memory that makes addFinalTurn skip a turn never
\* hides one that still has to be gated (markTurnRevisionCompleted, hasTurnRevision).
THEOREM MemoryOfTheSchedulerIsSound == PipelineSpec => []PipelineInv
<1>1. PipelineIInv => PipelineInv
  <2>. SUFFICES ASSUME PipelineIInv PROVE PipelineInv
    OBVIOUS
  <2>. USE DEF PipelineIInv
  <2>1. SchedulerSound(sched, StoredBatches, doneBatches)
    BY DEF RequestInv
  <2>2. CompletedIsProcessed
    BY <2>1 DEF SchedulerSound, CompletedIsProcessed
  <2>3. /\ sched.pendingTurns \subseteq Turn
        /\ QueuedBatches(sched) \cup {sched.batch} \subseteq Batch
        /\ sched.phase \in {"idle", "begin", "detect", "commit"}
    BY <2>1 DEF SchedulerSound, Durable
  <2>4. orphan.turns \subseteq Turn
    BY DEF OrphanInv, NoRequest, StoreInv, StoreTypeOK, StoredBatches
  <2>5. PipelineTypeOK
    BY <2>3, <2>4 DEF PipelineTypeOK, StoreInv, RequestInv, ProducerInv, PassInv, WindowInv
  <2>. QED  BY <2>2, <2>5 DEF PipelineInv
<1>. QED  BY <1>1, PipelineInvariant, PTL

\* A batch the scheduler takes for begun is stored with exactly its turns, through lost
\* replies, recovery from a stale artifact and unmounts (beginBatch, recoverBatch).
THEOREM BegunStaysDurable == PipelineSpec => []BegunIsDurable
<1>1. PipelineIInv => BegunIsDurable
  BY DEF PipelineIInv, RequestInv, SchedulerSound, Durable, BegunIsDurable
<1>. QED  BY <1>1, PipelineInvariant, PTL
=============================================================================
