--------------------------- MODULE ClaimGateTypes ---------------------------
(***************************************************************************)
(* The data that the claim scheduler of the desktop application and the    *)
(* claim gate tables of the meeting store exchange.                        *)
(*                                                                         *)
(* Data is abstracted to what the gate compares.  The text and the times   *)
(* of a turn are a function of its segment and revision; the speaker is    *)
(* not, because apply_speakers changes it without a new revision, so a     *)
(* turn keeps it.  A batch is the set of its turns: the scheduler sorts    *)
(* them before it derives the batch id, and the id is a hash of the        *)
(* segment:revision inventory, so equal inventories mean equal ids.        *)
(***************************************************************************)
EXTENDS Integers, FiniteSets

CONSTANTS
    Segments,      \* segments of the meeting's live transcript version
    MaxRevision,   \* bound on the revision numbers that are enumerated
    Speakers,      \* speakers a segment can be attributed to
    Keys,          \* semantic duplicate keys of automatic claims
    Wordings       \* what a claim version's content hash tells apart

ASSUME MaxRevisionAssumption == MaxRevision \in Nat

NoRevision == -1
Revisions == 0 .. MaxRevision
RevisionOrNone == Revisions \cup {NoRevision}

\* ClaimGateTurnSnapshot (snapshotTurn) and the ClaimCandidate of a detection.
Turn == [seg : Segments, rev : Revisions, speaker : Speakers]
Candidate == [key : Keys, wording : Wordings]

\* turnRevisionKey and createClaimGateBatch: what identifies a turn and a batch.
TurnRevision(t) == <<t.seg, t.rev>>
Inventory(turns) == {TurnRevision(t) : t \in turns}

\* The candidates of one detection: finitely many, a key at most once.
CandidateSets ==
    {cs \in SUBSET Candidate :
        IsFiniteSet(cs) /\ \A c, d \in cs : c.key = d.key => c = d}
=============================================================================
