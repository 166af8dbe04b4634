------------------------------ MODULE ClaimGate ------------------------------
(***************************************************************************)
(* What the automatic claim gate promises, without batches, requests and   *)
(* recovery: final revisions of turns are queued, each queued revision is  *)
(* gated at most once, and gating a group of revisions records the claims  *)
(* found in it in the same step.  Claims may be added to a group that is   *)
(* gated already (the retry of a commit whose reply was lost brings what   *)
(* its second detection found); no step adds a second claim with the same  *)
(* duplicate key, and nothing is taken back.                               *)
(***************************************************************************)
EXTENDS ClaimGateTypes

VARIABLES
    queued,   \* highest final revision of each segment
    gated,    \* the revisions that went through the gate
    claims    \* the claims that were recorded

gateVars == <<queued, gated, claims>>

ClaimsOf(revs) == [batch : {revs}, key : Keys, wording : Wordings]

KeysAreUnique(cs) == \A c, d \in cs : c.key = d.key => c = d

GateInit ==
    /\ queued = [s \in Segments |-> NoRevision]
    /\ gated = {}
    /\ claims = {}

Queue(s, r) ==
    /\ r > queued[s]
    /\ queued' = [queued EXCEPT ![s] = r]
    /\ UNCHANGED <<gated, claims>>

Record(new) ==
    /\ claims' = claims \cup new
    /\ KeysAreUnique(claims')

\* A group names a segment once.
PassGate(revs, new) ==
    /\ revs # {} /\ revs \cap gated = {}
    /\ \A p \in revs : p[2] <= queued[p[1]]
    /\ \A p, q \in revs : p[1] = q[1] => p = q
    /\ gated' = gated \cup revs
    /\ Record(new)
    /\ UNCHANGED queued

Amend(revs, new) ==
    /\ revs \subseteq gated
    /\ Record(new)
    /\ UNCHANGED <<queued, gated>>

GateNext ==
    \/ \E s \in Segments, r \in Revisions : Queue(s, r)
    \/ \E revs \in SUBSET (Segments \X Revisions) :
           \E new \in SUBSET ClaimsOf(revs) : PassGate(revs, new) \/ Amend(revs, new)

GateSpec == GateInit /\ [][GateNext]_gateVars
=============================================================================
