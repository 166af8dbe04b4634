------------------------- MODULE ClaimSchedulerHost -------------------------
(***************************************************************************)
(* A ClaimScheduler under an arbitrary host: turns and durable batches are *)
(* handed to it in any order and any number of times, also replays of what *)
(* it is working on, and beginBatch, detect and commitBatch settle either  *)
(* way whenever they like.  What holds here is what the class guarantees   *)
(* whatever the runtime provider and the store do.                         *)
(***************************************************************************)
EXTENDS ClaimScheduler

CONSTANT RecoverableBatches   \* the sets of turns recoverBatch is called with

ASSUME RecoverableBatchesAssumption == RecoverableBatches \subseteq SUBSET Turn

VARIABLES
    added,      \* history: turn revisions handed to addFinalTurn or recoverBatch
    committed   \* history: turn revisions whose commitBatch has resolved

hostVars == <<sched, added, committed>>

\* flush is waiting for the callback of this phase.
Awaits(phase) == sched.phase = phase

HostInit ==
    /\ sched \in {NewScheduler(limit) : limit \in GateLimits}
    /\ added = {}
    /\ committed = {}

-----------------------------------------------------------------------------
AddTurn(t, listed) ==
    /\ sched' = AddFinalTurn(sched, t, listed)
    /\ added' = IF sched.disposed THEN added ELSE added \cup {TurnRevision(t)}
    /\ UNCHANGED committed

Recover(turns) ==
    /\ sched' = RecoverBatch(sched, turns)
    /\ added' = IF sched.disposed THEN added ELSE added \cup Inventory(turns)
    /\ UNCHANGED committed

FireTimer(listed) ==
    /\ sched.timer
    /\ sched' = FlushTimer(sched, listed)
    /\ UNCHANGED <<added, committed>>

SettleBegin(ok, listed) ==
    /\ Awaits("begin")
    /\ sched' = BeginSettled(sched, ok, listed)
    /\ UNCHANGED <<added, committed>>

\* Detection resolves.  The local detector answers after a failed call only with
\* candidates.
ResolveDetection(candidates, accepted, counted) ==
    /\ Awaits("detect")
    /\ accepted \in AcceptedCandidates(sched, candidates)
    /\ counted \/ candidates # {}
    /\ sched' = Detected(sched, candidates, accepted, counted)
    /\ UNCHANGED <<added, committed>>

RejectDetection ==
    /\ Awaits("detect")
    /\ sched' = DetectFailed(sched)
    /\ UNCHANGED <<added, committed>>

SettleCommit(ok) ==
    /\ Awaits("commit")
    /\ sched' = CommitSettled(sched, ok)
    /\ committed' = IF ok THEN committed \cup Inventory(sched.batch.turns) ELSE committed
    /\ UNCHANGED added

SetLimit(limit) ==
    /\ sched' = SetMaxGateCallsPerHour(sched, limit)
    /\ UNCHANGED <<added, committed>>

DisposeScheduler ==
    /\ sched' = Dispose(sched)
    /\ UNCHANGED <<added, committed>>

ExpireGateCall ==
    /\ sched.gateCalls > 0
    /\ sched' = GateCallExpires(sched)
    /\ UNCHANGED <<added, committed>>

ExpireBurstClaim ==
    /\ sched.burstClaims > 0
    /\ sched' = BurstClaimExpires(sched)
    /\ UNCHANGED <<added, committed>>

ExpireHourClaim ==
    /\ sched.hourClaims > sched.burstClaims
    /\ sched' = HourClaimExpires(sched)
    /\ UNCHANGED <<added, committed>>

-----------------------------------------------------------------------------
DetectSettles ==
    \/ RejectDetection
    \/ \E candidates \in CandidateSets :
           \E accepted \in SUBSET candidates, counted \in BOOLEAN :
               ResolveDetection(candidates, accepted, counted)

TimePasses == ExpireGateCall \/ ExpireBurstClaim \/ ExpireHourClaim

HostNext ==
    \/ \E t \in Turn, listed \in SUBSET Keys : AddTurn(t, listed)
    \/ \E turns \in RecoverableBatches : Recover(turns)
    \/ \E listed \in SUBSET Keys : FireTimer(listed)
    \/ \E ok \in BOOLEAN, listed \in SUBSET Keys : SettleBegin(ok, listed)
    \/ DetectSettles
    \/ \E ok \in BOOLEAN : SettleCommit(ok)
    \/ \E limit \in GateLimits : SetLimit(limit)
    \/ DisposeScheduler
    \/ TimePasses

HostSpec == HostInit /\ [][HostNext]_hostVars

(***************************************************************************)
(* Liveness assumptions.  A timer fires; an oldest gate call leaves the    *)
(* hourly window; the recovery pass runs every minute and sets the current *)
(* limit again.  The callbacks settle, and do not fail forever: an         *)
(* outcome that is possible again and again happens.  The host hands each  *)
(* revision over once and keeps the scheduler.                             *)
(***************************************************************************)
KeptHostNext ==
    \/ \E t \in Turn, listed \in SUBSET Keys :
           TurnRevision(t) \notin added /\ AddTurn(t, listed)
    \/ \E turns \in RecoverableBatches :
           Inventory(turns) \cap added = {} /\ Recover(turns)
    \/ \E listed \in SUBSET Keys : FireTimer(listed)
    \/ \E ok \in BOOLEAN, listed \in SUBSET Keys : SettleBegin(ok, listed)
    \/ DetectSettles
    \/ \E ok \in BOOLEAN : SettleCommit(ok)
    \/ \E limit \in GateLimits : SetLimit(limit)
    \/ TimePasses

HostFairness ==
    /\ WF_hostVars(\E listed \in SUBSET Keys : FireTimer(listed))
    /\ WF_hostVars(ExpireGateCall)
    /\ WF_hostVars(SetLimit(sched.maxGateCalls))
    /\ SF_hostVars(\E listed \in SUBSET Keys : SettleBegin(TRUE, listed))
    /\ SF_hostVars(DetectSettles /\ Awaits("detect") /\ sched'.phase = "commit")
    /\ SF_hostVars(SettleCommit(TRUE))

KeptHostSpec == HostInit /\ [][KeptHostNext]_hostVars /\ HostFairness

-----------------------------------------------------------------------------
\* The turn revisions the scheduler still has to work on.
InHand(S) ==
    Inventory(S.pendingTurns) \cup Inventory(S.batch.turns)
        \cup UNION {Inventory(b.turns) : b \in QueuedBatches(S)}

HostTypeOK ==
    /\ sched.pendingTurns \subseteq Turn
    /\ QueuedBatches(sched) \subseteq Batch
    /\ sched.batch \in Batch
    /\ sched.knownBatchIds \subseteq SUBSET (Segments \X Revisions)
    /\ sched.gateCalls \in Nat /\ sched.hourClaims \in Nat /\ sched.burstClaims \in Nat
    /\ sched.maxGateCalls \in GateLimits
    /\ sched.phase \in {"idle", "begin", "detect", "commit"}
    /\ sched.existing \subseteq Keys
    /\ sched.accepted \subseteq Candidate
    /\ {sched.timer, sched.limitReached, sched.rateLimited, sched.disposed} \subseteq BOOLEAN
    /\ added \subseteq Segments \X Revisions
    /\ committed \subseteq Segments \X Revisions

(***************************************************************************)
(* No turn is lost: until the scheduler is disposed, a revision handed to  *)
(* addFinalTurn or recoverBatch is pending, queued, in flight, or was      *)
(* committed.  The early returns of hasTurnRevision and hasBatch and every *)
(* failure path of flush are what could lose one.                          *)
(***************************************************************************)
NothingDropped ==
    ~sched.disposed => added \subseteq InHand(sched) \cup committed

(***************************************************************************)
(* A scheduler with work and nothing in flight has a timer, or it stopped  *)
(* at the gate limit in the state from which setMaxGateCallsPerHour starts *)
(* it again: flush never returns leaving turns that nothing will wake.     *)
(***************************************************************************)
WorkIsScheduled ==
    (~sched.disposed /\ ~Running(sched) /\ HasWork(sched)) =>
        sched.timer \/ sched.limitReached

(***************************************************************************)
(* knownBatchIds names exactly the batches that are queued or in flight,   *)
(* each once.  An id left behind would make recoverBatch skip a durable    *)
(* batch for good; a missing one would let a recovery pass queue a second  *)
(* copy of a batch that is in flight.                                      *)
(***************************************************************************)
KnownBatchesExact ==
    ~sched.disposed =>
        LET held == sched.pendingBatches \o
                        (IF Running(sched) THEN <<sched.batch>> ELSE <<>>)
        IN  /\ sched.knownBatchIds = {Inventory(held[i].turns) : i \in DOMAIN held}
            /\ Cardinality(sched.knownBatchIds) = Len(held)

(***************************************************************************)
(* The budgets hold: the claims of the last hour and of the burst window,  *)
(* those of a commit in flight included, stay within the limits although   *)
(* they are counted only when the commit has resolved, and the gate calls  *)
(* of an hour never exceed the highest limit in force.                     *)
(***************************************************************************)
BudgetsRespected ==
    /\ sched.hourClaims + Cardinality(sched.accepted) <= MaxClaimsPerHour
    /\ sched.burstClaims + Cardinality(sched.accepted) <= MaxBurstClaims
    /\ \E limit \in GateLimits : sched.gateCalls <= limit

(***************************************************************************)
(* The state has its type and the budgets hold.                            *)
(***************************************************************************)
HostInv == HostTypeOK /\ BudgetsRespected

(***************************************************************************)
(* A disposed scheduler is silent: it keeps nothing, and a callback that   *)
(* settles afterwards starts no further call and sets no timer (an await   *)
(* of flush may be outstanding when the provider is unmounted).            *)
(***************************************************************************)
SilentStep ==
    sched.disposed =>
        /\ sched'.disposed /\ ~sched'.timer /\ ~HasWork(sched')
        /\ sched'.phase \in {sched.phase, "idle"}

(***************************************************************************)
(* Once a batch has begun, its grouping is durable in the store and the    *)
(* scheduler keeps it: the batch stays queued or in flight with the same   *)
(* turns until its commit resolves, through every failure and retry.       *)
(***************************************************************************)
BegunBatches(S) == {b.turns : b \in {c \in QueuedBatches(S) \cup {S.batch} : c.begun}}

KeepsBegunBatches ==
    ~sched'.disposed =>
        \A turns \in BegunBatches(sched) :
            turns \in BegunBatches(sched') \/ Inventory(turns) \subseteq committed'

(***************************************************************************)
(* Both of the above, as a property of every step: flush, interrupted at   *)
(* any of its awaits, neither loses a begun batch nor works on after       *)
(* dispose.                                                                *)
(***************************************************************************)
StepsKeepPromises == [][KeepsBegunBatches /\ SilentStep]_hostVars

(***************************************************************************)
(* Every revision that is handed over is eventually gated, also when calls *)
(* fail and are retried and when the hourly limit stops flush without a    *)
(* timer.                                                                  *)
(***************************************************************************)
AddedIsEventuallyGated ==
    \A r \in Segments \X Revisions : r \in added ~> r \in committed
=============================================================================
