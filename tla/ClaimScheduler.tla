--------------------------- MODULE ClaimScheduler ---------------------------
(***************************************************************************)
(* The class ClaimScheduler of ui/desktop/src/live/claimScheduler.ts: it   *)
(* collects finalized turns of a live meeting, groups them into batches,   *)
(* makes each batch durable (beginBatch), sends it to claim detection      *)
(* (detect), selects candidates within the budgets and commits them        *)
(* (commitBatch), retrying a failed batch with the same identity.          *)
(*                                                                         *)
(* JavaScript runs one event at a time, so everything up to the next await *)
(* is one step.  The methods are written as functions from the state of    *)
(* the object to its next state, because one event can call several of     *)
(* them (a recovery pass calls recoverBatch and addFinalTurn in a loop).   *)
(* The three awaits of flush are the phases "begin", "detect", "commit".   *)
(*                                                                         *)
(* gateCallTimes and acceptedClaimTimes are kept as the number of entries  *)
(* younger than the window: pruneBudgets drops the others before every     *)
(* read.  The retry delay only decides when the timer fires and is left    *)
(* out with consecutiveFailures, and so is the notice of onBackpressure    *)
(* with gatewayCatchingUp, which nothing reads back.                       *)
(***************************************************************************)
EXTENDS ClaimGateTypes, Sequences

CONSTANTS
    MaxTurnsPerBatch,   \* options.maxTurnsPerBatch (4)
    GateLimits,         \* values of options.maxGateCallsPerHour (30 and 1200)
    MaxClaimsPerHour,   \* options.maxAcceptedClaimsPerHour (10)
    MaxBurstClaims,     \* options.maxBurstClaims (2)
    MaxCompleted        \* maxCompletedTurnRevisions (10000)

VARIABLE sched   \* the scheduler of the meeting, in the hands of its host

\* A segment is named by its place in the (startMs, providerTurnOrder) order.
ASSUME SegmentsAreOrdered == Segments \subseteq Nat
ASSUME SchedulerOptions ==
    /\ MaxTurnsPerBatch \in Nat \ {0}
    /\ GateLimits \subseteq Nat \ {0}
    /\ MaxClaimsPerHour \in Nat
    /\ MaxBurstClaims \in Nat
    /\ MaxCompleted \in Nat \ {0}

Batch == [turns : SUBSET Turn, begun : BOOLEAN]
NoBatch == [turns |-> {}, begun |-> FALSE]

\* A new ClaimScheduler with the given hourly limit.
NewScheduler(limit) ==
    [ pendingTurns |-> {},    pendingBatches |-> <<>>,
      knownBatchIds |-> {},   completed |-> <<>>,
      gateCalls |-> 0,        hourClaims |-> 0,      burstClaims |-> 0,
      maxGateCalls |-> limit, timer |-> FALSE,       phase |-> "idle",
      batch |-> NoBatch,      existing |-> {},       accepted |-> {},
      rateLimited |-> FALSE,  limitReached |-> FALSE, disposed |-> FALSE ]

Running(S) == S.phase # "idle"
HasWork(S) == S.pendingBatches # <<>> \/ S.pendingTurns # {}
QueuedBatches(S) == {S.pendingBatches[i] : i \in DOMAIN S.pendingBatches}

-----------------------------------------------------------------------------
\* addFinalTurn's sort order, and the first turns of it (pendingTurns.splice).
Before(t, u) == t.seg < u.seg \/ (t.seg = u.seg /\ t.rev < u.rev)
Earliest(turns) ==
    {t \in turns : Cardinality({u \in turns : Before(u, t)}) < MaxTurnsPerBatch}

ScheduleFlush(S) == [S EXCEPT !.timer = S.timer \/ ~S.disposed]

\* Operators named ...Fault are the definition that follows them with a plausible
\* mistake; no specification uses them.  They show that a property can fail.
\* A new batch is not entered in knownBatchIds:
TakeBatchFault(S) ==
    IF S.pendingBatches # <<>>
    THEN [S EXCEPT !.batch = Head(S.pendingBatches),
                   !.pendingBatches = Tail(S.pendingBatches)]
    ELSE LET turns == Earliest(S.pendingTurns)
         IN  [S EXCEPT !.batch = [turns |-> turns, begun |-> FALSE],
                       !.pendingTurns = S.pendingTurns \ turns]

\* nextBatch: a queued batch first, then the earliest pending turns.
TakeBatch(S) ==
    IF S.pendingBatches # <<>>
    THEN [S EXCEPT !.batch = Head(S.pendingBatches),
                   !.pendingBatches = Tail(S.pendingBatches)]
    ELSE LET turns == Earliest(S.pendingTurns)
         IN  [S EXCEPT !.batch = [turns |-> turns, begun |-> FALSE],
                       !.pendingTurns = S.pendingTurns \ turns,
                       !.knownBatchIds = S.knownBatchIds \cup {Inventory(turns)}]

\* flush up to its first await; listed is what listClaims returns, read here
\* only when the batch has begun already and detection starts at once.
Flush(S, listed) ==
    IF S.disposed \/ Running(S) \/ ~HasWork(S) THEN S
    ELSE IF S.gateCalls >= S.maxGateCalls
    THEN [S EXCEPT !.limitReached = TRUE]
    ELSE LET T == TakeBatch(S)
         IN  IF T.batch.begun THEN [T EXCEPT !.phase = "detect", !.existing = listed]
                              ELSE [T EXCEPT !.phase = "begin"]

\* The timer callback.
FlushTimer(S, listed) == Flush([S EXCEPT !.timer = FALSE], listed)

\* Fault: no timer for the work that is left.
SettleFault(S) ==
    [S EXCEPT !.phase = "idle", !.batch = NoBatch, !.existing = {}, !.accepted = {},
              !.rateLimited = FALSE]

\* The finally clause.
Settle(S) ==
    LET T == [S EXCEPT !.phase = "idle", !.batch = NoBatch, !.existing = {}, !.accepted = {},
                       !.rateLimited = FALSE]
    IN  IF HasWork(T) THEN ScheduleFlush(T) ELSE T

\* Fault: a batch that failed to begin is dropped.
FailedDroppingFault(S) ==
    IF S.disposed \/ ~S.batch.begun THEN Settle(S)
    ELSE Settle([S EXCEPT !.pendingBatches = <<S.batch>> \o S.pendingBatches])

\* The catch clause: the batch goes back to the head of the queue.
Failed(S) ==
    IF S.disposed THEN Settle(S)
    ELSE Settle([S EXCEPT !.pendingBatches = <<S.batch>> \o S.pendingBatches])

-----------------------------------------------------------------------------
\* hasTurnRevision
HasTurnRevision(S, t) ==
    \/ TurnRevision(t) \in Inventory(S.pendingTurns)
    \/ TurnRevision(t) \in DOMAIN S.completed
    \/ \E b \in QueuedBatches(S) : TurnRevision(t) \in Inventory(b.turns)

AddFinalTurn(S, t, listed) ==
    IF S.disposed \/ HasTurnRevision(S, t) THEN S
    ELSE LET T == [S EXCEPT !.pendingTurns = S.pendingTurns \cup {t}]
         IN  IF Cardinality(T.pendingTurns) >= MaxTurnsPerBatch
             THEN Flush(T, listed)
             ELSE ScheduleFlush(T)

\* Fault: a recovered batch waits for somebody else's timer.
RecoverBatchFault(S, turns) ==
    IF S.disposed \/ turns = {} \/ Inventory(turns) \in S.knownBatchIds THEN S
    ELSE [S EXCEPT !.knownBatchIds = S.knownBatchIds \cup {Inventory(turns)},
                   !.pendingBatches = Append(S.pendingBatches,
                                             [turns |-> turns, begun |-> TRUE])]

RecoverBatch(S, turns) ==
    IF S.disposed \/ turns = {} \/ Inventory(turns) \in S.knownBatchIds THEN S
    ELSE ScheduleFlush(
             [S EXCEPT !.knownBatchIds = S.knownBatchIds \cup {Inventory(turns)},
                       !.pendingBatches = Append(S.pendingBatches,
                                                 [turns |-> turns, begun |-> TRUE])])

\* Faults: detection starts although the scheduler was disposed, or although the
\* request failed.
BeginSettledDisposedFault(S, ok, listed) ==
    IF ~ok THEN Failed(S)
    ELSE [S EXCEPT !.batch.begun = TRUE, !.existing = listed, !.phase = "detect"]
BeginSettledFailedFault(S, ok, listed) ==
    IF S.disposed THEN Settle(S)
    ELSE [S EXCEPT !.batch.begun = TRUE, !.existing = listed, !.phase = "detect"]

\* The continuation of await beginBatch.
BeginSettled(S, ok, listed) ==
    IF S.disposed THEN Settle(S)
    ELSE IF ~ok THEN Failed(S)
    ELSE [S EXCEPT !.batch.begun = TRUE, !.existing = listed, !.phase = "detect"]

(***************************************************************************)
(* acceptedCandidates.  The candidates that are not duplicates are taken   *)
(* in the order of the response until a budget is used up; the order is    *)
(* the detector's, so every subset of the right size is a possible result. *)
(* A duplicate by normalized wording or by source anchors is one with an   *)
(* existing key here.                                                      *)
(***************************************************************************)
NewCandidates(S, candidates) == {c \in candidates : c.key \notin S.existing}
\* Fault: the burst budget is not looked at.
RemainingClaimsFault(S) ==
    IF S.hourClaims < MaxClaimsPerHour THEN MaxClaimsPerHour - S.hourClaims ELSE 0

RemainingClaims(S) ==
    LET hourly == IF S.hourClaims < MaxClaimsPerHour THEN MaxClaimsPerHour - S.hourClaims ELSE 0
        burst == IF S.burstClaims < MaxBurstClaims THEN MaxBurstClaims - S.burstClaims ELSE 0
    IN  IF hourly < burst THEN hourly ELSE burst
AcceptedCandidates(S, candidates) ==
    LET new == NewCandidates(S, candidates)
        take == IF Cardinality(new) < RemainingClaims(S) THEN Cardinality(new)
                                                         ELSE RemainingClaims(S)
    IN  {cs \in SUBSET new : Cardinality(cs) = take}

\* The continuation of await detect, for a response with candidates of which
\* accepted are selected.  A response of the remote detector, also an empty one
\* that the local detector fills in, counts against the hourly limit; the local
\* fallback for a failed call does not.
Detected(S, candidates, accepted, counted) ==
    IF S.disposed THEN Settle(S)
    ELSE [S EXCEPT !.gateCalls = S.gateCalls + (IF counted THEN 1 ELSE 0),
                   !.accepted = accepted,
                   !.rateLimited = accepted # NewCandidates(S, candidates),
                   !.phase = "commit"]

\* The remote call failed and the local detector found nothing either.
DetectFailed(S) == Failed(S)

(***************************************************************************)
(* markTurnRevisionCompleted for the turns of a batch.  The set is ordered *)
(* by insertion and forgets its oldest element: it is a function from the  *)
(* revisions it holds to their ages, the number of revisions marked later. *)
(* Those of the batch are marked in its order, after all others.           *)
(***************************************************************************)
MarkedLater(q, r) == r[1] < q[1] \/ (r[1] = q[1] /\ r[2] < q[2])
AgeAfter(completed, marked, r) ==
    IF r \in marked THEN Cardinality({q \in marked : MarkedLater(q, r)})
    ELSE Cardinality(marked)
             + Cardinality({q \in DOMAIN completed \ marked : completed[q] < completed[r]})
MarkCompleted(completed, turns) ==
    LET marked == Inventory(turns)
        kept == {r \in DOMAIN completed \cup marked :
                     AgeAfter(completed, marked, r) < MaxCompleted}
    IN  [r \in kept |-> AgeAfter(completed, marked, r)]

\* Fault: a failed commit completes the batch as well.
CommitSettledFault(S, ok) ==
    IF S.disposed THEN Settle(S)
    ELSE Settle(
        [S EXCEPT !.knownBatchIds = S.knownBatchIds \ {Inventory(S.batch.turns)},
                  !.completed = MarkCompleted(S.completed, S.batch.turns),
                  !.limitReached = S.rateLimited])

\* The continuation of await commitBatch.
CommitSettled(S, ok) ==
    IF S.disposed THEN Settle(S)
    ELSE IF ~ok THEN Failed(S)
    ELSE Settle(
        [S EXCEPT !.knownBatchIds = S.knownBatchIds \ {Inventory(S.batch.turns)},
                  !.completed = MarkCompleted(S.completed, S.batch.turns),
                  !.hourClaims = S.hourClaims + Cardinality(S.accepted),
                  !.burstClaims = S.burstClaims + Cardinality(S.accepted),
                  !.limitReached = S.rateLimited])

SetMaxGateCallsPerHour(S, limit) ==
    IF S.disposed THEN S
    ELSE LET T == [S EXCEPT !.maxGateCalls = limit]
         IN  IF S.limitReached /\ S.gateCalls < limit /\ HasWork(S)
             THEN ScheduleFlush([T EXCEPT !.limitReached = FALSE])
             ELSE T

Dispose(S) ==
    [S EXCEPT !.disposed = TRUE, !.timer = FALSE, !.pendingTurns = {},
              !.pendingBatches = <<>>, !.knownBatchIds = {}, !.completed = <<>>]

-----------------------------------------------------------------------------
\* Time passes: the oldest entry of a budget leaves its window.  A claim leaves
\* the burst window before it leaves the hour.
GateCallExpires(S) == [S EXCEPT !.gateCalls = S.gateCalls - 1]
BurstClaimExpires(S) == [S EXCEPT !.burstClaims = S.burstClaims - 1]
HourClaimExpires(S) == [S EXCEPT !.hourClaims = S.hourClaims - 1]
=============================================================================
