----------------------------- MODULE FactChecks -----------------------------
(***************************************************************************)
(* Manual fact-check requests and the research of the claims they produce: *)
(* LiveMeetingRuntimeProvider.tsx (factCheckSelection,                     *)
(* runManualFactCheckRequest, runResearchStage, rerunClaim, escalateClaim  *)
(* and the recovery loop) over the tables manual_fact_check_requests,      *)
(* claims, research_jobs and assessments of meetings/store.rs, and over    *)
(* the research gateway, which is external.                                *)
(*                                                                         *)
(* Every window runs its own provider with its own in-flight sets and its  *)
(* own recovery loop; they share the store and the main process's map of   *)
(* the checks each window owns.  A step is what happens between two awaits.*)
(* A save is one transaction followed by a read of the meeting: it can be  *)
(* refused (Conflict), fail before it commits, or commit and still be      *)
(* reported as failed because the read failed.                             *)
(*                                                                         *)
(* A request yields one claim with one version, both named after the       *)
(* request (manualClaimIdentity derives them from the request's id).  The  *)
(* idempotency key `${version}:${stage}:${n}` is represented by n beside   *)
(* the version and the stage, and the gateway's job id by the n of the key *)
(* it was accepted under (0: no accepted check): the gateway answers the   *)
(* same key with the same check.                                           *)
(***************************************************************************)
EXTENDS Naturals, FiniteSets

CONSTANTS
    Windows,      \* the windows of the application
    Requests,     \* the selections a user asks to check
    MaxJobs,      \* bound: rows and attempted rows of research_jobs at once
    MaxKeys,      \* bound: attempts numbered by the idempotency keys
    MaxAttempts,  \* MAX_AUTOMATIC_RESEARCH_ATTEMPTS
    MaxFaults,    \* bound: failing saves, scans and gateway calls
    MaxReloads,   \* bound: page reloads and application restarts
    MaxDisturbances, \* bound: the failing calls and reloads of one behaviour
    MaxReruns,    \* bound: clicks on Rerun, Retry check now, Research further
    Outcomes      \* the ways a check may end in this instance

ASSUME FactCheckAssumption ==
    /\ MaxJobs \in Nat \ {0} /\ MaxKeys \in Nat \ {0} /\ MaxAttempts \in Nat \ {0}
    /\ MaxFaults \in Nat /\ MaxReloads \in Nat /\ MaxReruns \in Nat
    /\ MaxDisturbances \in Nat
    /\ Outcomes \subseteq {"complete", "escalate", "failed", "retryable", "cancelled"}

VARIABLES
    request,   \* manual_fact_check_requests.status
    claim,     \* claims.status
    jobs,      \* research_jobs
    found,     \* assessments: <<version, stage, key of the check, attempt>>
    checks,    \* the gateway's checks, by <<version, stage, key>>
    owner,     \* factCheckJobOwners of the main process
    ops,       \* per window: the runResearchStage calls in flight, by job id
    asked,     \* per window: the runManualFactCheckRequest calls in flight
    view,      \* per window: stateRef.current.artifact
    pass,      \* per window: the recovery loop
    faults, reloads, reruns

store == <<request, claim, jobs, found>>
vars == <<request, claim, jobs, found, checks, owner, ops, asked, view, pass,
          faults, reloads, reruns>>

JobIds == 1..MaxJobs
Keys == 1..MaxKeys
Stages == {"preliminary", "deep"}
CheckKeys == Requests \X Stages \X Keys

RequestStatus == {"none", "queued", "processing", "retry_wait", "complete", "failed"}
JobStatus == {"pending", "running", "retry_wait", "complete", "failed", "cancelled"}

Disturbable == faults + reloads < MaxDisturbances
Fault == faults < MaxFaults /\ Disturbable /\ faults' = faults + 1

(***************************************************************************)
(* The store.                                                              *)
(***************************************************************************)

NoJob == [version |-> "none", stage |-> "none", key |-> 0, gw |-> 0,
          status |-> "absent", attempt |-> 0]

Resumable(status) == status \in {"pending", "running", "retry_wait"}

\* Fault: a completed request may be taken up again.
TransitionAllowedFault(old, new) ==
    old # "failed"

\* manual_fact_check_status_transition_allowed, with the insertion of a new row.
TransitionAllowed(old, new) ==
    \/ old = new
    \/ old = "none"
    \/ old = "queued" /\ new \in {"processing", "retry_wait", "complete", "failed"}
    \/ old = "processing" /\ new \in {"retry_wait", "complete", "failed"}
    \/ old = "retry_wait" /\ new \in {"processing", "complete", "failed"}

ClaimStatusForResearchJob(stage, status) ==
    CASE status \in {"pending", "retry_wait"} -> "queued"
      [] status = "running" -> IF stage = "deep" THEN "deep_running" ELSE "quick_running"
      [] status = "complete" -> IF stage = "deep" THEN "complete" ELSE "preliminary"
      [] OTHER -> status

\* The columns an upsert of an existing job may not change.
SameJob(old, new) ==
    old.version = new.version /\ old.stage = new.stage /\ old.key = new.key

\* Fault: the unique index on the idempotency key is missing.
KeyTakenFault(i, row) == FALSE

\* UNIQUE(idempotency_key).
KeyTaken(i, row) ==
    \E j \in JobIds \ {i} : jobs[j].status # "absent" /\ SameJob(jobs[j], row)

Conflict(i, row) ==
    \/ jobs[i].status # "absent" /\ ~SameJob(jobs[i], row)
    \/ KeyTaken(i, row)

\* apply_research: the job, the claim's status and the finding in one
\* transaction.  The status written for a complete assessment is the one
\* written for the complete job that carries it.
ApplyResearch(i, row, finding) ==
    /\ jobs' = [jobs EXCEPT ![i] = row]
    /\ claim' = [claim EXCEPT ![row.version] = ClaimStatusForResearchJob(row.stage, row.status)]
    /\ found' = found \union finding
    /\ UNCHANGED request

\* persistResearch: meetingsResearchApply, then getMeeting.  Good holds when both
\* succeed, Bad when the promise is rejected.
PersistResearch(i, row, finding, Good, Bad) ==
    \/ ~Conflict(i, row) /\ ApplyResearch(i, row, finding) /\ UNCHANGED faults /\ Good
    \/ Conflict(i, row) /\ UNCHANGED <<store, faults>> /\ Bad
    \/ /\ Fault
       /\ \/ UNCHANGED store
          \/ ~Conflict(i, row) /\ ApplyResearch(i, row, finding)
       /\ Bad

\* persistClaimVersions for one manual request; with a claim draft when it is
\* complete.  apply_claim_version writes the draft's status, queued, over
\* whatever status the claim has.
ApplyRequest(r, status) ==
    /\ request' = [request EXCEPT ![r] = status]
    /\ claim' = IF status = "complete" THEN [claim EXCEPT ![r] = "queued"] ELSE claim
    /\ UNCHANGED <<jobs, found>>

PersistRequest(r, status, Good, Bad) ==
    LET allowed == TransitionAllowed(request[r], status) IN
    \/ allowed /\ ApplyRequest(r, status) /\ UNCHANGED faults /\ Good
    \/ ~allowed /\ UNCHANGED <<store, faults>> /\ Bad
    \/ /\ Fault
       /\ (UNCHANGED store \/ (allowed /\ ApplyRequest(r, status)))
       /\ Bad

(***************************************************************************)
(* The gateway.                                                            *)
(***************************************************************************)

CheckStatus(k) == CASE checks[k] = "escalate" -> {"complete"}
                    [] checks[k] = "retryable" -> {"failed"}
                    [] checks[k] \in {"none", "active"} -> {"pending", "running", "retry_wait"}
                    [] OTHER -> {checks[k]}

CheckSettles(k) ==
    /\ checks[k] = "active"
    /\ \E outcome \in Outcomes :
          /\ outcome = "escalate" => k[2] = "preliminary"
          /\ checks' = [checks EXCEPT ![k] = outcome]
    /\ UNCHANGED <<store, owner, ops, asked, view, pass, faults, reloads, reruns>>

(***************************************************************************)
(* runResearchStage.                                                       *)
(***************************************************************************)

Idle == [pc |-> "idle", version |-> "none", stage |-> "none", attempt |-> 0, key |-> 0,
         poll |-> 0, gw |-> 0, prelim |-> 0, resp |-> "none", err |-> "none",
         by |-> "none", parent |-> 0]

\* Fault: resuming a job forgets the check that was accepted.
ResearchAttemptPlanFault(row) ==
    [attempt |-> row.attempt + 1, key |-> row.attempt + 1, poll |-> 0]

\* researchAttemptPlan: a resumable row keeps its attempt, its key and its check.
ResearchAttemptPlan(row) ==
    IF Resumable(row.status)
    THEN [attempt |-> row.attempt, key |-> row.key, poll |-> row.gw]
    ELSE [attempt |-> row.attempt + 1, key |-> row.attempt + 1, poll |-> 0]

Stage(v, stage, row, prelim, by, parent) ==
    LET plan == ResearchAttemptPlan(row) IN
    [pc |-> "pending", version |-> v, stage |-> stage, attempt |-> plan.attempt,
     key |-> plan.key, poll |-> plan.poll, gw |-> plan.poll, prelim |-> prelim,
     resp |-> "none", err |-> "none", by |-> by, parent |-> parent]

\* window.crypto.randomUUID(): an id no row and no call uses.
FreshIds == {i \in JobIds : /\ jobs[i].status = "absent"
                            /\ \A w \in Windows : ops[w][i].pc = "idle"}
FreshId == CHOOSE i \in FreshIds : \A j \in FreshIds : i <= j

Row(o, gw, status) ==
    [version |-> o.version, stage |-> o.stage, key |-> o.key, gw |-> gw,
     status |-> status, attempt |-> o.attempt]

\* The accepted preliminary check a deep call finds in a meeting it was given.
PreliminaryCheck(rows, v) ==
    LET candidates == {rows[i].gw : i \in {j \in JobIds : /\ rows[j].version = v
                                                         /\ rows[j].stage = "preliminary"}}
    IN  CHOOSE n \in candidates \union {0} : \A m \in candidates : m <= n

Step(w, i, o) == ops' = [ops EXCEPT ![w][i] = o]
Fails(w, i, err) == Step(w, i, [ops[w][i] EXCEPT !.pc = "failing", !.err = err])

\* The call returns; the quick call that awaited it, if any, returns too.
Returns(w, i) ==
    ops' = [ops EXCEPT ![w] =
              [j \in JobIds |-> IF j \in {i, ops[w][i].parent} THEN Idle ELSE ops[w][j]]]

\* artifact_loaded with the meeting a save read back.  Only a click reads the
\* view, so it is forgotten once the bound on clicks is reached.
NoView == [jobs |-> [i \in JobIds |-> NoJob], found |-> {}]
Loads(w) == view' = [view EXCEPT ![w] = IF reruns < MaxReruns
                                        THEN [jobs |-> jobs', found |-> found'] ELSE NoView]

PersistPending(w, i) ==
    LET o == ops[w][i] IN
    /\ o.pc = "pending"
    /\ PersistResearch(i, Row(o, o.poll, "pending"), {},
                       Step(w, i, [o EXCEPT !.pc = "submit"]), Fails(w, i, "retryable"))
    /\ UNCHANGED <<checks, owner, asked, view, pass, reloads, reruns>>

\* assertScopedResourceOwner.
MayUse(w, k) == owner[k] \in {"none", w}

\* pollFactCheck, escalateFactCheck or submitFactCheck: the gateway answers with
\* its check for the key, creating it when it is new.
Submit(w, i) ==
    LET o == ops[w][i]
        k == <<o.version, o.stage, o.key>>
        preliminary == <<o.version, "preliminary", o.prelim>>
        Accepted(key) == \E s \in CheckStatus(key) :
            Step(w, i, [o EXCEPT !.pc = "accepted", !.gw = key[3], !.resp = s])
        Created == checks' = IF checks[k] = "none" THEN [checks EXCEPT ![k] = "active"] ELSE checks
    IN
    /\ o.pc = "submit"
    /\ \/ /\ o.poll # 0
          /\ LET polled == <<o.version, o.stage, o.poll>> IN
             IF MayUse(w, polled)
             THEN Accepted(polled) /\ owner' = [owner EXCEPT ![polled] = w] /\ UNCHANGED checks
             ELSE Fails(w, i, "retryable") /\ UNCHANGED <<owner, checks>>
          /\ UNCHANGED faults
       \/ /\ o.poll = 0 /\ o.stage = "deep"
          /\ IF o.prelim # 0 /\ MayUse(w, preliminary)
             THEN Accepted(k) /\ Created /\ owner' = [owner EXCEPT ![preliminary] = w]
             ELSE Fails(w, i, "retryable") /\ UNCHANGED <<owner, checks>>
          /\ UNCHANGED faults
       \/ /\ o.poll = 0 /\ o.stage = "preliminary"
          /\ Accepted(k) /\ Created /\ owner' = [owner EXCEPT ![k] = w]
          /\ UNCHANGED faults
       \/ /\ Fault
          /\ \E err \in {"retryable", "terminal"} : Fails(w, i, err)
          /\ UNCHANGED <<owner, checks>>
    /\ UNCHANGED <<store, asked, view, pass, reloads, reruns>>

\* The accepted check is saved with the status the gateway reported.
PersistAccepted(w, i) ==
    LET o == ops[w][i] IN
    /\ o.pc = "accepted"
    /\ PersistResearch(i, Row(o, o.gw, o.resp), {},
                       Step(w, i, [o EXCEPT !.pc = "polling"]), Fails(w, i, "retryable"))
    /\ UNCHANGED <<checks, owner, asked, view, pass, reloads, reruns>>

\* researchFailureDisposition.
FailureStatus(err, attempt) ==
    CASE err = "cancelled" -> "cancelled"
      [] err = "retryable" /\ attempt < MaxAttempts -> "retry_wait"
      [] OTHER -> "failed"

\* shouldRunDeepResearch: the gateway's policy recommends it for a quick result.
ShouldRunDeepResearch(outcome) == outcome = "escalate"

\* What the finished poll calls for.  A check that still runs when the polling
\* window closes is left to the recovery loop; a settled one is saved with its
\* finding, which is published, or with its failure.  Settled checks do not
\* change, so reading the check and saving what it said are one step.
Settle(w, i) ==
    LET o == ops[w][i]
        k == <<o.version, o.stage, o.gw>>
        polls == o.resp \in {"pending", "running", "retry_wait"}
        finding == <<o.version, o.stage, o.gw, o.attempt>>
        outcome == checks[k]
    IN
    /\ o.pc = "polling"
    /\ IF polls /\ ~MayUse(w, k)
       THEN /\ Fails(w, i, "retryable")
            /\ UNCHANGED <<store, faults, owner, view>>
       ELSE /\ owner' = IF polls THEN [owner EXCEPT ![k] = w] ELSE owner
            /\ \/ /\ outcome = "active"
                  /\ PersistResearch(i, Row(o, o.gw, "retry_wait"), {},
                         Returns(w, i) /\ Loads(w), Fails(w, i, "retryable") /\ UNCHANGED view)
               \/ /\ outcome \in {"failed", "retryable", "cancelled"}
                  /\ PersistResearch(i, Row(o, o.gw, FailureStatus(outcome, o.attempt)), {},
                         Returns(w, i) /\ Loads(w), Fails(w, i, "retryable") /\ UNCHANGED view)
               \/ /\ outcome \in {"complete", "escalate"}
                  /\ ShouldRunDeepResearch(outcome) => FreshIds # {}
                  /\ PersistResearch(i, Row(o, o.gw, "complete"), {finding},
                         /\ IF ShouldRunDeepResearch(outcome)
                            THEN ops' = [ops EXCEPT
                                   ![w][i] = [o EXCEPT !.pc = "nested"],
                                   ![w][FreshId] = Stage(o.version, "deep", NoJob, o.gw, "policy", i)]
                            ELSE Returns(w, i)
                         /\ view' = IF reruns < MaxReruns
                                    THEN [view EXCEPT ![w].found = @ \union {finding}] ELSE view,
                         Fails(w, i, "retryable") /\ UNCHANGED view)
    /\ UNCHANGED <<checks, asked, pass, reloads, reruns>>

\* A poll rejects.
PollFails(w, i) ==
    /\ ops[w][i].pc = "polling" /\ Resumable(ops[w][i].resp)
    /\ Fault
    /\ \E err \in {"retryable", "terminal"} : Fails(w, i, err)
    /\ UNCHANGED <<store, checks, owner, asked, view, pass, reloads, reruns>>

\* The catch block: its own save may fail too, and then nothing is recorded.
PersistFailure(w, i) ==
    LET o == ops[w][i] IN
    /\ o.pc = "failing"
    /\ PersistResearch(i, Row(o, o.gw, FailureStatus(o.err, o.attempt)), {},
                       Loads(w), UNCHANGED view)
    /\ Returns(w, i)
    /\ UNCHANGED <<checks, owner, asked, pass, reloads, reruns>>

ResearchStep(w, i) ==
    \/ PersistPending(w, i) \/ Submit(w, i) \/ PersistAccepted(w, i)
    \/ Settle(w, i) \/ PollFails(w, i) \/ PersistFailure(w, i)

(***************************************************************************)
(* Manual requests.                                                        *)
(***************************************************************************)

\* factCheckSelection: the request is saved before it is run.
FactCheckSelection(w, r) ==
    /\ request[r] = "none"
    /\ PersistRequest(r, "queued",
           Loads(w) /\ asked' = [asked EXCEPT ![w][r] = "processing"],
           UNCHANGED <<view, asked>>)
    /\ UNCHANGED <<checks, owner, ops, pass, reloads, reruns>>

ProcessRequest(w, r) ==
    /\ asked[w][r] = "processing"
    /\ PersistRequest(r, "processing",
           asked' = [asked EXCEPT ![w][r] = "complete"],
           asked' = [asked EXCEPT ![w][r] = "failing"])
    /\ UNCHANGED <<checks, owner, ops, view, pass, reloads, reruns>>

\* Claim detection, which falls back to the selection itself, then the save of
\* the request and its claim, then the start of the claim's quick check.
CompleteRequest(w, r) ==
    /\ asked[w][r] = "complete"
    /\ FreshIds # {}
    /\ PersistRequest(r, "complete",
           /\ Loads(w)
           /\ asked' = [asked EXCEPT ![w][r] = "idle"]
           /\ Step(w, FreshId, Stage(r, "preliminary", NoJob, 0, "request", 0)),
           asked' = [asked EXCEPT ![w][r] = "failing"] /\ UNCHANGED <<view, ops>>)
    /\ UNCHANGED <<checks, owner, pass, reloads, reruns>>

\* The catch block.  No error that reaches it is typed, so it is retryable.
FailRequest(w, r) ==
    /\ asked[w][r] = "failing"
    /\ PersistRequest(r, "retry_wait", Loads(w), UNCHANGED view)
    /\ asked' = [asked EXCEPT ![w][r] = "idle"]
    /\ UNCHANGED <<checks, owner, ops, pass, reloads, reruns>>

RequestStep(w, r) == ProcessRequest(w, r) \/ CompleteRequest(w, r) \/ FailRequest(w, r)

(***************************************************************************)
(* What the user does with a claim on screen.                              *)
(***************************************************************************)

OpenMeeting(w) ==
    /\ reruns < MaxReruns
    /\ view' = [view EXCEPT ![w] = [jobs |-> jobs, found |-> found]]
    /\ UNCHANGED <<store, checks, owner, ops, asked, pass, faults, reloads, reruns>>

\* The preliminary job of the claim on screen, as the page last read it.
ShownJobs(w, v) == {i \in JobIds : /\ view[w].jobs[i].version = v
                                   /\ view[w].jobs[i].stage = "preliminary"}

\* Rerun is offered beside a finding, Retry check now for a job that waits or failed.
RerunOffered(w, v) ==
    \/ \E f \in view[w].found : f[1] = v
    \/ \E i \in ShownJobs(w, v) : view[w].jobs[i].status \in {"retry_wait", "failed"}

Clicked == view' = IF reruns' < MaxReruns THEN view ELSE [x \in Windows |-> NoView]

\* rerunClaim; runExclusiveLiveOperation drops it when the job is in flight.
RerunClaim(w, v) ==
    /\ reruns < MaxReruns /\ reruns' = reruns + 1
    /\ RerunOffered(w, v)
    /\ \/ /\ ShownJobs(w, v) = {} /\ FreshIds # {}
          /\ Step(w, FreshId, Stage(v, "preliminary", NoJob, 0, "rerun", 0))
       \/ \E i \in ShownJobs(w, v) :
             /\ \A j \in ShownJobs(w, v) : view[w].jobs[j].attempt <= view[w].jobs[i].attempt
             /\ ops[w][i].pc = "idle"
             /\ ResearchAttemptPlan(view[w].jobs[i]).key \in Keys
             /\ Step(w, i, Stage(v, "preliminary", view[w].jobs[i], 0, "rerun", 0))
    /\ Clicked
    /\ UNCHANGED <<store, checks, owner, asked, pass, faults, reloads>>

\* Research further is offered for a preliminary finding of the hosted gateway
\* that has no deep finding and no deep job under way.
EscalationOffered(w, v) ==
    /\ \E f \in view[w].found : f[1] = v /\ f[2] = "preliminary"
    /\ ~\E f \in view[w].found : f[1] = v /\ f[2] = "deep"
    /\ ~\E i \in JobIds : /\ view[w].jobs[i].version = v /\ view[w].jobs[i].stage = "deep"
                          /\ Resumable(view[w].jobs[i].status)

EscalateClaim(w, v) ==
    /\ reruns < MaxReruns /\ reruns' = reruns + 1
    /\ EscalationOffered(w, v)
    /\ FreshIds # {}
    /\ \E i \in ShownJobs(w, v) :
          /\ view[w].jobs[i].status = "complete" /\ view[w].jobs[i].gw # 0
          /\ Step(w, FreshId, Stage(v, "deep", NoJob, view[w].jobs[i].gw, "escalate", 0))
    /\ Clicked
    /\ UNCHANGED <<store, checks, owner, asked, pass, faults, reloads>>

(***************************************************************************)
(* The recovery loop of a window.                                          *)
(***************************************************************************)

NoPass == [phase |-> "idle", reconcile |-> FALSE, ids |-> {}, requests |-> {},
           jobs |-> [i \in JobIds |-> NoJob], current |-> 0, asking |-> {}]

Startup == [NoPass EXCEPT !.reconcile = TRUE]

\* MeetingStore::recover.  The first pass of a page reconciles active work; the
\* loop acknowledges that as soon as the call returns.
RecoverMeetingJobs(w) ==
    LET reconcile == pass[w].reconcile
        listed == IF reconcile THEN {"pending", "retry_wait"} ELSE {"retry_wait"}
    IN
    /\ pass[w].phase = "idle"
    /\ \/ /\ jobs' = IF reconcile
                     THEN [i \in JobIds |-> IF jobs[i].status = "running"
                                            THEN [jobs[i] EXCEPT !.status = "retry_wait"]
                                            ELSE jobs[i]]
                     ELSE jobs
          /\ pass' = [pass EXCEPT ![w].phase = "listed",
                                  ![w].ids = {i \in JobIds : jobs'[i].status \in listed}]
          /\ UNCHANGED faults
       \/ Fault /\ UNCHANGED <<jobs, pass>>
    /\ UNCHANGED <<request, claim, found, checks, owner, ops, asked, view, reloads, reruns>>

\* Fault: only requests that wait for a retry are taken up.
ResumableRequestFault(reconcile, status) == status = "retry_wait"

ResumableRequest(reconcile, status) ==
    IF reconcile THEN status \in {"queued", "processing", "retry_wait"} ELSE status = "retry_wait"

\* listMeetings and getMeeting: the rows the rest of the pass works from.  When
\* they cannot be read the pass is over.
LoadMeetings(w) ==
    /\ pass[w].phase = "listed"
    /\ \/ /\ pass' = [pass EXCEPT ![w] = [@ EXCEPT
                !.phase = "running", !.jobs = jobs,
                !.requests = {r \in Requests : ResumableRequest(pass[w].reconcile, request[r])}]]
          /\ UNCHANGED faults
       \/ /\ Fault
          /\ pass' = [pass EXCEPT ![w] = NoPass]
    /\ UNCHANGED <<store, checks, owner, ops, asked, view, reloads, reruns>>

\* The pass awaits the call it started last.
Awaiting(w) ==
    \/ pass[w].current # 0 /\ ops[w][pass[w].current].by = "pass"
    \/ \E r \in pass[w].asking : asked[w][r] # "idle"

\* runManualFactCheckRequest for the next request; one in flight is passed over.
RecoverRequest(w) ==
    /\ pass[w].phase = "running" /\ ~Awaiting(w)
    /\ \E r \in pass[w].requests :
          LET runs == asked[w][r] = "idle" IN
          /\ asked' = IF runs THEN [asked EXCEPT ![w][r] = "processing"] ELSE asked
          /\ pass' = [pass EXCEPT ![w].requests = @ \ {r},
                                  ![w].asking = IF runs THEN {r} ELSE {}]
    /\ UNCHANGED <<store, checks, owner, ops, view, faults, reloads, reruns>>

\* runResearchStage for the next listed job, with the row the pass loaded.
RecoverJob(w) ==
    /\ pass[w].phase = "running" /\ ~Awaiting(w) /\ pass[w].requests = {}
    /\ \E i \in pass[w].ids :
          LET row == pass[w].jobs[i]
              runs == ops[w][i].pc = "idle" /\ Resumable(row.status)
          IN
          /\ \A j \in pass[w].ids : i <= j
          /\ ops' = IF runs
                    THEN [ops EXCEPT ![w][i] =
                            Stage(row.version, row.stage, row,
                                  PreliminaryCheck(pass[w].jobs, row.version), "pass", 0)]
                    ELSE ops
          /\ pass' = [pass EXCEPT ![w].ids = @ \ {i}, ![w].current = IF runs THEN i ELSE 0]
    /\ UNCHANGED <<store, checks, owner, asked, view, faults, reloads, reruns>>

PassEnds(w) ==
    /\ pass[w].phase = "running" /\ ~Awaiting(w)
    /\ pass[w].requests = {} /\ pass[w].ids = {}
    /\ pass' = [pass EXCEPT ![w] = NoPass]
    /\ UNCHANGED <<store, checks, owner, ops, asked, view, faults, reloads, reruns>>

RecoverStep(w) ==
    RecoverMeetingJobs(w) \/ LoadMeetings(w) \/ RecoverRequest(w) \/ RecoverJob(w) \/ PassEnds(w)

\* The page reloads or the application restarts: what the window had in flight is
\* gone, its recovery loop starts over, and releaseSender may drop its checks.
Reload(w) ==
    /\ reloads < MaxReloads /\ Disturbable /\ reloads' = reloads + 1
    /\ ops' = [ops EXCEPT ![w] = [i \in JobIds |-> Idle]]
    /\ asked' = [asked EXCEPT ![w] = [r \in Requests |-> "idle"]]
    /\ view' = [view EXCEPT ![w] = NoView]
    /\ pass' = [pass EXCEPT ![w] = Startup]
    /\ \/ UNCHANGED owner
       \/ owner' = [k \in CheckKeys |-> IF owner[k] = w THEN "none" ELSE owner[k]]
    /\ UNCHANGED <<store, checks, faults, reruns>>

-----------------------------------------------------------------------------

Init ==
    /\ request = [r \in Requests |-> "none"]
    /\ claim = [r \in Requests |-> "none"]
    /\ jobs = [i \in JobIds |-> NoJob]
    /\ found = {}
    /\ checks = [k \in CheckKeys |-> "none"]
    /\ owner = [k \in CheckKeys |-> "none"]
    /\ ops = [w \in Windows |-> [i \in JobIds |-> Idle]]
    /\ asked = [w \in Windows |-> [r \in Requests |-> "idle"]]
    /\ view = [w \in Windows |-> NoView]
    /\ pass = [w \in Windows |-> Startup]
    /\ faults = 0 /\ reloads = 0 /\ reruns = 0

Next ==
    \/ \E k \in CheckKeys : CheckSettles(k)
    \/ \E w \in Windows :
          \/ \E i \in JobIds : ResearchStep(w, i)
          \/ \E r \in Requests : \/ FactCheckSelection(w, r) \/ RequestStep(w, r)
                                 \/ RerunClaim(w, r) \/ EscalateClaim(w, r)
          \/ OpenMeeting(w) \/ RecoverStep(w) \/ Reload(w)

Spec == Init /\ [][Next]_vars

\* Promises of a live page settle, its timers fire, and the gateway ends every
\* check it accepted.  Nothing makes the user click or the page reload.
Fairness ==
    /\ \A k \in CheckKeys : WF_vars(CheckSettles(k))
    /\ \A w \in Windows :
          /\ \A i \in JobIds : WF_vars(ResearchStep(w, i))
          /\ \A r \in Requests : WF_vars(RequestStep(w, r))
          /\ WF_vars(RecoverStep(w))

FairSpec == Spec /\ Fairness

-----------------------------------------------------------------------------
(***************************************************************************)
(* Properties.                                                             *)
(***************************************************************************)

Job == [version : Requests, stage : Stages, key : Keys, gw : {0} \union Keys,
        status : JobStatus, attempt : Keys] \union {NoJob}

\* The state has the shapes the tables and the provider give it, and a job's row
\* is numbered by the attempt its key names.
FactCheckTypeOK ==
    /\ request \in [Requests -> RequestStatus]
    /\ claim \in [Requests -> {"none", "queued", "quick_running", "deep_running",
                               "preliminary", "complete", "failed", "cancelled"}]
    /\ jobs \in [JobIds -> Job]
    /\ \A i \in JobIds : jobs[i].key = jobs[i].attempt
    /\ found \subseteq Requests \X Stages \X Keys \X Keys
    /\ checks \in [CheckKeys -> Outcomes \union {"none", "active"}]
    /\ owner \in [CheckKeys -> Windows \union {"none"}]
    /\ asked \in [Windows -> [Requests -> {"idle", "processing", "complete", "failing"}]]
    /\ \A w \in Windows : pass[w].phase \in {"idle", "listed", "running"}
    /\ faults \in 0..MaxFaults /\ reloads \in 0..MaxReloads /\ reruns \in 0..MaxReruns

\* A claim version has at most one job for each stage, whichever windows, reruns
\* from outdated pages and recovery passes start research for it
\* (upsert_research_job and the deterministic idempotency keys).
OneJobPerStage ==
    \A i, j \in JobIds :
        (i # j /\ jobs[i].status # "absent" /\ jobs[j].status # "absent")
            => <<jobs[i].version, jobs[i].stage>> # <<jobs[j].version, jobs[j].stage>>

\* The gateway never works on two checks of the same claim version and stage: a
\* retry, a rerun or a recovered job joins the check that was accepted
\* (researchAttemptPlan, upsert_research_job).
NoConcurrentChecks ==
    \A v \in Requests, s \in Stages :
        Cardinality({n \in Keys : checks[<<v, s, n>>] = "active"}) <= 1

\* Deep research of a claim starts only once its preliminary finding is saved, so
\* a failed escalation always leaves a finding to show (runResearchStage,
\* escalateClaim).
DeepAfterPreliminary ==
    \A i \in JobIds : jobs[i].stage = "deep" =>
        \E f \in found : f[1] = jobs[i].version /\ f[2] = "preliminary"

\* The state has its type, and research is started in order and once: the parts
\* above (runResearchStage, escalateClaim, upsert_research_job).
FactCheckInv ==
    /\ FactCheckTypeOK
    /\ OneJobPerStage
    /\ NoConcurrentChecks
    /\ DeepAfterPreliminary

\* A request that is complete or failed is never taken up again, however late a
\* window's save for it arrives (manual_fact_check_status_transition_allowed).
RequestsStaySettled ==
    [][\A r \in Requests : request[r] \in {"complete", "failed"} => request'[r] = request[r]]_vars

\* The preliminary job of the claim is complete with its finding saved, or failed on
\* an error that is not to be retried.
Delivered(v) ==
    \E i \in JobIds :
        /\ jobs[i].version = v /\ jobs[i].stage = "preliminary"
        /\ \/ jobs[i].status = "failed"
           \/ /\ jobs[i].status = "complete"
              /\ \E f \in found : f[1] = v /\ f[2] = "preliminary"

\* Every check the gateway completes is delivered, again and again whatever disturbs
\* it, unless the page is reloaded: no failed save, recovery pass or rerun that works
\* from an outdated row leaves its job waiting or running for ever
\* (runResearchStage, the recovery loop).
FindingsDelivered ==
    \A v \in Requests :
        checks[<<v, "preliminary", 1>>] \in {"complete", "escalate"}
            ~> reloads > 0 \/ Delivered(v)

\* A request that was saved is settled in the end, across page reloads, unless a
\* call fails (the recovery loop, runManualFactCheckRequest).
Unsettled(r) == request[r] \in {"queued", "processing", "retry_wait"}

RequestsSettle ==
    \A r \in Requests : Unsettled(r) ~> ~Unsettled(r) \/ faults > 0

\* The same when calls fail (runManualFactCheckRequest's catch block leaves the
\* request to 'the recovery loop').
RequestsSettleDespiteFaults ==
    \A r \in Requests : Unsettled(r) ~> ~Unsettled(r)

WaitsOnFailedCheck(i) ==
    /\ jobs[i].status = "retry_wait" /\ jobs[i].gw # 0
    /\ checks[<<jobs[i].version, jobs[i].stage, jobs[i].gw>>] = "retryable"

\* A job whose check failed is not retried for ever (researchFailureDisposition
\* and MAX_AUTOMATIC_RESEARCH_ATTEMPTS).
RetriesEnd ==
    \A i \in JobIds : [](WaitsOnFailedCheck(i) => <>[](~Resumable(jobs[i].status)))

\* The store takes the first save of a rerun, so that the check is retried
\* (rerunClaim, upsert_research_job).
RetryIsAccepted ==
    [][\A w \in Windows, i \in JobIds :
          (/\ ops[w][i].by = "rerun" /\ ops[w][i].pc = "pending"
           /\ ops'[w][i].pc = "failing") => faults' > faults]_vars

\* A claim shown as queued for checking has a job, or a call under way that will
\* make one (runManualFactCheckRequest).
QueuedClaimsHaveWork ==
    \A r \in Requests : claim[r] = "queued" =>
        \/ \E i \in JobIds : jobs[i].version = r
        \/ \E w \in Windows : asked[w][r] # "idle"
        \/ \E w \in Windows, i \in JobIds : ops[w][i].version = r

\* A job that is complete and no window works on has its finding
\* (apply_research saves both in one transaction).
CompleteJobsHaveFindings ==
    \A i \in JobIds :
        (jobs[i].status = "complete" /\ \A w \in Windows : ops[w][i].pc = "idle")
            => \E f \in found : f[1] = jobs[i].version /\ f[2] = jobs[i].stage
=============================================================================
