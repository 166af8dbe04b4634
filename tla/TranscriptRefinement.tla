------------------------ MODULE TranscriptRefinement ------------------------
(***************************************************************************)
(* The refinement of a meeting's transcript after the meeting: the job row *)
(* and the meeting row of the store (store.rs), the run a window makes     *)
(* through the gateway (submitRefinement), and the four places that start  *)
(* one (LiveMeetingRuntimeProvider.tsx): stopMeeting,                      *)
(* recoverCapturedMeetings, the recovery pass and the Retry button.        *)
(*                                                                         *)
(* One meeting with one manifest of mixed audio, so one idempotency key    *)
(* and at most one job row.  A step is what happens between two awaits;    *)
(* update_meeting reads and writes in two.  The gateway is external: it    *)
(* knows one job per key and settles it by itself.                         *)
(***************************************************************************)
EXTENDS Naturals

CONSTANTS
    Windows,
    NoWindow,
    MaxAttempts,      \* MAX_AUTOMATIC_REFINEMENT_ATTEMPTS
    GatewayOutcomes,  \* how the gateway's job may end
    MaxFaults,        \* bound: calls that fail or whose reply is lost
    MaxRestarts       \* bound: crashes and quits of the application

ASSUME RefinementAssumption ==
    /\ NoWindow \notin Windows
    /\ MaxAttempts \in Nat \ {0} /\ MaxFaults \in Nat /\ MaxRestarts \in Nat
    /\ GatewayOutcomes \subseteq {"complete", "failed", "rejected"}

VARIABLES
    meeting,    \* the meeting's row
    job,        \* its row of transcript_refinement_jobs
    remote,     \* the gateway's job; "failed" may be retried, "rejected" may not
    owner,      \* refinementJobOwners: the window the main process answers
    capturing,  \* the window that records the meeting
    offered,    \* the main process offers the meeting's audio as recovered
    acked,      \* its audio is acknowledged as stored
    duty,       \* what stopMeeting or recoverCapturedMeetings is doing in a window
    run,        \* the window's refinement run
    pass,       \* its recovery pass
    reconciled, \* startupReconciled
    faults, restarts

vars == <<meeting, job, remote, owner, capturing, offered, acked, duty, run, pass,
          reconciled, faults, restarts>>

Audio == <<capturing, offered, acked>>

Idle == [pc |-> "idle"]
NoJob == [status |-> "none", attempts |-> 0, gateway |-> FALSE]
ActiveStatus == {"queued", "uploading", "processing", "reconciling", "retry_wait"}
JobStatus == ActiveStatus \union {"complete", "failed"}

Fault == faults < MaxFaults /\ faults' = faults + 1
NoFault == UNCHANGED faults

-----------------------------------------------------------------------------
(***************************************************************************)
(* The run.                                                                *)
(***************************************************************************)

\* jobBase: an attempt is counted only while the gateway has not taken the job.
FirstJob(old) ==
    [status |-> "uploading", gateway |-> old.gateway,
     attempts |-> IF old.gateway
                  THEN IF old.attempts = 0 THEN 1 ELSE old.attempts
                  ELSE old.attempts + 1]

\* submitRefinement, with the job it resumes or NoJob for a new one.  A window runs one
\* refinement of a meeting at a time.
Submit(w, old, by) ==
    run' = IF run[w] # Idle THEN run
           ELSE [run EXCEPT ![w] = [pc |-> "uploading", by |-> by, saved |-> old # NoJob,
                                    job |-> FirstJob(old), last |-> "none"]]

\* The run is over; the pass that awaits it goes on to its end.
RunEnds(w) ==
    /\ run' = [run EXCEPT ![w] = Idle]
    /\ pass' = IF run[w].by = "pass" THEN [pass EXCEPT ![w] = Idle] ELSE pass

\* Fault: the comparison with the limit is the wrong way round.
FailureStatusFault(retryable, attempts) ==
    IF retryable /\ attempts > MaxAttempts THEN "retry_wait" ELSE "failed"

\* refinementFailureDisposition.
FailureStatus(retryable, attempts) ==
    IF retryable /\ attempts < MaxAttempts THEN "retry_wait" ELSE "failed"

\* runDurableRefinementOperation's catch block, with the job as it is in memory and
\* whether its row is the run's; a failure of the block's own save ends the run.
Fails(w, value, saved, retryable) ==
    IF run[w].pc = "failing"
    THEN RunEnds(w)
    ELSE /\ run' = [run EXCEPT ![w].pc = "failing", ![w].saved = saved,
                               ![w].job = [value EXCEPT !.status = FailureStatus(retryable, value.attempts)]]
         /\ UNCHANGED pass

Throw(w, retryable) == Fails(w, run[w].job, run[w].saved, retryable)

\* upsert_refinement_job refuses a second job with the meeting's idempotency key.
Conflict(w) == ~run[w].saved /\ job # NoJob

\* apply_refinement_job: the job and the meeting's refinement status, in one
\* transaction.
Commit(value) ==
    /\ job' = value
    /\ meeting' = [meeting EXCEPT !.refinement = value.status]

\* updateJob in a step of the run: the job in memory changes first, whatever becomes of
\* its save.
UpdateJob(w, pc, value, then) ==
    /\ run[w].pc = pc
    /\ LET next == [run EXCEPT ![w].job = value, ![w].saved = TRUE, ![w].pc = then] IN
       \/ /\ ~Conflict(w) /\ Commit(value) /\ NoFault
          /\ IF then = "idle" THEN RunEnds(w) ELSE run' = next /\ UNCHANGED pass
       \/ Conflict(w) /\ Fails(w, value, FALSE, TRUE) /\ NoFault /\ UNCHANGED <<job, meeting>>
       \/ ~Conflict(w) /\ Commit(value) /\ Fails(w, value, TRUE, TRUE) /\ Fault
       \/ Fails(w, value, run[w].saved, TRUE) /\ Fault /\ UNCHANGED <<job, meeting>>
    /\ UNCHANGED <<remote, owner, Audio, duty, reconciled, restarts>>

SaveUploading(w) == run[w] # Idle /\ UpdateJob(w, "uploading", run[w].job, "submit")

\* The job's audio is saved and the job submitted, or polled when the gateway has it:
\* a submission takes the job over, a poll is refused while another window has it.
SubmitToGateway(w) ==
    /\ run[w].pc = "submit"
    /\ \/ /\ run[w].job.gateway /\ owner \notin {w, NoWindow}
          /\ Throw(w, TRUE) /\ NoFault /\ UNCHANGED <<remote, owner>>
       \/ /\ ~run[w].job.gateway \/ owner \in {w, NoWindow}
          /\ remote' = IF remote = "none" THEN "pending" ELSE remote
          /\ owner' = w
          /\ run' = [run EXCEPT ![w].pc = "accepted", ![w].last = remote']
          /\ NoFault /\ UNCHANGED pass
       \/ Throw(w, TRUE) /\ Fault /\ UNCHANGED <<remote, owner>>
    /\ UNCHANGED <<meeting, job, Audio, duty, reconciled, restarts>>

\* The job status for the gateway's answer.
AcceptedStatus(answer) ==
    CASE answer = "pending" -> "queued"
      [] answer = "running" -> "processing"
      [] answer = "complete" -> "complete"
      [] OTHER -> "failed"

SaveAccepted(w) ==
    /\ run[w] # Idle
    /\ UpdateJob(w, "accepted",
                 [run[w].job EXCEPT !.gateway = TRUE, !.status = AcceptedStatus(run[w].last)],
                 "polling")

\* pollGatewayJobUntilSettled: a settled answer is taken as it is, otherwise the job is
\* polled until it is settled or the delays are used up.
Poll(w) ==
    /\ run[w].pc = "polling"
    /\ LET active == run[w].last \in {"pending", "running"}
           answer == IF active THEN remote ELSE run[w].last
       IN
       \/ /\ active /\ owner \notin {w, NoWindow}
          /\ Throw(w, TRUE) /\ NoFault /\ UNCHANGED owner
       \/ /\ ~active \/ owner \in {w, NoWindow}
          /\ owner' = IF active THEN w ELSE owner
          /\ IF answer = "complete"
             THEN run' = [run EXCEPT ![w].pc = "reconciling"] /\ UNCHANGED pass
             ELSE Throw(w, answer # "rejected")
          /\ NoFault
       \/ active /\ Throw(w, TRUE) /\ Fault /\ UNCHANGED owner
    /\ UNCHANGED <<meeting, job, remote, Audio, duty, reconciled, restarts>>

SaveReconciling(w) ==
    /\ run[w] # Idle
    /\ UpdateJob(w, "reconciling", [run[w].job EXCEPT !.status = "reconciling"], "apply")

\* Fault: the refined version is stored and not made canonical.
RefinedFault == [meeting EXCEPT !.refinement = "complete"]

\* What apply_refinement_result makes of the meeting's row.
Refined == [meeting EXCEPT !.canonical = "refined", !.refinement = "complete"]

\* applySpeakers and applyRefinedTranscript, which reads the meeting again after the
\* result is stored.
ApplyRefinedTranscript(w) ==
    /\ run[w].pc = "apply"
    /\ LET commit == /\ job' = [job EXCEPT !.status = "complete"]
                     /\ meeting' = Refined
       IN
       \/ /\ commit /\ run' = [run EXCEPT ![w].pc = "finish"]
          /\ NoFault /\ UNCHANGED pass
       \/ commit /\ Throw(w, TRUE) /\ Fault
       \/ Throw(w, TRUE) /\ Fault /\ UNCHANGED <<job, meeting>>
    /\ UNCHANGED <<remote, owner, Audio, duty, reconciled, restarts>>

SaveComplete(w) ==
    /\ run[w] # Idle
    /\ UpdateJob(w, "finish", [run[w].job EXCEPT !.status = "complete"], "idle")

SaveFailure(w) == run[w] # Idle /\ UpdateJob(w, "failing", run[w].job, "idle")

-----------------------------------------------------------------------------
(***************************************************************************)
(* stopMeeting, recoverCapturedMeetings and update_meeting.                *)
(***************************************************************************)

\* stopMeeting, once the capture is finalized and the transcript flushed: when the
\* flush failed, the refinement is left to a later pass.
StopMeeting(w) ==
    /\ capturing = w /\ duty[w] = Idle
    /\ \E flushed, interrupted \in BOOLEAN :
          /\ IF flushed THEN NoFault ELSE Fault
          /\ duty' = [duty EXCEPT ![w] =
               [pc |-> "update", submit |-> flushed,
                status |-> IF interrupted \/ ~flushed THEN "interrupted" ELSE "complete",
                refinement |-> IF flushed THEN "queued" ELSE "retry_wait"]]
    /\ capturing' = NoWindow
    /\ UNCHANGED <<meeting, job, remote, owner, offered, acked, run, pass, reconciled, restarts>>

\* canAutoEnqueueRefinement.
CanEnqueue ==
    /\ job.status \notin ActiveStatus
    /\ \/ meeting.refinement = "not_started" /\ meeting.status # "complete"
       \/ meeting.refinement \in {"queued", "retry_wait"}

\* recoverCapturedMeetings: a window reads the meeting whose audio is offered.  "" in a
\* patch is a column the patch leaves alone.
RecoverCaptured(w) ==
    /\ offered /\ duty[w] = Idle
    /\ LET writes == meeting.status = "recording" \/ ~meeting.ended IN
       duty' = [duty EXCEPT ![w] =
         [pc |-> IF writes \/ CanEnqueue THEN "update" ELSE "acknowledge", submit |-> CanEnqueue,
          status |-> IF meeting.status = "recording" THEN "interrupted" ELSE "",
          refinement |-> IF CanEnqueue THEN "queued" ELSE ""]]
    /\ UNCHANGED <<meeting, job, remote, owner, Audio, run, pass, reconciled, faults, restarts>>

GivesUp(w) == duty' = [duty EXCEPT ![w] = Idle]

\* update_meeting reads the row ...
UpdateMeetingReads(w) ==
    /\ duty[w].pc = "update"
    /\ \/ /\ duty' = [duty EXCEPT ![w] =
               [pc |-> "write", submit |-> duty[w].submit,
                status |-> IF duty[w].status = "" THEN meeting.status ELSE duty[w].status,
                refinement |-> IF duty[w].refinement = "" THEN meeting.refinement
                               ELSE duty[w].refinement]]
          /\ NoFault
       \/ GivesUp(w) /\ Fault
    /\ UNCHANGED <<meeting, job, remote, owner, Audio, run, pass, reconciled, restarts>>

\* ... and writes every column back, outside a transaction.
UpdateMeetingWrites(w) ==
    /\ duty[w].pc = "write"
    /\ LET commit == meeting' = [meeting EXCEPT !.status = duty[w].status, !.ended = TRUE,
                                                !.refinement = duty[w].refinement]
       IN
       \/ commit /\ duty' = [duty EXCEPT ![w].pc = "acknowledge"] /\ NoFault
       \/ commit /\ GivesUp(w) /\ Fault
       \/ GivesUp(w) /\ Fault /\ UNCHANGED meeting
    /\ UNCHANGED <<job, remote, owner, Audio, run, pass, reconciled, restarts>>

\* The audio is acknowledged, the meeting read, and the refinement submitted.
Acknowledge(w) ==
    /\ duty[w].pc = "acknowledge"
    /\ \/ /\ offered' = FALSE /\ acked' = TRUE
          /\ IF duty[w].submit THEN Submit(w, NoJob, "meeting") ELSE UNCHANGED run
          /\ NoFault
       \/ Fault /\ UNCHANGED <<offered, acked, run>>
    /\ GivesUp(w)
    /\ UNCHANGED <<meeting, job, remote, owner, capturing, pass, reconciled, restarts>>

\* The Retry button of a failed refinement.
RetryRefinement(w) ==
    /\ meeting.refinement = "failed" /\ run[w] = Idle
    /\ Submit(w, NoJob, "retry")
    /\ UNCHANGED <<meeting, job, remote, owner, Audio, duty, pass, reconciled, faults, restarts>>

-----------------------------------------------------------------------------
(***************************************************************************)
(* The recovery pass.                                                      *)
(***************************************************************************)

\* Fault: the startup pass leaves a job that was being reconciled.
InterruptedFault == {"uploading", "processing"}

\* The job statuses recover takes for the work of a process that ended.
Interrupted == {"uploading", "processing", "reconciling"}

\* recover: a window's first pass reconciles, and lists queued jobs too.
RecoverMeetingJobs(w) ==
    /\ pass[w] = Idle
    /\ LET startup == ~reconciled[w]
           job2 == IF startup /\ job.status \in Interrupted
                   THEN [job EXCEPT !.status = "retry_wait"] ELSE job
           meeting2 == IF startup /\ meeting.status = "recording"
                       THEN [meeting EXCEPT !.status = "interrupted"] ELSE meeting
       IN
       \/ /\ job' = job2 /\ meeting' = meeting2 /\ NoFault
          /\ reconciled' = [reconciled EXCEPT ![w] = TRUE]
          /\ pass' = [pass EXCEPT ![w] =
               [pc |-> "read", listed |-> job2.status = "retry_wait"
                                            \/ (startup /\ job2.status = "queued")]]
       \/ /\ Fault /\ UNCHANGED <<reconciled, pass>>
          /\ \/ job' = job2 /\ meeting' = meeting2
             \/ UNCHANGED <<job, meeting>>
    /\ UNCHANGED <<remote, owner, Audio, duty, run, restarts>>

\* listMeetings and getMeeting.
ReadMeetings(w) ==
    /\ pass[w].pc = "read"
    /\ \/ /\ pass' = [pass EXCEPT ![w] = [pc |-> "jobs", listed |-> pass[w].listed,
                                          job |-> job, meeting |-> meeting]]
          /\ NoFault
       \/ pass' = [pass EXCEPT ![w] = Idle] /\ Fault
    /\ UNCHANGED <<meeting, job, remote, owner, Audio, duty, run, reconciled, restarts>>

\* resumableArtifactRefinementWithoutJob.
ResumableWithoutJob(m, j) ==
    /\ m.status \in {"complete", "interrupted"} /\ m.refinement \in {"queued", "retry_wait"}
    /\ j.status \notin ActiveStatus

\* The pass submits what it read, which the window may have worked on since.
ResumeRefinement(w) ==
    /\ pass[w].pc = "jobs"
    /\ LET read == pass[w]
           resumes == read.listed /\ read.job.status \in {"queued", "retry_wait"}
           starts == ~read.listed /\ ResumableWithoutJob(read.meeting, read.job)
       IN
       IF run[w] = Idle /\ (resumes \/ starts)
       THEN /\ Submit(w, IF resumes THEN read.job ELSE NoJob, "pass")
            /\ pass' = [pass EXCEPT ![w] = [pc |-> "running"]]
       ELSE pass' = [pass EXCEPT ![w] = Idle] /\ UNCHANGED run
    /\ UNCHANGED <<meeting, job, remote, owner, Audio, duty, reconciled, faults, restarts>>

-----------------------------------------------------------------------------

\* The application ends and is launched again; audio that was not acknowledged is
\* offered as recovered.
Restart ==
    /\ restarts < MaxRestarts /\ restarts' = restarts + 1
    /\ capturing' = NoWindow /\ owner' = NoWindow /\ offered' = ~acked
    /\ duty' = [w \in Windows |-> Idle] /\ run' = [w \in Windows |-> Idle]
    /\ pass' = [w \in Windows |-> Idle] /\ reconciled' = [w \in Windows |-> FALSE]
    /\ UNCHANGED <<meeting, job, remote, acked, faults>>

GatewayWorks ==
    /\ \/ remote = "pending" /\ remote' = "running"
       \/ remote \in {"pending", "running"} /\ remote' \in GatewayOutcomes
    /\ UNCHANGED <<meeting, job, owner, Audio, duty, run, pass, reconciled, faults, restarts>>

\* A meeting is being recorded.
Init ==
    /\ meeting = [status |-> "recording", ended |-> FALSE, refinement |-> "not_started",
                  canonical |-> "live"]
    /\ job = NoJob /\ remote = "none" /\ owner = NoWindow
    /\ capturing \in Windows /\ offered = FALSE /\ acked = FALSE
    /\ duty = [w \in Windows |-> Idle] /\ run = [w \in Windows |-> Idle]
    /\ pass = [w \in Windows |-> Idle] /\ reconciled = [w \in Windows |-> FALSE]
    /\ faults = 0 /\ restarts = 0

RunNext(w) ==
    \/ SaveUploading(w) \/ SubmitToGateway(w) \/ SaveAccepted(w) \/ Poll(w)
    \/ SaveReconciling(w) \/ ApplyRefinedTranscript(w) \/ SaveComplete(w) \/ SaveFailure(w)

DutyNext(w) ==
    RecoverCaptured(w) \/ UpdateMeetingReads(w) \/ UpdateMeetingWrites(w) \/ Acknowledge(w)

PassNext(w) == RecoverMeetingJobs(w) \/ ReadMeetings(w) \/ ResumeRefinement(w)

Next ==
    \/ \E w \in Windows : RunNext(w) \/ DutyNext(w) \/ PassNext(w) \/ StopMeeting(w)
                            \/ RetryRefinement(w)
    \/ GatewayWorks \/ Restart

Spec == Init /\ [][Next]_vars

\* Calls are answered, an offered recording is taken up at the next snapshot, the pass
\* runs every minute, and the gateway settles its job.
Fairness ==
    /\ \A w \in Windows : WF_vars(RunNext(w)) /\ WF_vars(DutyNext(w)) /\ WF_vars(PassNext(w))
    /\ WF_vars(GatewayWorks)

FairSpec == Spec /\ Fairness

-----------------------------------------------------------------------------
(***************************************************************************)
(* Properties.                                                             *)
(***************************************************************************)

\* The state has the shapes the store and the windows give it.  Automatic attempts are
\* counted up to the limit; only an attempt that a crash cut short is counted past it.
RefinementTypeOK ==
    /\ meeting \in [status : {"recording", "complete", "interrupted"}, ended : BOOLEAN,
                    refinement : JobStatus \union {"not_started"}, canonical : {"live", "refined"}]
    /\ job \in [status : JobStatus \union {"none"}, attempts : 0 .. MaxAttempts + restarts,
                gateway : BOOLEAN]
    /\ remote \in {"none", "pending", "running"} \union GatewayOutcomes
    /\ owner \in Windows \union {NoWindow} /\ capturing \in Windows \union {NoWindow}
    /\ reconciled \in [Windows -> BOOLEAN]

AtRest == \A w \in Windows : run[w] = Idle /\ duty[w] = Idle

\* A job that is complete when nobody works on it has a refined transcript to show:
\* apply_refinement_result stores both (submitRefinement).
CompleteIsRefined == (job.status = "complete" /\ AtRest) => meeting.canonical = "refined"

\* Nothing is complete before the gateway has the result, whichever window, pass or
\* launch saved it, and from whatever it had read before (submitRefinement).
CompleteIsSettled ==
    (job.status = "complete" \/ meeting.canonical = "refined") => remote = "complete"

\* The state has its shapes, nothing is complete too early, and while the application
\* runs and one call at most fails no job is complete without its result
\* (submitRefinement, apply_refinement_result).
RefinementInv ==
    RefinementTypeOK /\ CompleteIsSettled /\ (restarts = 0 /\ faults <= 1 => CompleteIsRefined)

\* While the application runs, a refined transcript is reported as ready unless a job is
\* to take it up again or has used up its attempts: no write of the meeting from an old
\* copy, no late answer and no window that works on old rows says otherwise
\* (apply_refinement_result, update_meeting, refinementFailureDisposition).
RefinedIsReported ==
    (restarts = 0 /\ meeting.canonical = "refined" /\ job.status \notin ActiveStatus)
        => meeting.refinement = "complete" \/ job.attempts >= MaxAttempts

\* The same without the exception, when no window works on the meeting
\* (apply_refinement_result).
RefinedStaysReported ==
    (restarts = 0 /\ meeting.canonical = "refined" /\ AtRest /\ job.status \notin ActiveStatus)
        => meeting.refinement = "complete"

\* The Retry button's job is not refused (TranscriptRefinementStatus.tsx,
\* retryRefinement); checked where no call fails.
RetryIsAccepted ==
    \A w \in Windows : (run[w] # Idle /\ run[w].by = "retry") => run[w].pc # "failing" \/ run[w].saved

\* The job is complete or failed in the end and stays so, across crashes, unless a
\* call fails: a failure that cannot be saved leaves the job to the next launch
\* (startMeetingRecoveryLoop, refinementFailureDisposition).
JobSettles == <>[](job.status \notin ActiveStatus \/ faults > 0)

\* A refinement that is announced does not stay announced for ever (stopMeeting,
\* recoverCapturedMeetings).
RefinementSettles == <>[](meeting.refinement \notin ActiveStatus)
=============================================================================
