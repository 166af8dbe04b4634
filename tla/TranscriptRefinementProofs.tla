--------------------- MODULE TranscriptRefinementProofs ---------------------
(***************************************************************************)
(* Proofs about the refinement of a transcript, for any number of windows, *)
(* attempts, failing calls and launches.  RefinementIInv has parts that    *)
(* hold in general - what the rows, the runs and the passes have seen of   *)
(* the gateway's job is still true of it (SettledInv); in the first launch *)
(* the meeting reports what its job does (LaunchInv), and a job that is    *)
(* complete without its result is still worked on (FinishInv) - and one    *)
(* that needs a single window: attempts are counted once (AttemptsInv).    *)
(*                                                                         *)
(* A step of a run is one of eight that differ in what they save; RunMove  *)
(* is what all of them do, so each has one lemma, and the invariant is     *)
(* carried over RunMove once.                                              *)
(***************************************************************************)
EXTENDS TranscriptRefinement, TLAPS

MeetingStatus == {"recording", "complete", "interrupted"}
RefinementStatus == JobStatus \union {"not_started"}
MeetingRow == [status : MeetingStatus, ended : BOOLEAN, refinement : RefinementStatus,
               canonical : {"live", "refined"}]
JobRow == [status : JobStatus \union {"none"}, attempts : Nat, gateway : BOOLEAN]
JobInMemory == [status : JobStatus, attempts : Nat, gateway : BOOLEAN]
Settled == {"complete", "failed", "rejected"}
Answers == {"pending", "running"} \union GatewayOutcomes
Run == [pc : {"uploading", "submit", "accepted", "polling", "reconciling", "apply", "finish",
              "failing"},
        by : {"meeting", "retry", "pass"}, saved : BOOLEAN, last : {"none"} \union Answers,
        job : JobInMemory]
Duty == [pc : {"update", "acknowledge"}, submit : BOOLEAN, status : MeetingStatus \union {""},
         refinement : RefinementStatus \union {""}]
        \union [pc : {"write"}, submit : BOOLEAN, status : MeetingStatus,
                refinement : RefinementStatus]
Pass == [pc : {"read"}, listed : BOOLEAN] \union [pc : {"running"}]
        \union [pc : {"jobs"}, listed : BOOLEAN, job : JobRow, meeting : MeetingRow]

TypeInv ==
    /\ meeting \in MeetingRow /\ job \in JobRow
    /\ remote \in {"none"} \union Answers
    /\ owner \in Windows \union {NoWindow} /\ capturing \in Windows \union {NoWindow}
    /\ offered \in BOOLEAN /\ acked \in BOOLEAN
    /\ duty \in [Windows -> {Idle} \union Duty]
    /\ run \in [Windows -> {Idle} \union Run]
    /\ pass \in [Windows -> {Idle} \union Pass]
    /\ reconciled \in [Windows -> BOOLEAN]
    /\ faults \in Nat /\ restarts \in Nat

-----------------------------------------------------------------------------
\* A failed job has used up its attempts, or the gateway has failed it.
Refused(j) == j.status = "failed" => j.attempts >= MaxAttempts \/ remote \in {"failed", "rejected"}

\* What a save may store: complete only with the gateway's result, queued only when the
\* gateway has the job, to be retried only below the limit.
Savable(j) ==
    /\ j.status = "complete" => remote = "complete"
    /\ Refused(j)
    /\ j.status = "queued" => j.gateway
    /\ j.status = "retry_wait" => j.attempts < MaxAttempts

RunOk(r) ==
    /\ r.last \in GatewayOutcomes => remote = r.last
    /\ r.pc \in {"reconciling", "apply", "finish"} => remote = "complete"
    /\ Savable(r.job)
    /\ r.pc = "finish" => meeting.canonical = "refined"
    /\ r.pc = "failing" => r.job.status \in {"retry_wait", "failed"}
    /\ r.pc = "uploading" => r.job.status = "uploading"
    /\ r.pc \notin {"uploading", "failing"} => r.saved
    /\ r.pc \in {"accepted", "polling"} => r.last # "none"

SettledInv ==
    /\ CompleteIsSettled
    /\ Refused(job)
    /\ job.status = "queued" => job.gateway
    /\ meeting.canonical = "refined" => job.status # "none"
    /\ \A w \in Windows : run[w] # Idle => RunOk(run[w])

\* The window is about to write a patch of the meeting's row.
Writes(w) == duty[w].pc \in {"update", "write"}

\* Nothing has been started for the meeting.
Untouched ==
    /\ meeting.refinement = "not_started" /\ job = NoJob
    /\ \A v \in Windows : /\ run[v] = Idle /\ pass[v].pc # "running"
                          /\ pass[v].pc = "jobs" => /\ pass[v].job = NoJob
                                                    /\ pass[v].meeting.refinement = "not_started"

\* In the first launch the only patch of the meeting's row is that of stopMeeting,
\* written before anything is started.
LaunchInv == restarts = 0 =>
    /\ ~offered
    /\ job.status \in {"complete", "failed"} => meeting.refinement = job.status
    /\ \A u, v \in Windows : duty[u] # Idle /\ duty[v] # Idle => u = v
    /\ \A w \in Windows : /\ duty[w] # Idle => capturing = NoWindow
                          /\ Writes(w) => Untouched
    /\ capturing # NoWindow => Untouched

-----------------------------------------------------------------------------
OneWindow == \E w \in Windows : Windows = {w}

\* A crash lets a job be counted once more than the limit.
Counted(j) ==
    /\ j.attempts <= MaxAttempts + restarts
    /\ j.status = "queued" => j.gateway
    /\ j.status = "retry_wait" => j.attempts < MaxAttempts + restarts

\* Before its startup pass the window has made a first attempt at most.
AttemptsInv ==
    /\ Counted(job)
    /\ \A w \in Windows :
          /\ run[w] # Idle => run[w].job.attempts <= MaxAttempts + restarts
          /\ pass[w].pc = "jobs" => Counted(pass[w].job)
          /\ ~reconciled[w] => /\ job.attempts < MaxAttempts + restarts /\ pass[w] = Idle
                               /\ run[w] # Idle => run[w].job.attempts = 1

\* While the application runs and one call at most fails, the job is complete and its
\* result is missing.
Unfinished ==
    restarts = 0 /\ faults <= 1 /\ job.status = "complete" /\ meeting.canonical # "refined"

\* The window works on it: its run goes on to apply the result, or is about to save a
\* failure and that save succeeds.
FinishAt(w) ==
    Unfinished =>
        /\ run[w] # Idle /\ run[w].saved
        /\ \/ run[w].pc \in {"polling", "reconciling"} /\ run[w].last = "complete"
           \/ run[w].pc = "failing" /\ faults = 1

FinishInv == Unfinished => \E w \in Windows : FinishAt(w)

RefinementIInv ==
    /\ TypeInv /\ SettledInv /\ LaunchInv /\ FinishInv
    /\ (OneWindow /\ MaxAttempts > 1) => AttemptsInv

-----------------------------------------------------------------------------
(* The steps of a run.                                                     *)

\* What the gateway has settled stays, and a refined transcript stays canonical.
Grows ==
    /\ remote \in Settled => remote' = remote
    /\ meeting.canonical = "refined" => meeting'.canonical = "refined"

\* So what a run has in memory stays true while another process works.
LEMMA RunOkStays ==
    ASSUME Grows
    PROVE  \A r \in Run : RunOk(r) => RunOk(r)'
  BY RefinementAssumption, ZenonT(30) DEF Grows, RunOk, Savable, Refused, Settled

\* A window is idle or runs one refinement.
LEMMA RunTyped ==
    ASSUME TypeInv, NEW w \in Windows
    PROVE  /\ run[w] = Idle \/ run[w] \in Run
           /\ run[w] = Idle <=> run[w].pc = "idle"
           /\ run[w] \in Run => /\ run[w].job \in JobInMemory /\ run[w].saved \in BOOLEAN
                                /\ run[w].pc # "idle"
  BY DEF TypeInv, Idle, Run

\* The window's run goes on or ends; the store keeps its rows, or both are written from
\* the job that the run has in memory or the job's row.
RunMove(w) ==
    /\ run[w] # Idle
    /\ run' \in [Windows -> {Idle} \union Run] /\ pass' \in [Windows -> {Idle} \union Pass]
    /\ \A v \in Windows \ {w} : run'[v] = run[v] /\ pass'[v] = pass[v]
    /\ pass'[w] \in {pass[w], Idle}
    /\ run'[w] # Idle => RunOk(run[w])' /\ run'[w].job.attempts = run[w].job.attempts
    /\ UNCHANGED <<Audio, duty, reconciled, restarts>>
    /\ faults' \in Nat /\ faults' >= faults
    /\ Grows
    /\ remote' \in {"none"} \union Answers /\ owner' \in Windows \union {NoWindow}
    /\ \/ UNCHANGED <<job, meeting>>
       \/ /\ job' \in JobInMemory /\ Savable(job)'
          /\ job'.attempts \in {job.attempts, run[w].job.attempts}
          /\ meeting' \in MeetingRow /\ meeting'.refinement = job'.status
          /\ meeting'.canonical = "refined" => remote' = "complete"
    /\ FinishAt(w) => FinishAt(w)'

\* The general parts of the invariant are carried over a step of a run.
LEMMA RunMoveInv ==
    ASSUME RefinementIInv, NEW w \in Windows, RunMove(w)
    PROVE  RefinementIInv'
<1>1. TypeInv'
  <2>1. job' \in JobRow
    BY DEF RefinementIInv, TypeInv, RunMove, JobInMemory, JobRow
  <2>. QED  BY <2>1 DEF RefinementIInv, TypeInv, RunMove, Audio
<1>2. SettledInv'
  <2>1. \A v \in Windows : run'[v] # Idle => RunOk(run[v])'
    <3>1. \A v \in Windows \ {w} : run'[v] # Idle => run[v] \in Run /\ RunOk(run[v])
      BY DEF RunMove, RefinementIInv, TypeInv, SettledInv
    <3>2. \A v \in Windows \ {w} : run'[v] # Idle => RunOk(run[v])'
      <4> TAKE v \in Windows \ {w}
      <4> HAVE run'[v] # Idle
      <4>1. run[v] \in Run /\ RunOk(run[v]) /\ run'[v] = run[v]
        BY <3>1 DEF RunMove
      <4>2. PICK r \in Run : r = run[v]
        BY <4>1
      <4>3. RunOk(r)'
        BY <4>1, <4>2, RunOkStays DEF RunMove
      <4>. QED  BY <4>1, <4>2, <4>3 DEF RunOk, Savable, Refused
    <3>. QED  BY <3>2 DEF RunMove
  <2>2. CASE UNCHANGED <<job, meeting>>
    BY <2>1, <2>2 DEF RefinementIInv, SettledInv, CompleteIsSettled, Refused, RunMove, Grows,
       Settled
  <2>3. CASE job' \in JobInMemory /\ Savable(job)' /\ (meeting'.canonical = "refined" => remote' = "complete")
    BY <2>1, <2>3 DEF SettledInv, CompleteIsSettled, Savable, JobInMemory, JobStatus, ActiveStatus
  <2>. QED  BY <2>2, <2>3 DEF RunMove
<1>3. LaunchInv'
  <2> SUFFICES ASSUME restarts = 0 PROVE LaunchInv'
    BY DEF LaunchInv, RunMove
  <2>1. capturing = NoWindow /\ \A v \in Windows : ~Writes(v)
    BY DEF RunMove, RefinementIInv, LaunchInv, Untouched
  <2>2. /\ capturing' = NoWindow /\ \A v \in Windows : ~Writes(v)'
        /\ \A u, v \in Windows : duty'[u] # Idle /\ duty'[v] # Idle => u = v
    BY <2>1 DEF RunMove, Audio, Writes, RefinementIInv, LaunchInv
  <2>3. ~offered' /\ (job'.status \in {"complete", "failed"} => meeting'.refinement = job'.status)
    BY DEF RunMove, RefinementIInv, LaunchInv, Audio
  <2>. QED  BY <2>2, <2>3 DEF LaunchInv
<1>4. FinishInv'
  <2> SUFFICES ASSUME Unfinished' PROVE \E v \in Windows : FinishAt(v)'
    BY DEF FinishInv
  <2>1. restarts = 0 /\ faults <= 1 /\ faults' <= 1 /\ faults \in Nat /\ faults' >= faults
        /\ faults' \in Nat /\ meeting.canonical # "refined"
    BY DEF Unfinished, RunMove, RefinementIInv, TypeInv, Grows
  <2>2. CASE FinishAt(w)
    BY <2>2 DEF RunMove
  <2>3. CASE ~FinishAt(w)
    <3>1. PICK v \in Windows \ {w} : FinishAt(v) /\ Unfinished
      BY <2>3 DEF RefinementIInv, FinishInv, FinishAt
    <3>2. run'[v] = run[v]
      BY DEF RunMove
    <3>3. FinishAt(v)'
      BY <2>1, <3>1, <3>2 DEF FinishAt
    <3>. QED  BY <3>3
  <2>. QED  BY <2>2, <2>3
<1>5. ASSUME OneWindow, MaxAttempts > 1
      PROVE  AttemptsInv'
  <2>1. Windows = {w} /\ AttemptsInv
    BY <1>5 DEF OneWindow, RefinementIInv
  <2>2. restarts' = restarts /\ restarts \in Nat /\ reconciled' = reconciled /\ MaxAttempts \in Nat
    BY RefinementAssumption DEF RunMove, RefinementIInv, TypeInv
  <2>3. run[w].job.attempts \in Nat /\ job.attempts \in Nat
    BY RunTyped DEF RunMove, RefinementIInv, TypeInv, JobInMemory, JobRow
  <2>4. Counted(job)'
    BY <1>5, <2>1, <2>2, <2>3 DEF RunMove, AttemptsInv, Counted, Savable
  <2>5. ~reconciled[w] => job'.attempts < MaxAttempts + restarts /\ pass'[w] = Idle
    BY <1>5, <2>1, <2>2, <2>3 DEF RunMove, AttemptsInv
  <2>6. pass'[w].pc = "jobs" => pass'[w] = pass[w]
    BY DEF RunMove, Idle
  <2>. QED  BY <1>5, <2>1, <2>2, <2>3, <2>4, <2>5, <2>6 DEF RunMove, AttemptsInv, Counted
<1>. QED  BY <1>1, <1>2, <1>3, <1>4, <1>5 DEF RefinementIInv

\* refinementFailureDisposition retries only below the limit.
LEMMA FailureStatusFacts ==
    ASSUME NEW retryable \in BOOLEAN, NEW n \in Nat
    PROVE  /\ FailureStatus(retryable, n) \in {"retry_wait", "failed"}
           /\ FailureStatus(retryable, n) = "retry_wait" => n < MaxAttempts
           /\ FailureStatus(retryable, n) = "failed" => ~retryable \/ n >= MaxAttempts
  BY RefinementAssumption DEF FailureStatus

\* The run ends, and the pass with it that awaits it.
LEMMA RunEndsFacts ==
    ASSUME TypeInv, NEW w \in Windows, RunEnds(w)
    PROVE  /\ run' \in [Windows -> {Idle} \union Run] /\ pass' \in [Windows -> {Idle} \union Pass]
           /\ \A v \in Windows \ {w} : run'[v] = run[v] /\ pass'[v] = pass[v]
           /\ run'[w] = Idle /\ pass'[w] \in {pass[w], Idle}
  BY DEF TypeInv, RunEnds

\* The catch clause is entered, or its own save failed and the run ends.
LEMMA FailsFacts ==
    ASSUME TypeInv, SettledInv, NEW w \in Windows, run[w] # Idle,
           NEW value \in JobInMemory, NEW saved \in BOOLEAN, NEW retryable \in BOOLEAN,
           Fails(w, value, saved, retryable), Grows,
           ~retryable => remote' \in {"failed", "rejected"}
    PROVE  /\ run' \in [Windows -> {Idle} \union Run] /\ pass' \in [Windows -> {Idle} \union Pass]
           /\ \A v \in Windows \ {w} : run'[v] = run[v] /\ pass'[v] = pass[v]
           /\ pass'[w] \in {pass[w], Idle}
           /\ run'[w] # Idle => /\ RunOk(run[w])' /\ run'[w].job.attempts = value.attempts
                                /\ run'[w].pc = "failing" /\ run'[w].saved = saved
                                /\ run'[w].last = run[w].last
           /\ run'[w] = Idle <=> run[w].pc = "failing"
<1>0. run[w] \in Run /\ RunOk(run[w])
  BY RunTyped DEF SettledInv
<1>1. CASE run[w].pc = "failing"
  BY <1>1, RunEndsFacts DEF Fails
<1>2. CASE run[w].pc # "failing"
  <2> DEFINE r == [run[w] EXCEPT !.pc = "failing", !.saved = saved,
                     !.job = [value EXCEPT !.status = FailureStatus(retryable, value.attempts)]]
  <2>1. value.attempts \in Nat
    BY DEF JobInMemory
  <2>2. FailureStatus(retryable, value.attempts) \in {"retry_wait", "failed"}
    BY <2>1, FailureStatusFacts
  <2>3. r \in Run /\ r # Idle
    BY <1>0, <2>2 DEF Run, JobInMemory, JobStatus, ActiveStatus, Idle
  <2>4. run' = [run EXCEPT ![w] = r] /\ pass' = pass
    BY <1>0, <1>2 DEF Fails, TypeInv
  <2>5. /\ r.pc = "failing" /\ r.last = run[w].last /\ r.saved = saved
        /\ r.job.attempts = value.attempts
        /\ r.job.status = FailureStatus(retryable, value.attempts)
    BY <1>0 DEF Run, JobInMemory
  <2>6. r.last \in GatewayOutcomes => remote' = r.last
    BY <1>0, <2>5, RefinementAssumption DEF RunOk, Grows, Settled
  <2>7. Savable(r.job)'
    BY <2>1, <2>2, <2>5, FailureStatusFacts DEF Savable, Refused
  <2>8. run'[w] = r
    BY <2>4 DEF TypeInv
  <2>9. RunOk(run[w])'
    BY <2>2, <2>5, <2>6, <2>7, <2>8 DEF RunOk, Savable, Refused
  <2> HIDE DEF r
  <2>. QED  BY <1>2, <2>3, <2>4, <2>5, <2>8, <2>9 DEF TypeInv
<1>. QED  BY <1>1, <1>2

\* The catch clause in a step that stores nothing of the job.
LEMMA ThrowMoves ==
    ASSUME RefinementIInv, NEW w \in Windows, run[w] # Idle, run[w].pc # "failing",
           NEW retryable \in BOOLEAN, Throw(w, retryable), Grows,
           ~retryable => remote' \in {"failed", "rejected"},
           remote' \in {"none"} \union Answers, owner' \in Windows \union {NoWindow},
           UNCHANGED <<Audio, duty, reconciled, restarts>>, NoFault \/ Fault,
           \/ UNCHANGED <<job, meeting>>
           \/ /\ job' \in JobInMemory /\ Savable(job)' /\ job'.attempts = job.attempts
              /\ meeting' \in MeetingRow /\ meeting'.refinement = job'.status
              /\ meeting'.canonical = "refined" /\ remote' = "complete",
           FinishAt(w) => FinishAt(w)'
    PROVE  RunMove(w)
<1>1. run[w].job \in JobInMemory /\ run[w].saved \in BOOLEAN
  BY RunTyped DEF RefinementIInv
<1>2. Fails(w, run[w].job, run[w].saved, retryable)
  BY DEF Throw
<1>3. faults' \in Nat /\ faults' >= faults
  BY DEF Fault, NoFault, RefinementIInv, TypeInv
<1>. QED  BY <1>1, <1>2, <1>3, FailsFacts DEF RunMove, RefinementIInv

\* A save of the run's job: it goes on with the job as saved, or enters the catch clause.
LEMMA UpdateJobMoves ==
    ASSUME RefinementIInv, NEW w \in Windows, run[w] # Idle, NEW pc, NEW value \in JobInMemory,
           NEW then \in {"submit", "polling", "apply", "idle"},
           UpdateJob(w, pc, value, then),
           value.attempts = run[w].job.attempts, Savable(value),
           then = "apply" => remote = "complete",
           then = "polling" => run[w].last # "none",
           pc = "failing" => value.status # "complete",
           value.status = "complete" => \/ meeting.canonical = "refined"
                                        \/ then = "polling" /\ run[w].last = "complete"
    PROVE  RunMove(w)
<1> DEFINE next == [run EXCEPT ![w].job = value, ![w].saved = TRUE, ![w].pc = then]
           Saved == /\ job' \in JobInMemory /\ Savable(job)'
                    /\ job'.attempts = run[w].job.attempts
                    /\ meeting' \in MeetingRow /\ meeting'.refinement = job'.status
                    /\ meeting'.canonical = "refined" => remote' = "complete"
<1>0. /\ TypeInv /\ SettledInv /\ run[w] \in Run /\ RunOk(run[w]) /\ run[w].saved \in BOOLEAN
      /\ run[w].pc = pc
  BY RunTyped DEF RefinementIInv, SettledInv, UpdateJob
<1>1. UNCHANGED <<remote, owner, Audio, duty, reconciled, restarts>>
  BY DEF UpdateJob
<1>2. ASSUME Commit(value) PROVE Saved /\ Grows /\ meeting'.canonical = meeting.canonical
  <2>1. job' = value /\ meeting' = [meeting EXCEPT !.refinement = value.status]
    BY <1>2 DEF Commit
  <2>2. meeting' \in MeetingRow /\ meeting'.refinement = value.status
        /\ meeting'.canonical = meeting.canonical
    BY <1>0, <2>1 DEF TypeInv, MeetingRow, JobInMemory, RefinementStatus
  <2>3. Savable(job)'
    BY <1>1, <2>1 DEF Savable, Refused
  <2>. QED  BY <1>0, <1>1, <2>1, <2>2, <2>3 DEF Grows, SettledInv, CompleteIsSettled
<1>3. ASSUME UNCHANGED <<job, meeting>> PROVE Grows
  BY <1>1, <1>3 DEF Grows
<1>4. CASE ~Conflict(w) /\ Commit(value) /\ NoFault
           /\ IF then = "idle" THEN RunEnds(w) ELSE run' = next /\ UNCHANGED pass
  <2>1. Saved /\ Grows /\ meeting'.canonical = meeting.canonical
    BY <1>2, <1>4
  <2>2. faults' = faults /\ faults \in Nat
    BY <1>0, <1>4 DEF NoFault, TypeInv
  <2>3. CASE then = "idle"
    <3>1. /\ run' \in [Windows -> {Idle} \union Run] /\ pass' \in [Windows -> {Idle} \union Pass]
          /\ \A v \in Windows \ {w} : run'[v] = run[v] /\ pass'[v] = pass[v]
          /\ run'[w] = Idle /\ pass'[w] \in {pass[w], Idle}
      BY <1>0, <1>4, <2>3, RunEndsFacts
    <3>2. FinishAt(w)'
      BY <1>2, <1>4, <2>1, <2>3 DEF FinishAt, Unfinished, Commit
    <3>. QED  BY <1>0, <1>1, <2>1, <2>2, <3>1, <3>2 DEF RunMove, TypeInv
  <2>4. CASE then # "idle"
    <3> DEFINE r == [run[w] EXCEPT !.job = value, !.saved = TRUE, !.pc = then]
    <3>1. r \in Run /\ r # Idle /\ r.job = value /\ r.saved /\ r.pc = then /\ r.last = run[w].last
      BY <1>0, <2>4 DEF Run, Idle
    <3>2. run' = [run EXCEPT ![w] = r] /\ pass' = pass
      BY <1>0, <1>4, <2>4 DEF TypeInv
    <3> HIDE DEF r
    <3>4. run'[w] = r
      BY <1>0, <3>2 DEF TypeInv
    <3>5. RunOk(run[w])'
      BY <1>0, <1>1, <2>1, <2>4, <3>1, <3>4 DEF RunOk, Savable, Refused, Grows
    <3>6. FinishAt(w)'
      BY <1>4, <2>1, <3>1, <3>4 DEF FinishAt, Unfinished, Commit
    <3>. QED  BY <1>0, <1>1, <2>1, <2>2, <3>1, <3>2, <3>4, <3>5, <3>6 DEF RunMove, TypeInv
  <2>. QED  BY <2>3, <2>4
<1>5. CASE Conflict(w) /\ Fails(w, value, FALSE, TRUE) /\ NoFault /\ UNCHANGED <<job, meeting>>
  <2>1. FinishAt(w) => FinishAt(w)'
    <3> SUFFICES ASSUME FinishAt(w), restarts = 0, faults' <= 1, job'.status = "complete",
                        meeting'.canonical # "refined"
                 PROVE  FALSE
      BY <1>1 DEF FinishAt, Unfinished
    <3>. QED  BY <1>5 DEF FinishAt, Unfinished, Conflict, NoFault
  <2>2. faults' = faults /\ faults \in Nat
    BY <1>0, <1>5 DEF NoFault, TypeInv
  <2>3. Grows
    BY <1>3, <1>5
  <2>4. /\ run' \in [Windows -> {Idle} \union Run] /\ pass' \in [Windows -> {Idle} \union Pass]
        /\ \A v \in Windows \ {w} : run'[v] = run[v] /\ pass'[v] = pass[v]
        /\ pass'[w] \in {pass[w], Idle}
        /\ run'[w] # Idle => RunOk(run[w])' /\ run'[w].job.attempts = value.attempts
    BY <1>0, <1>5, <2>3, FailsFacts
  <2>. QED  BY <1>0, <1>1, <1>5, <2>1, <2>2, <2>3, <2>4 DEF RunMove, TypeInv
<1>6. CASE ~Conflict(w) /\ Commit(value) /\ Fails(w, value, TRUE, TRUE) /\ Fault
  <2>1. Saved /\ Grows /\ meeting'.canonical = meeting.canonical
    BY <1>2, <1>6
  <2>2. faults' = faults + 1 /\ faults \in Nat
    BY <1>0, <1>6 DEF Fault, TypeInv
  <2>3. /\ run' \in [Windows -> {Idle} \union Run] /\ pass' \in [Windows -> {Idle} \union Pass]
        /\ \A v \in Windows \ {w} : run'[v] = run[v] /\ pass'[v] = pass[v]
        /\ pass'[w] \in {pass[w], Idle}
        /\ run'[w] # Idle => /\ RunOk(run[w])' /\ run'[w].job.attempts = value.attempts
                             /\ run'[w].pc = "failing" /\ run'[w].saved
        /\ run'[w] = Idle <=> pc = "failing"
    BY <1>0, <1>6, <2>1, FailsFacts
  <2>4. job' = value
    BY <1>6 DEF Commit
  <2>5. FinishAt(w)'
    BY <2>1, <2>2, <2>3, <2>4 DEF FinishAt, Unfinished
  <2>. QED  BY <1>0, <1>1, <2>1, <2>2, <2>3, <2>5 DEF RunMove, TypeInv
<1>7. CASE Fails(w, value, run[w].saved, TRUE) /\ Fault /\ UNCHANGED <<job, meeting>>
  <2>1. Grows
    BY <1>3, <1>7
  <2>2. faults' = faults + 1 /\ faults \in Nat
    BY <1>0, <1>7 DEF Fault, TypeInv
  <2>3. /\ run' \in [Windows -> {Idle} \union Run] /\ pass' \in [Windows -> {Idle} \union Pass]
        /\ \A v \in Windows \ {w} : run'[v] = run[v] /\ pass'[v] = pass[v]
        /\ pass'[w] \in {pass[w], Idle}
        /\ run'[w] # Idle => /\ RunOk(run[w])' /\ run'[w].job.attempts = value.attempts
                             /\ run'[w].pc = "failing" /\ run'[w].saved = run[w].saved
        /\ run'[w] = Idle <=> pc = "failing"
    BY <1>0, <1>7, <2>1, FailsFacts, ZenonT(30)
  <2>4. FinishAt(w) => FinishAt(w)'
    <3> SUFFICES ASSUME FinishAt(w), restarts = 0, faults' <= 1, job'.status = "complete",
                        meeting'.canonical # "refined"
                 PROVE  /\ run'[w] # Idle /\ run'[w].saved /\ run'[w].pc = "failing" /\ faults' = 1
      BY <1>1 DEF FinishAt, Unfinished
    <3>1. faults = 0 /\ run[w].saved /\ run[w].pc # "failing"
      BY <1>7, <2>2 DEF FinishAt, Unfinished
    <3>2. faults' = 1
      BY <2>2, <3>1
    <3>3. run'[w] # Idle /\ run'[w].pc = "failing" /\ run'[w].saved
      BY <1>0, <2>3, <3>1
    <3>. QED  BY <3>2, <3>3
  <2>. QED  BY <1>0, <1>1, <1>7, <2>1, <2>2, <2>3, <2>4 DEF RunMove, TypeInv
<1>. QED  BY <1>4, <1>5, <1>6, <1>7 DEF UpdateJob

LEMMA SaveUploadingMoves ==
    ASSUME RefinementIInv, NEW w \in Windows, SaveUploading(w)
    PROVE  RunMove(w)
<1>1. run[w] # Idle /\ run[w].pc = "uploading" /\ run[w].job \in JobInMemory /\ RunOk(run[w])
  BY RunTyped DEF SaveUploading, UpdateJob, RefinementIInv, SettledInv
<1>. QED  BY <1>1, UpdateJobMoves DEF SaveUploading, RunOk

LEMMA SubmitToGatewayMoves ==
    ASSUME RefinementIInv, NEW w \in Windows, SubmitToGateway(w)
    PROVE  RunMove(w)
<1>0. /\ TypeInv /\ SettledInv /\ run[w] \in Run /\ run[w] # Idle /\ RunOk(run[w])
      /\ run[w].pc = "submit"
  BY RunTyped DEF SubmitToGateway, RefinementIInv, SettledInv
<1>1. UNCHANGED <<meeting, job, Audio, duty, reconciled, restarts>>
  BY DEF SubmitToGateway
<1>2. FinishAt(w) => FinishAt(w)'
  <2> SUFFICES ASSUME FinishAt(w), restarts = 0, faults' <= 1, job.status = "complete",
                      meeting.canonical # "refined"
               PROVE  FALSE
    BY <1>1 DEF FinishAt, Unfinished
  <2>1. NoFault \/ Fault
    BY DEF SubmitToGateway
  <2>2. faults <= 1
    BY <1>0, <2>1 DEF NoFault, Fault, TypeInv
  <2>. QED  BY <1>0, <2>2 DEF FinishAt, Unfinished
<1>3. CASE Throw(w, TRUE) /\ (NoFault \/ Fault) /\ UNCHANGED <<remote, owner>>
  BY <1>0, <1>1, <1>2, <1>3, ThrowMoves DEF Grows, TypeInv
<1>4. CASE /\ remote' = IF remote = "none" THEN "pending" ELSE remote
           /\ owner' = w
           /\ run' = [run EXCEPT ![w].pc = "accepted", ![w].last = remote']
           /\ NoFault /\ UNCHANGED pass
  <2>1. remote' \in Answers /\ remote' # "none" /\ Grows
    BY <1>0, <1>1, <1>4, RefinementAssumption DEF Grows, Settled, TypeInv, Answers
  <2>2. /\ run' \in [Windows -> {Idle} \union Run] /\ \A v \in Windows \ {w} : run'[v] = run[v]
        /\ run'[w].pc = "accepted" /\ run'[w].last = remote' /\ run'[w].job = run[w].job
        /\ run'[w].saved = run[w].saved
    BY <1>0, <1>4, <2>1 DEF Run, TypeInv
  <2>3. RunOk(run[w])'
    BY <1>0, <2>1, <2>2, RefinementAssumption DEF RunOk, Savable, Refused, Grows, Settled
  <2>. QED  BY <1>0, <1>1, <1>2, <1>4, <2>1, <2>2, <2>3 DEF RunMove, NoFault, TypeInv, Answers
<1>. QED  BY <1>3, <1>4 DEF SubmitToGateway

LEMMA SaveAcceptedMoves ==
    ASSUME RefinementIInv, NEW w \in Windows, SaveAccepted(w)
    PROVE  RunMove(w)
<1> DEFINE value == [run[w].job EXCEPT !.gateway = TRUE, !.status = AcceptedStatus(run[w].last)]
<1>1. /\ run[w] # Idle /\ run[w].pc = "accepted" /\ run[w] \in Run /\ RunOk(run[w])
      /\ UpdateJob(w, "accepted", value, "polling")
  BY RunTyped DEF SaveAccepted, UpdateJob, RefinementIInv, SettledInv
<1>2. run[w].last \in {"pending", "running", "complete", "failed", "rejected"}
  BY <1>1, RefinementAssumption DEF Run, Answers, RunOk
<1>3. /\ AcceptedStatus(run[w].last) \in {"queued", "processing", "complete", "failed"}
      /\ AcceptedStatus(run[w].last) = "complete" => run[w].last = "complete"
      /\ AcceptedStatus(run[w].last) = "failed" => run[w].last \in {"failed", "rejected"}
  BY <1>2 DEF AcceptedStatus
<1>4. run[w].last \in {"complete", "failed", "rejected"} => remote = run[w].last
  BY <1>1 DEF Run, Answers, RunOk
<1>5. value \in JobInMemory /\ value.attempts = run[w].job.attempts
      /\ value.gateway /\ value.status = AcceptedStatus(run[w].last)
  BY <1>1, <1>3 DEF Run, JobInMemory, JobStatus, ActiveStatus
<1>6. Savable(value)
  BY <1>3, <1>4, <1>5 DEF Savable, Refused
<1> HIDE DEF value
<1>. QED  BY <1>1, <1>3, <1>5, <1>6, UpdateJobMoves DEF RunOk

LEMMA PollMoves ==
    ASSUME RefinementIInv, NEW w \in Windows, Poll(w)
    PROVE  RunMove(w)
<1> DEFINE active == run[w].last \in {"pending", "running"}
           answer == IF active THEN remote ELSE run[w].last
<1>0. /\ TypeInv /\ SettledInv /\ run[w] \in Run /\ run[w] # Idle /\ RunOk(run[w])
      /\ run[w].pc = "polling"
  BY RunTyped DEF Poll, RefinementIInv, SettledInv
<1>1. UNCHANGED <<meeting, job, remote, Audio, duty, reconciled, restarts>>
  BY DEF Poll
<1>2. answer \in {"complete", "rejected"} => remote = answer
  BY <1>0 DEF Run, Answers, RunOk
<1>3. Grows
  BY <1>1 DEF Grows
<1>4. ASSUME NEW retryable \in BOOLEAN, Throw(w, retryable), NoFault \/ Fault,
             owner' \in Windows \union {NoWindow}, active \/ answer # "complete",
             ~retryable => remote = "rejected"
      PROVE  RunMove(w)
  <2>1. FinishAt(w) => FinishAt(w)'
    <3> SUFFICES ASSUME FinishAt(w), restarts = 0, faults' <= 1, job.status = "complete",
                        meeting.canonical # "refined"
                 PROVE  FALSE
      BY <1>1 DEF FinishAt, Unfinished
    <3>1. faults <= 1
      BY <1>0, <1>4 DEF NoFault, Fault, TypeInv
    <3>2. run[w].last = "complete"
      BY <1>0, <3>1 DEF FinishAt, Unfinished
    <3>. QED  BY <1>4, <3>2
  <2>. QED  BY <1>0, <1>1, <1>3, <1>4, <2>1, ThrowMoves DEF TypeInv
<1>5. CASE run' = [run EXCEPT ![w].pc = "reconciling"] /\ UNCHANGED pass /\ NoFault
           /\ answer = "complete" /\ owner' \in Windows \union {NoWindow}
  <2>1. /\ run' \in [Windows -> {Idle} \union Run] /\ \A v \in Windows \ {w} : run'[v] = run[v]
        /\ run'[w].pc = "reconciling" /\ run'[w].last = run[w].last /\ run'[w].job = run[w].job
        /\ run'[w].saved = run[w].saved /\ run'[w] # Idle
    BY <1>0, <1>5 DEF Run, TypeInv, Idle
  <2>2. RunOk(run[w])'
    BY <1>0, <1>1, <1>2, <1>3, <1>5, <2>1 DEF RunOk, Savable, Refused
  <2>3. FinishAt(w) => FinishAt(w)'
    BY <1>0, <1>1, <1>5, <2>1 DEF FinishAt, Unfinished, NoFault
  <2>. QED  BY <1>0, <1>1, <1>3, <1>5, <2>1, <2>2, <2>3 DEF RunMove, NoFault, TypeInv
<1>. QED  BY <1>0, <1>2, <1>4, <1>5 DEF Poll, TypeInv

LEMMA SaveReconcilingMoves ==
    ASSUME RefinementIInv, NEW w \in Windows, SaveReconciling(w)
    PROVE  RunMove(w)
<1> DEFINE value == [run[w].job EXCEPT !.status = "reconciling"]
<1>1. /\ run[w] # Idle /\ run[w].pc = "reconciling" /\ run[w] \in Run /\ RunOk(run[w])
      /\ UpdateJob(w, "reconciling", value, "apply")
  BY RunTyped DEF SaveReconciling, UpdateJob, RefinementIInv, SettledInv
<1>2. value \in JobInMemory /\ value.attempts = run[w].job.attempts /\ value.status = "reconciling"
  BY <1>1 DEF Run, JobInMemory, JobStatus, ActiveStatus
<1>3. Savable(value)
  BY <1>2 DEF Savable, Refused
<1> HIDE DEF value
<1>. QED  BY <1>1, <1>2, <1>3, UpdateJobMoves DEF RunOk

LEMMA SaveCompleteMoves ==
    ASSUME RefinementIInv, NEW w \in Windows, SaveComplete(w)
    PROVE  RunMove(w)
<1> DEFINE value == [run[w].job EXCEPT !.status = "complete"]
<1>1. /\ run[w] # Idle /\ run[w].pc = "finish" /\ run[w] \in Run /\ RunOk(run[w])
      /\ UpdateJob(w, "finish", value, "idle")
  BY RunTyped DEF SaveComplete, UpdateJob, RefinementIInv, SettledInv
<1>2. value \in JobInMemory /\ value.attempts = run[w].job.attempts /\ value.status = "complete"
  BY <1>1 DEF Run, JobInMemory, JobStatus, ActiveStatus
<1>3. Savable(value) /\ meeting.canonical = "refined"
  BY <1>1, <1>2 DEF Savable, Refused, RunOk
<1> HIDE DEF value
<1>. QED  BY <1>1, <1>2, <1>3, UpdateJobMoves

LEMMA SaveFailureMoves ==
    ASSUME RefinementIInv, NEW w \in Windows, SaveFailure(w)
    PROVE  RunMove(w)
<1>1. /\ run[w] # Idle /\ run[w].pc = "failing" /\ run[w].job \in JobInMemory /\ RunOk(run[w])
      /\ UpdateJob(w, "failing", run[w].job, "idle")
  BY RunTyped DEF SaveFailure, UpdateJob, RefinementIInv, SettledInv
<1>2. Savable(run[w].job) /\ run[w].job.status # "complete"
  BY <1>1 DEF RunOk
<1>. QED  BY <1>1, <1>2, UpdateJobMoves

LEMMA ApplyRefinedTranscriptMoves ==
    ASSUME RefinementIInv, NEW w \in Windows, ApplyRefinedTranscript(w)
    PROVE  RunMove(w)
<1> DEFINE Stored == /\ job' \in JobInMemory /\ Savable(job)' /\ job'.attempts = job.attempts
                     /\ meeting' \in MeetingRow /\ meeting'.refinement = job'.status
                     /\ meeting'.canonical = "refined" /\ remote' = "complete"
           commit == job' = [job EXCEPT !.status = "complete"] /\ meeting' = Refined
<1>0. /\ TypeInv /\ SettledInv /\ run[w] \in Run /\ run[w] # Idle /\ RunOk(run[w])
      /\ run[w].pc = "apply" /\ remote = "complete"
  BY RunTyped DEF ApplyRefinedTranscript, RefinementIInv, SettledInv, RunOk
<1>1. UNCHANGED <<remote, owner, Audio, duty, reconciled, restarts>>
  BY DEF ApplyRefinedTranscript
<1>2. ASSUME commit PROVE Stored /\ Grows
  <2>1. /\ job' \in JobInMemory /\ job'.status = "complete" /\ job'.attempts = job.attempts
        /\ meeting' \in MeetingRow /\ meeting'.refinement = "complete"
        /\ meeting'.canonical = "refined"
    BY <1>0, <1>2 DEF TypeInv, JobRow, JobInMemory, MeetingRow, Refined, RefinementStatus,
       JobStatus
  <2>. QED  BY <1>0, <1>1, <2>1 DEF Savable, Refused, Grows
<1>3. CASE commit /\ run' = [run EXCEPT ![w].pc = "finish"] /\ NoFault /\ UNCHANGED pass
  <2>1. /\ run' \in [Windows -> {Idle} \union Run] /\ \A v \in Windows \ {w} : run'[v] = run[v]
        /\ run'[w].pc = "finish" /\ run'[w].last = run[w].last /\ run'[w].job = run[w].job
        /\ run'[w].saved = run[w].saved
    BY <1>0, <1>3 DEF Run, TypeInv
  <2>2. RunOk(run[w])'
    BY <1>0, <1>1, <1>2, <1>3, <2>1 DEF RunOk, Savable, Refused
  <2>3. FinishAt(w)'
    BY <1>2, <1>3 DEF FinishAt, Unfinished
  <2>4. Stored /\ Grows
    BY <1>2, <1>3
  <2> HIDE DEF commit
  <2>. QED  BY <1>0, <1>1, <1>3, <2>1, <2>2, <2>3, <2>4 DEF RunMove, NoFault, TypeInv
<1>4. CASE commit /\ Throw(w, TRUE) /\ Fault
  <2>1. FinishAt(w)' /\ Stored /\ Grows
    BY <1>2, <1>4 DEF FinishAt, Unfinished
  <2> HIDE DEF commit
  <2>. QED  BY <1>0, <1>1, <1>4, <2>1, ThrowMoves DEF TypeInv
<1>5. CASE Throw(w, TRUE) /\ Fault /\ UNCHANGED <<job, meeting>>
  <2>1. FinishAt(w) => FinishAt(w)'
    <3> SUFFICES ASSUME FinishAt(w), restarts = 0, faults' <= 1, job.status = "complete",
                        meeting.canonical # "refined"
                 PROVE  FALSE
      BY <1>1, <1>5 DEF FinishAt, Unfinished
    <3>1. faults <= 1
      BY <1>0, <1>5 DEF Fault, TypeInv
    <3>. QED  BY <1>0, <3>1 DEF FinishAt, Unfinished
  <2>2. Grows
    BY <1>1, <1>5 DEF Grows
  <2>. QED  BY <1>0, <1>1, <1>5, <2>1, <2>2, ThrowMoves DEF TypeInv
<1>. QED  BY <1>3, <1>4, <1>5 DEF ApplyRefinedTranscript

\* Every step of a run keeps the invariant.
LEMMA RunNextInv ==
    ASSUME RefinementIInv, NEW w \in Windows, RunNext(w)
    PROVE  RefinementIInv'
<1>1. RunMove(w)
  BY SaveUploadingMoves, SubmitToGatewayMoves, SaveAcceptedMoves, PollMoves,
     SaveReconcilingMoves, ApplyRefinedTranscriptMoves, SaveCompleteMoves, SaveFailureMoves
  DEF RunNext
<1>. QED  BY <1>1, RunMoveInv

-----------------------------------------------------------------------------
(* The other steps.                                                        *)

\* A step that starts a run at most keeps what is settled.
LEMMA SettledStays ==
    ASSUME TypeInv, SettledInv, Grows, CompleteIsSettled', Refused(job)',
           job'.status = "queued" => job'.gateway,
           meeting'.canonical = "refined" => job'.status # "none",
           \A v \in Windows : run'[v] \in {run[v], Idle} \/ RunOk(run[v])'
    PROVE  SettledInv'
<1>1. ASSUME NEW v \in Windows, run'[v] # Idle PROVE RunOk(run[v])'
  <2> SUFFICES ASSUME run'[v] = run[v] PROVE RunOk(run[v])'
    BY <1>1
  <2>1. run[v] \in Run /\ RunOk(run[v])
    BY <1>1 DEF TypeInv, SettledInv
  <2>2. PICK r \in Run : r = run[v]
    BY <2>1
  <2>3. RunOk(r)'
    BY <2>1, <2>2, RunOkStays
  <2>. QED  BY <2>2, <2>3 DEF RunOk, Savable, Refused
<1>. QED  BY <1>1 DEF SettledInv

\* A step that leaves the job, the runs and the gateway alone.
LEMMA SettledQuiet ==
    ASSUME TypeInv, SettledInv, UNCHANGED <<job, run, remote>>,
           meeting'.canonical = meeting.canonical
    PROVE  SettledInv'
  BY SettledStays DEF Grows, SettledInv, CompleteIsSettled, Refused

\* A step that does not complete the job, and ends no run.
LEMMA FinishAtStays ==
    ASSUME TypeInv, NEW w \in Windows, FinishAt(w), run[w] = Idle \/ run'[w] = run[w],
           NoFault \/ Fault, restarts' = restarts,
           job'.status = "complete" => job.status = "complete",
           meeting'.canonical = meeting.canonical
    PROVE  FinishAt(w)'
<1> SUFFICES ASSUME restarts = 0, faults' <= 1, job.status = "complete",
                    meeting.canonical # "refined"
             PROVE  /\ run'[w] # Idle /\ run'[w].saved
                    /\ \/ run'[w].pc \in {"polling", "reconciling"} /\ run'[w].last = "complete"
                       \/ run'[w].pc = "failing" /\ faults' = 1
  BY DEF FinishAt, Unfinished
<1>1. faults <= 1 /\ (faults = 1 => faults' = 1)
  BY DEF NoFault, Fault, TypeInv
<1>2. /\ run[w] # Idle /\ run[w].saved
      /\ \/ run[w].pc \in {"polling", "reconciling"} /\ run[w].last = "complete"
         \/ run[w].pc = "failing" /\ faults = 1
  BY <1>1 DEF FinishAt, Unfinished
<1>. QED  BY <1>1, <1>2

LEMMA FinishStays ==
    ASSUME TypeInv, FinishInv, \A w \in Windows : run[w] = Idle \/ run'[w] = run[w],
           NoFault \/ Fault, restarts' = restarts,
           job'.status = "complete" => job.status = "complete",
           meeting'.canonical = meeting.canonical
    PROVE  FinishInv'
<1> SUFFICES ASSUME Unfinished' PROVE \E w \in Windows : FinishAt(w)'
  BY DEF FinishInv
<1>1. Unfinished
  BY DEF Unfinished, NoFault, Fault, TypeInv
<1>2. PICK w \in Windows : FinishAt(w)
  BY <1>1 DEF FinishInv
<1>. QED  BY <1>2, FinishAtStays

\* jobBase: a first attempt, or one more unless the gateway has the job.
LEMMA FirstJobFacts ==
    ASSUME NEW old \in JobRow
    PROVE  /\ FirstJob(old) \in JobInMemory /\ FirstJob(old).status = "uploading"
           /\ old = NoJob => FirstJob(old).attempts = 1
           /\ Counted(old) /\ MaxAttempts > 1 /\ restarts \in Nat
              /\ (old = NoJob \/ old.status \in {"queued", "retry_wait"})
                 => FirstJob(old).attempts <= MaxAttempts + restarts
  BY RefinementAssumption DEF FirstJob, JobRow, JobInMemory, JobStatus, ActiveStatus, Counted, NoJob

\* submitRefinement starts a run in an idle window only.
LEMMA SubmitFacts ==
    ASSUME TypeInv, NEW w \in Windows, NEW old \in JobRow, NEW by \in {"meeting", "retry", "pass"},
           Submit(w, old, by)
    PROVE  /\ run' \in [Windows -> {Idle} \union Run]
           /\ \A v \in Windows \ {w} : run'[v] = run[v]
           /\ run[w] # Idle => run'[w] = run[w]
           /\ run[w] = Idle => /\ run'[w] \in Run /\ run'[w] # Idle /\ run'[w].job = FirstJob(old)
                               /\ RunOk(run[w])'
<1>1. CASE run[w] # Idle
  BY <1>1 DEF Submit, TypeInv
<1>2. CASE run[w] = Idle
  <2> DEFINE r == [pc |-> "uploading", by |-> by, saved |-> old # NoJob, job |-> FirstJob(old),
                   last |-> "none"]
  <2>1. r \in Run /\ r # Idle /\ r.pc = "uploading" /\ r.last = "none" /\ r.job = FirstJob(old)
    BY FirstJobFacts DEF Run, Idle
  <2>2. run' = [run EXCEPT ![w] = r]
    BY <1>2 DEF Submit
  <2> HIDE DEF r
  <2>3. run'[w] = r
    BY <2>2 DEF TypeInv
  <2>4. RunOk(run[w])'
    BY <2>1, <2>3, FirstJobFacts, RefinementAssumption DEF RunOk, Savable, Refused
  <2>. QED  BY <1>2, <2>1, <2>2, <2>3, <2>4 DEF TypeInv
<1>. QED  BY <1>1, <1>2

\* stopMeeting finds nothing started.
LEMMA StopMeetingInv ==
    ASSUME RefinementIInv, NEW w \in Windows, StopMeeting(w)
    PROVE  RefinementIInv'
<1>0. /\ TypeInv /\ SettledInv /\ LaunchInv /\ capturing # NoWindow /\ capturing' = NoWindow
      /\ UNCHANGED <<meeting, job, remote, owner, offered, acked, run, pass, reconciled, restarts>>
      /\ NoFault \/ Fault
  BY RefinementAssumption DEF RefinementIInv, StopMeeting
<1>1. PICK d \in Duty : duty' = [duty EXCEPT ![w] = d] /\ d.pc = "update"
  <2>1. PICK flushed \in BOOLEAN, interrupted \in BOOLEAN :
          duty' = [duty EXCEPT ![w] =
               [pc |-> "update", submit |-> flushed,
                status |-> IF interrupted \/ ~flushed THEN "interrupted" ELSE "complete",
                refinement |-> IF flushed THEN "queued" ELSE "retry_wait"]]
    BY DEF StopMeeting
  <2> DEFINE d == [pc |-> "update", submit |-> flushed,
                   status |-> IF interrupted \/ ~flushed THEN "interrupted" ELSE "complete",
                   refinement |-> IF flushed THEN "queued" ELSE "retry_wait"]
  <2>2. d \in Duty /\ d.pc = "update"
    BY DEF Duty, MeetingStatus, RefinementStatus, JobStatus, ActiveStatus
  <2>. QED  BY <2>1, <2>2
<1>2. TypeInv'
  BY <1>0, <1>1 DEF TypeInv, NoFault, Fault
<1>3. SettledInv'
  BY <1>0, SettledQuiet
<1>4. LaunchInv'
  <2> SUFFICES ASSUME restarts = 0 PROVE LaunchInv'
    BY <1>0 DEF LaunchInv
  <2>1. \A v \in Windows : duty[v] = Idle
    BY <1>0 DEF LaunchInv
  <2>2. \A v \in Windows \ {w} : duty'[v] = Idle
    BY <1>0, <1>1, <2>1 DEF TypeInv
  <2>3. Untouched'
    BY <1>0 DEF LaunchInv, Untouched
  <2>. QED  BY <1>0, <2>2, <2>3 DEF LaunchInv
<1>5. FinishInv' /\ ((OneWindow /\ MaxAttempts > 1) => AttemptsInv')
  BY <1>0, FinishStays DEF RefinementIInv, AttemptsInv, Counted
<1>. QED  BY <1>2, <1>3, <1>4, <1>5 DEF RefinementIInv

\* recoverCapturedMeetings has audio to offer in a later launch only.
LEMMA RecoverCapturedInv ==
    ASSUME RefinementIInv, NEW w \in Windows, RecoverCaptured(w)
    PROVE  RefinementIInv'
<1>0. /\ TypeInv /\ SettledInv /\ LaunchInv /\ offered
      /\ UNCHANGED <<meeting, job, remote, owner, Audio, run, pass, reconciled, faults, restarts>>
  BY DEF RefinementIInv, RecoverCaptured
<1>1. PICK d \in Duty : duty' = [duty EXCEPT ![w] = d]
  <2> DEFINE writes == meeting.status = "recording" \/ ~meeting.ended
             d == [pc |-> IF writes \/ CanEnqueue THEN "update" ELSE "acknowledge",
                   submit |-> CanEnqueue,
                   status |-> IF meeting.status = "recording" THEN "interrupted" ELSE "",
                   refinement |-> IF CanEnqueue THEN "queued" ELSE ""]
  <2>1. CanEnqueue \in BOOLEAN
    BY DEF CanEnqueue
  <2>2. d \in Duty
    BY <2>1 DEF Duty, MeetingStatus, RefinementStatus, JobStatus, ActiveStatus
  <2>3. duty' = [duty EXCEPT ![w] = d]
    BY DEF RecoverCaptured
  <2>. QED  BY <2>2, <2>3
<1>2. TypeInv'
  BY <1>0, <1>1 DEF TypeInv, Audio
<1>3. SettledInv'
  BY <1>0, SettledQuiet
<1>4. LaunchInv'
  BY <1>0 DEF LaunchInv
<1>5. FinishInv' /\ ((OneWindow /\ MaxAttempts > 1) => AttemptsInv')
  BY <1>0, FinishStays DEF RefinementIInv, AttemptsInv, Counted, NoFault
<1>. QED  BY <1>2, <1>3, <1>4, <1>5 DEF RefinementIInv

LEMMA UpdateMeetingReadsInv ==
    ASSUME RefinementIInv, NEW w \in Windows, UpdateMeetingReads(w)
    PROVE  RefinementIInv'
<1>0. /\ TypeInv /\ SettledInv /\ LaunchInv /\ duty[w].pc = "update" /\ duty[w] \in Duty
      /\ UNCHANGED <<meeting, job, remote, owner, Audio, run, pass, reconciled, restarts>>
      /\ NoFault \/ Fault
  <2>1. /\ TypeInv /\ SettledInv /\ LaunchInv /\ duty[w].pc = "update"
        /\ UNCHANGED <<meeting, job, remote, owner, Audio, run, pass, reconciled, restarts>>
        /\ NoFault \/ Fault
    BY DEF RefinementIInv, UpdateMeetingReads
  <2>. QED  BY <2>1 DEF TypeInv, Idle
<1>1. PICK d \in Duty \union {Idle} : duty' = [duty EXCEPT ![w] = d]
  <2>1. CASE GivesUp(w)
    BY <2>1 DEF GivesUp
  <2>2. CASE ~GivesUp(w)
    BY <1>0, <2>2 DEF UpdateMeetingReads, Duty, TypeInv, MeetingRow
  <2>. QED  BY <2>1, <2>2
<1>2. TypeInv'
  BY <1>0, <1>1 DEF TypeInv, NoFault, Fault, Audio
<1>3. SettledInv'
  BY <1>0, SettledQuiet
<1>4. LaunchInv'
  <2> SUFFICES ASSUME restarts = 0 PROVE LaunchInv'
    BY <1>0 DEF LaunchInv
  <2>1. Untouched /\ capturing = NoWindow /\ \A v \in Windows \ {w} : duty[v] = Idle
    BY <1>0 DEF LaunchInv, Writes, Idle
  <2>2. \A v \in Windows \ {w} : duty'[v] = Idle
    BY <1>0, <1>1, <2>1 DEF TypeInv
  <2>3. Untouched'
    BY <1>0, <2>1 DEF Untouched
  <2>. QED  BY <1>0, <2>1, <2>2, <2>3 DEF LaunchInv, Audio
<1>5. FinishInv' /\ ((OneWindow /\ MaxAttempts > 1) => AttemptsInv')
  BY <1>0, FinishStays DEF RefinementIInv, AttemptsInv, Counted
<1>. QED  BY <1>2, <1>3, <1>4, <1>5 DEF RefinementIInv

\* In the first launch the patch is written before anything is started.
LEMMA UpdateMeetingWritesInv ==
    ASSUME RefinementIInv, NEW w \in Windows, UpdateMeetingWrites(w)
    PROVE  RefinementIInv'
<1>0. /\ TypeInv /\ SettledInv /\ LaunchInv /\ duty[w].pc = "write" /\ duty[w] \in Duty
      /\ UNCHANGED <<job, remote, owner, Audio, run, pass, reconciled, restarts>>
      /\ NoFault \/ Fault
  BY DEF RefinementIInv, UpdateMeetingWrites, TypeInv, Idle
<1>1. PICK d \in Duty \union {Idle} : duty' = [duty EXCEPT ![w] = d] /\ d.pc \notin {"update", "write"}
  <2>1. CASE GivesUp(w)
    <3>1. duty' = [duty EXCEPT ![w] = Idle] /\ Idle.pc \notin {"update", "write"}
      BY <2>1 DEF GivesUp, Idle
    <3>. QED  BY <3>1
  <2>2. CASE duty' = [duty EXCEPT ![w].pc = "acknowledge"]
    <3> DEFINE d == [duty[w] EXCEPT !.pc = "acknowledge"]
    <3>1. d \in Duty /\ d.pc = "acknowledge"
      BY <1>0 DEF Duty
    <3>2. duty' = [duty EXCEPT ![w] = d]
      BY <1>0, <2>2 DEF TypeInv
    <3>. QED  BY <3>1, <3>2
  <2>. QED  BY <2>1, <2>2 DEF UpdateMeetingWrites
<1>2. meeting' \in MeetingRow /\ meeting'.canonical = meeting.canonical
  <2>1. CASE UNCHANGED meeting
    BY <1>0, <2>1 DEF TypeInv
  <2>2. CASE meeting' = [meeting EXCEPT !.status = duty[w].status, !.ended = TRUE,
                                        !.refinement = duty[w].refinement]
    BY <1>0, <2>2 DEF TypeInv, MeetingRow, Duty
  <2>. QED  BY <2>1, <2>2 DEF UpdateMeetingWrites
<1>3. TypeInv'
  BY <1>0, <1>1, <1>2 DEF TypeInv, NoFault, Fault, Audio
<1>4. SettledInv'
  BY <1>0, <1>2, SettledQuiet
<1>5. LaunchInv'
  <2> SUFFICES ASSUME restarts = 0 PROVE LaunchInv'
    BY <1>0 DEF LaunchInv
  <2>1. /\ Untouched /\ capturing = NoWindow /\ \A v \in Windows \ {w} : duty[v] = Idle
        /\ ~offered
    BY <1>0 DEF LaunchInv, Writes, Idle
  <2>2. /\ \A v \in Windows \ {w} : duty'[v] = Idle
        /\ \A v \in Windows : ~Writes(v)'
    BY <1>0, <1>1, <2>1 DEF TypeInv, Writes, Idle
  <2>3. job'.status = "none"
    BY <1>0, <2>1 DEF Untouched, NoJob
  <2>. QED  BY <1>0, <2>1, <2>2, <2>3 DEF LaunchInv, Audio
<1>6. FinishInv' /\ ((OneWindow /\ MaxAttempts > 1) => AttemptsInv')
  BY <1>0, <1>2, FinishStays DEF RefinementIInv, AttemptsInv, Counted
<1>. QED  BY <1>3, <1>4, <1>5, <1>6 DEF RefinementIInv

\* A run is started at most; the rows stay.
LEMMA SubmitKeepsSettled ==
    ASSUME TypeInv, SettledInv, NEW w \in Windows, NEW old \in JobRow,
           NEW by \in {"meeting", "retry", "pass"}, Submit(w, old, by),
           UNCHANGED <<job, meeting, remote>>
    PROVE  SettledInv'
<1>1. \A v \in Windows : run'[v] \in {run[v], Idle} \/ RunOk(run[v])'
  BY SubmitFacts
<1>. QED  BY <1>1, SettledStays DEF Grows, SettledInv, CompleteIsSettled, Refused

\* Nor does a submission end a run.
LEMMA SubmitKeepsFinish ==
    ASSUME TypeInv, FinishInv, NEW w \in Windows, NEW old \in JobRow,
           NEW by \in {"meeting", "retry", "pass"}, Submit(w, old, by),
           NoFault \/ Fault, UNCHANGED <<job, meeting, restarts>>
    PROVE  FinishInv'
<1>1. \A v \in Windows : run[v] = Idle \/ run'[v] = run[v]
  BY SubmitFacts
<1>. QED  BY <1>1, FinishStays

\* A submission in the single window: the first attempt, or that of a job it may count.
LEMMA SubmitKeepsCounts ==
    ASSUME RefinementIInv, OneWindow, MaxAttempts > 1, NEW w \in Windows, NEW old \in JobRow,
           NEW by \in {"meeting", "retry", "pass"}, Submit(w, old, by),
           old = NoJob \/ (reconciled[w] /\ Counted(old) /\ old.status \in {"queued", "retry_wait"}),
           NoFault \/ Fault, UNCHANGED <<job, meeting, reconciled, restarts>>,
           pass'[w] = pass[w] \/ (reconciled[w] /\ pass'[w].pc # "jobs")
    PROVE  AttemptsInv'
<1>1. /\ Windows = {w} /\ AttemptsInv /\ TypeInv /\ restarts \in Nat
      /\ MaxAttempts \in Nat
  BY RefinementAssumption DEF OneWindow, RefinementIInv, TypeInv
<1>2. CASE run[w] # Idle
  <2>1. run'[w] = run[w]
    BY <1>1, <1>2, SubmitFacts
  <2>. QED  BY <1>1, <2>1 DEF AttemptsInv, Counted
<1>3. CASE run[w] = Idle
  <2>1. run'[w].job = FirstJob(old)
    BY <1>1, <1>3, SubmitFacts
  <2>2. /\ FirstJob(old).attempts <= MaxAttempts + restarts
        /\ ~reconciled[w] => FirstJob(old).attempts = 1
    <3>1. CASE old = NoJob
      BY <1>1, <3>1, FirstJobFacts
    <3>2. CASE old # NoJob
      BY <1>1, <3>2, FirstJobFacts
    <3>. QED  BY <3>1, <3>2
  <2>. QED  BY <1>1, <2>1, <2>2 DEF AttemptsInv, Counted
<1>. QED  BY <1>2, <1>3

\* The patch was written before the audio is acknowledged and the refinement started.
LEMMA AcknowledgeInv ==
    ASSUME RefinementIInv, NEW w \in Windows, Acknowledge(w)
    PROVE  RefinementIInv'
<1>0. /\ TypeInv /\ SettledInv /\ LaunchInv /\ duty[w] # Idle
      /\ duty' = [duty EXCEPT ![w] = Idle]
      /\ UNCHANGED <<meeting, job, remote, owner, capturing, pass, reconciled, restarts>>
      /\ NoFault \/ Fault
      /\ offered' \in {offered, FALSE} /\ acked' \in BOOLEAN
      /\ UNCHANGED run \/ Submit(w, NoJob, "meeting")
  <2>1. TypeInv /\ SettledInv /\ LaunchInv
    BY DEF RefinementIInv
  <2>2. /\ duty[w].pc = "acknowledge" /\ duty' = [duty EXCEPT ![w] = Idle]
        /\ UNCHANGED <<meeting, job, remote, owner, capturing, pass, reconciled, restarts>>
        /\ \/ /\ offered' = FALSE /\ acked' = TRUE /\ NoFault
              /\ UNCHANGED run \/ Submit(w, NoJob, "meeting")
           \/ Fault /\ UNCHANGED <<offered, acked, run>>
    BY DEF Acknowledge, GivesUp
  <2>3. acked \in BOOLEAN /\ duty[w] # Idle
    BY <2>1, <2>2 DEF TypeInv, Idle
  <2>. QED  BY <2>1, <2>2, <2>3
<1>1. NoJob \in JobRow
  BY DEF NoJob, JobRow
<1>2. run' \in [Windows -> {Idle} \union Run]
  BY <1>0, <1>1, SubmitFacts DEF TypeInv
<1>3. TypeInv'
  <2>1. offered' \in BOOLEAN
    BY <1>0, Zenon DEF TypeInv
  <2>2. faults' \in Nat
    BY <1>0 DEF TypeInv, NoFault, Fault
  <2>. QED  BY <1>0, <1>2, <2>1, <2>2 DEF TypeInv
<1>4. SettledInv'
  BY <1>0, <1>1, SettledQuiet, SubmitKeepsSettled
<1>5. LaunchInv'
  <2> SUFFICES ASSUME restarts = 0 PROVE LaunchInv'
    BY <1>0 DEF LaunchInv
  <2>1. capturing = NoWindow /\ ~offered /\ \A v \in Windows \ {w} : duty[v] = Idle
    BY <1>0 DEF LaunchInv
  <2>2. \A v \in Windows : duty'[v] = Idle
    BY <1>0, <2>1 DEF TypeInv
  <2>3. \A v \in Windows : ~Writes(v)'
    BY <2>2 DEF Writes, Idle
  <2>. QED  BY <1>0, <2>1, <2>2, <2>3 DEF LaunchInv
<1>6. FinishInv'
  BY <1>0, <1>1, FinishStays, SubmitKeepsFinish DEF RefinementIInv
<1>7. ASSUME OneWindow, MaxAttempts > 1
      PROVE  AttemptsInv'
  <2>1. CASE UNCHANGED run
    BY <1>0, <1>7, <2>1 DEF RefinementIInv, AttemptsInv, Counted
  <2>2. CASE Submit(w, NoJob, "meeting")
    BY <1>0, <1>1, <1>7, <2>2, SubmitKeepsCounts
  <2>. QED  BY <1>0, <2>1, <2>2
<1>. QED  BY <1>3, <1>4, <1>5, <1>6, <1>7 DEF RefinementIInv

\* The Retry button shows once a refinement has failed.
LEMMA RetryRefinementInv ==
    ASSUME RefinementIInv, NEW w \in Windows, RetryRefinement(w)
    PROVE  RefinementIInv'
<1>0. /\ TypeInv /\ SettledInv /\ LaunchInv /\ meeting.refinement = "failed"
      /\ Submit(w, NoJob, "retry")
      /\ UNCHANGED <<meeting, job, remote, owner, Audio, duty, pass, reconciled, faults, restarts>>
  BY DEF RefinementIInv, RetryRefinement
<1>1. NoJob \in JobRow
  BY DEF NoJob, JobRow
<1>2. run' \in [Windows -> {Idle} \union Run]
  BY <1>0, <1>1, SubmitFacts
<1>3. TypeInv'
  BY <1>0, <1>2 DEF TypeInv, Audio
<1>4. SettledInv'
  BY <1>0, <1>1, SubmitKeepsSettled
<1>5. LaunchInv'
  <2> SUFFICES ASSUME restarts = 0 PROVE LaunchInv'
    BY <1>0 DEF LaunchInv
  <2>1. ~Untouched
    BY <1>0 DEF Untouched
  <2>2. \A v \in Windows : ~Writes(v)'
    BY <1>0, <2>1 DEF LaunchInv, Writes
  <2>. QED  BY <1>0, <2>1, <2>2 DEF LaunchInv, Audio
<1>6. FinishInv' /\ ((OneWindow /\ MaxAttempts > 1) => AttemptsInv')
  BY <1>0, <1>1, SubmitKeepsFinish, SubmitKeepsCounts DEF NoFault, RefinementIInv
<1>. QED  BY <1>3, <1>4, <1>5, <1>6 DEF RefinementIInv

\* The startup pass turns interrupted work into work to retry.
LEMMA RecoverMeetingJobsInv ==
    ASSUME RefinementIInv, NEW w \in Windows, RecoverMeetingJobs(w)
    PROVE  RefinementIInv'
<1>0. /\ TypeInv /\ SettledInv /\ LaunchInv /\ pass[w] = Idle
      /\ UNCHANGED <<remote, owner, Audio, duty, run, restarts>>
      /\ NoFault \/ Fault
  BY DEF RefinementIInv, RecoverMeetingJobs
<1>1. \/ UNCHANGED job
      \/ /\ ~reconciled[w] /\ job.status \in Interrupted
         /\ job' = [job EXCEPT !.status = "retry_wait"]
  BY DEF RecoverMeetingJobs
<1>2. UNCHANGED meeting \/ meeting' = [meeting EXCEPT !.status = "interrupted"]
  BY DEF RecoverMeetingJobs
<1>3. \/ UNCHANGED <<reconciled, pass>>
      \/ /\ reconciled' = [reconciled EXCEPT ![w] = TRUE]
         /\ \E listed \in BOOLEAN : pass' = [pass EXCEPT ![w] = [pc |-> "read", listed |-> listed]]
  BY DEF RecoverMeetingJobs
<1>4. /\ job' \in JobRow /\ job'.attempts = job.attempts /\ job'.gateway = job.gateway
      /\ \/ job'.status = job.status
         \/ /\ job'.status = "retry_wait" /\ ~reconciled[w]
            /\ job.status \in {"uploading", "processing", "reconciling"}
  BY <1>0, <1>1 DEF TypeInv, JobRow, Interrupted, JobStatus, ActiveStatus
<1>5. /\ meeting' \in MeetingRow /\ meeting'.canonical = meeting.canonical
      /\ meeting'.refinement = meeting.refinement
  BY <1>0, <1>2 DEF TypeInv, MeetingRow, MeetingStatus
<1>6. /\ pass' \in [Windows -> {Idle} \union Pass] /\ reconciled' \in [Windows -> BOOLEAN]
      /\ \A v \in Windows \ {w} : pass'[v] = pass[v] /\ reconciled'[v] = reconciled[v]
      /\ \/ pass'[w] = pass[w] /\ reconciled'[w] = reconciled[w]
         \/ pass'[w].pc = "read" /\ reconciled'[w]
  <2>1. CASE UNCHANGED <<reconciled, pass>>
    BY <1>0, <2>1 DEF TypeInv
  <2>2. ASSUME NEW listed \in BOOLEAN, reconciled' = [reconciled EXCEPT ![w] = TRUE],
               pass' = [pass EXCEPT ![w] = [pc |-> "read", listed |-> listed]]
        PROVE  /\ pass' \in [Windows -> {Idle} \union Pass] /\ reconciled' \in [Windows -> BOOLEAN]
               /\ \A v \in Windows \ {w} : pass'[v] = pass[v] /\ reconciled'[v] = reconciled[v]
               /\ pass'[w].pc = "read" /\ reconciled'[w]
    BY <1>0, <2>2 DEF TypeInv, Pass
  <2>. QED  BY <1>3, <2>1, <2>2
<1>7. TypeInv'
  BY <1>0, <1>4, <1>5, <1>6 DEF TypeInv, NoFault, Fault, Audio
<1>8. SettledInv'
  BY <1>0, <1>4, <1>5, SettledStays DEF Grows, SettledInv, CompleteIsSettled, Refused
<1>9. LaunchInv'
  <2> SUFFICES ASSUME restarts = 0 PROVE LaunchInv'
    BY <1>0 DEF LaunchInv
  <2>1. Untouched => Untouched'
    <3> SUFFICES ASSUME Untouched PROVE Untouched'
      OBVIOUS
    <3>1. job' = NoJob
      BY <1>1 DEF Untouched, NoJob, Interrupted
    <3>. QED  BY <1>0, <1>5, <1>6, <3>1 DEF Untouched
  <2>2. job'.status \in {"complete", "failed"} => meeting'.refinement = job'.status
    BY <1>4, <1>5 DEF LaunchInv, RefinementIInv
  <2>. QED  BY <1>0, <2>1, <2>2 DEF LaunchInv, Audio, Writes
<1>10. FinishInv'
  BY <1>0, <1>4, <1>5, FinishStays DEF RefinementIInv
<1>11. ASSUME OneWindow, MaxAttempts > 1
       PROVE  AttemptsInv'
  <2>1. Windows = {w} /\ AttemptsInv /\ restarts \in Nat /\ MaxAttempts \in Nat
    BY <1>11, RefinementAssumption DEF OneWindow, RefinementIInv, TypeInv
  <2>2. Counted(job)' /\ (~reconciled[w] => job'.attempts < MaxAttempts + restarts)
    BY <1>0, <1>4, <2>1 DEF AttemptsInv, Counted
  <2>. QED  BY <1>0, <1>6, <2>1, <2>2 DEF AttemptsInv, Counted
<1>. QED  BY <1>7, <1>8, <1>9, <1>10, <1>11 DEF RefinementIInv

\* What a pass has read is what the rows say.
LEMMA ReadMeetingsInv ==
    ASSUME RefinementIInv, NEW w \in Windows, ReadMeetings(w)
    PROVE  RefinementIInv'
<1>0. /\ TypeInv /\ SettledInv /\ LaunchInv /\ pass[w].pc = "read"
      /\ UNCHANGED <<meeting, job, remote, owner, Audio, duty, run, reconciled, restarts>>
      /\ NoFault \/ Fault
  BY DEF RefinementIInv, ReadMeetings
<1>1. pass[w] # Idle /\ pass[w] \in [pc : {"read"}, listed : BOOLEAN]
  BY <1>0 DEF TypeInv, Idle, Pass
<1>2. PICK p \in Pass \union {Idle} :
        /\ pass' = [pass EXCEPT ![w] = p] /\ p.pc # "running"
        /\ p.pc = "jobs" => p.job = job /\ p.meeting = meeting
  <2>1. CASE pass' = [pass EXCEPT ![w] = Idle]
    <3>1. Idle.pc = "idle"
      BY DEF Idle
    <3>. QED  BY <2>1, <3>1
  <2>2. CASE pass' = [pass EXCEPT ![w] = [pc |-> "jobs", listed |-> pass[w].listed,
                                          job |-> job, meeting |-> meeting]]
    <3> DEFINE p == [pc |-> "jobs", listed |-> pass[w].listed, job |-> job, meeting |-> meeting]
    <3>1. p \in Pass /\ p.pc = "jobs" /\ p.job = job /\ p.meeting = meeting
      BY <1>0, <1>1 DEF TypeInv, Pass
    <3>2. pass' = [pass EXCEPT ![w] = p]
      BY <2>2
    <3> HIDE DEF p
    <3>. QED  BY <3>1, <3>2
  <2>. QED  BY <2>1, <2>2 DEF ReadMeetings
<1>3. pass'[w] = p /\ \A v \in Windows \ {w} : pass'[v] = pass[v]
  BY <1>0, <1>2 DEF TypeInv
<1>4. TypeInv'
  BY <1>0, <1>2 DEF TypeInv, NoFault, Fault, Audio
<1>5. SettledInv'
  BY <1>0, SettledQuiet
<1>6. LaunchInv'
  <2> SUFFICES ASSUME restarts = 0 PROVE LaunchInv'
    BY <1>0 DEF LaunchInv
  <2>1. Untouched => Untouched'
    BY <1>0, <1>2, <1>3 DEF Untouched
  <2>. QED  BY <1>0, <2>1 DEF LaunchInv, Audio, Writes
<1>7. FinishInv'
  BY <1>0, FinishStays DEF RefinementIInv
<1>8. ASSUME OneWindow, MaxAttempts > 1
      PROVE  AttemptsInv'
  <2>1. Windows = {w} /\ AttemptsInv
    BY <1>8 DEF OneWindow, RefinementIInv
  <2>. QED  BY <1>0, <1>1, <1>2, <1>3, <2>1 DEF AttemptsInv, Counted
<1>. QED  BY <1>4, <1>5, <1>6, <1>7, <1>8 DEF RefinementIInv

\* A pass finds nothing to resume or start while nothing has been started.
LEMMA ResumeRefinementInv ==
    ASSUME RefinementIInv, NEW w \in Windows, ResumeRefinement(w)
    PROVE  RefinementIInv'
<1> DEFINE read == pass[w]
           resumes == read.listed /\ read.job.status \in {"queued", "retry_wait"}
           starts == ~read.listed /\ ResumableWithoutJob(read.meeting, read.job)
           old == IF resumes THEN read.job ELSE NoJob
<1>0. /\ TypeInv /\ SettledInv /\ LaunchInv /\ pass[w].pc = "jobs"
      /\ UNCHANGED <<meeting, job, remote, owner, Audio, duty, reconciled, faults, restarts>>
  BY DEF RefinementIInv, ResumeRefinement
<1>1. pass[w] # Idle /\ read.job \in JobRow /\ old \in JobRow
  <2>1. pass[w] # Idle /\ read.job \in JobRow
    BY <1>0 DEF TypeInv, Idle, Pass
  <2>2. NoJob \in JobRow
    BY DEF NoJob, JobRow
  <2>. QED  BY <2>1, <2>2
<1>2. \/ /\ resumes \/ starts
         /\ Submit(w, old, "pass") /\ pass' = [pass EXCEPT ![w] = [pc |-> "running"]]
      \/ pass' = [pass EXCEPT ![w] = Idle] /\ UNCHANGED run
  BY DEF ResumeRefinement
<1>3. /\ pass' \in [Windows -> {Idle} \union Pass]
      /\ \A v \in Windows \ {w} : pass'[v] = pass[v]
      /\ pass'[w].pc # "jobs"
      /\ pass'[w].pc = "running" => resumes \/ starts
      /\ run' = run \/ resumes \/ starts
  BY <1>0, <1>2 DEF TypeInv, Pass, Idle
<1>4. run' \in [Windows -> {Idle} \union Run]
  BY <1>0, <1>1, <1>2, SubmitFacts DEF TypeInv
<1>5. TypeInv'
  BY <1>0, <1>3, <1>4 DEF TypeInv, Audio
<1>6. SettledInv'
  BY <1>0, <1>1, <1>2, SettledQuiet, SubmitKeepsSettled
<1>7. LaunchInv'
  <2> SUFFICES ASSUME restarts = 0 PROVE LaunchInv'
    BY <1>0 DEF LaunchInv
  <2>1. Untouched => Untouched'
    <3> SUFFICES ASSUME Untouched PROVE Untouched'
      OBVIOUS
    <3>1. ~resumes /\ ~starts
      BY <1>0 DEF Untouched, NoJob, ResumableWithoutJob
    <3>. QED  BY <1>0, <1>3, <3>1 DEF Untouched
  <2>. QED  BY <1>0, <2>1 DEF LaunchInv, Audio, Writes
<1>8. FinishInv'
  BY <1>0, <1>1, <1>2, FinishStays, SubmitKeepsFinish DEF RefinementIInv, NoFault
<1>9. ASSUME OneWindow, MaxAttempts > 1
      PROVE  AttemptsInv'
  <2>1. Windows = {w} /\ AttemptsInv /\ reconciled[w] /\ Counted(read.job)
    BY <1>0, <1>1, <1>9 DEF OneWindow, RefinementIInv, AttemptsInv
  <2>2. CASE UNCHANGED run
    BY <1>0, <1>3, <2>1, <2>2 DEF AttemptsInv, Counted
  <2>3. CASE Submit(w, old, "pass")
    <3>1. old = NoJob \/ (Counted(old) /\ old.status \in {"queued", "retry_wait"})
      BY <2>1
    <3> HIDE DEF old
    <3>. QED  BY <1>0, <1>1, <1>3, <1>9, <2>1, <2>3, <3>1, SubmitKeepsCounts DEF NoFault
  <2>. QED  BY <1>2, <2>2, <2>3
<1>. QED  BY <1>5, <1>6, <1>7, <1>8, <1>9 DEF RefinementIInv

\* A launch finds no run, and may count an attempt that the last one counted.
LEMMA RestartInv ==
    ASSUME RefinementIInv, Restart
    PROVE  RefinementIInv'
<1>0. /\ TypeInv /\ SettledInv
      /\ restarts' = restarts + 1 /\ restarts \in Nat
      /\ UNCHANGED <<meeting, job, remote, acked, faults>>
  BY DEF RefinementIInv, Restart, TypeInv
<1>1. /\ run' = [v \in Windows |-> Idle] /\ pass' = [v \in Windows |-> Idle]
      /\ duty' = [v \in Windows |-> Idle] /\ reconciled' = [v \in Windows |-> FALSE]
  BY DEF Restart
<1>2. TypeInv'
  <2>1. /\ capturing' = NoWindow /\ owner' = NoWindow /\ offered' \in BOOLEAN
    BY DEF Restart
  <2>. QED  BY <1>0, <1>1, <2>1 DEF TypeInv
<1>3. SettledInv'
  BY <1>0, <1>1, SettledStays DEF Grows, SettledInv, CompleteIsSettled, Refused
<1>4. LaunchInv'
  BY <1>0 DEF LaunchInv
<1>5. FinishInv'
  BY <1>0 DEF FinishInv, Unfinished
<1>6. ASSUME OneWindow, MaxAttempts > 1
      PROVE  AttemptsInv'
  <2>1. Counted(job) /\ MaxAttempts \in Nat /\ job.attempts \in Nat
    BY <1>0, <1>6, RefinementAssumption DEF RefinementIInv, AttemptsInv, TypeInv, JobRow
  <2>2. \A v \in Windows : /\ run'[v] = Idle /\ pass'[v] = Idle /\ pass'[v].pc # "jobs"
                           /\ ~reconciled'[v]
    BY <1>1 DEF Idle
  <2>3. Counted(job)' /\ job'.attempts < MaxAttempts + restarts'
    BY <1>0, <2>1 DEF Counted
  <2>. QED  BY <2>2, <2>3 DEF AttemptsInv
<1>. QED  BY <1>2, <1>3, <1>4, <1>5, <1>6 DEF RefinementIInv

\* The gateway settles a job that it has not settled.
LEMMA GatewayWorksInv ==
    ASSUME RefinementIInv, GatewayWorks
    PROVE  RefinementIInv'
<1>0. /\ TypeInv /\ SettledInv /\ LaunchInv
      /\ UNCHANGED <<meeting, job, owner, Audio, duty, run, pass, reconciled, faults, restarts>>
      /\ remote \notin {"none"} \union Settled /\ remote' \in Answers
  BY DEF RefinementIInv, GatewayWorks, Settled, Answers
<1>1. TypeInv'
  BY <1>0 DEF TypeInv, Audio
<1>2. Grows
  BY <1>0 DEF Grows
<1>3. SettledInv'
  BY <1>0, <1>2, SettledStays DEF SettledInv, CompleteIsSettled, Refused, Settled
<1>4. LaunchInv'
  BY <1>0 DEF LaunchInv, Untouched, Writes, Audio
<1>5. FinishInv' /\ ((OneWindow /\ MaxAttempts > 1) => AttemptsInv')
  BY <1>0 DEF RefinementIInv, AttemptsInv, Counted, FinishInv, FinishAt, Unfinished
<1>. QED  BY <1>1, <1>3, <1>4, <1>5 DEF RefinementIInv

\* A meeting that is being recorded has no job.
LEMMA InitInv == Init => RefinementIInv
<1> SUFFICES ASSUME Init PROVE RefinementIInv
  OBVIOUS
<1>1. TypeInv
  BY DEF Init, TypeInv, MeetingRow, MeetingStatus, RefinementStatus, JobRow, NoJob
<1>2. SettledInv
  BY DEF Init, SettledInv, CompleteIsSettled, Refused, NoJob
<1>3. LaunchInv
  BY DEF Init, LaunchInv, Untouched, Writes, NoJob, Idle
<1>4. FinishInv
  BY DEF Init, FinishInv, Unfinished, NoJob
<1>5. ASSUME MaxAttempts > 1 PROVE AttemptsInv
  <2>1. Counted(job) /\ job.attempts = 0 /\ restarts = 0
    BY RefinementAssumption DEF Init, Counted, NoJob
  <2>. QED  BY <1>5, <2>1, RefinementAssumption DEF Init, AttemptsInv, Idle
<1>. QED  BY <1>1, <1>2, <1>3, <1>4, <1>5 DEF RefinementIInv

LEMMA NextInv == RefinementIInv /\ [Next]_vars => RefinementIInv'
<1> SUFFICES ASSUME RefinementIInv, [Next]_vars PROVE RefinementIInv'
  OBVIOUS
<1>1. CASE \E w \in Windows : \/ RunNext(w) \/ DutyNext(w) \/ PassNext(w) \/ StopMeeting(w)
                              \/ RetryRefinement(w)
  BY <1>1, RunNextInv, RecoverCapturedInv, UpdateMeetingReadsInv, UpdateMeetingWritesInv,
     AcknowledgeInv, RecoverMeetingJobsInv, ReadMeetingsInv, ResumeRefinementInv,
     StopMeetingInv, RetryRefinementInv
  DEF DutyNext, PassNext
<1>2. CASE GatewayWorks \/ Restart
  BY <1>2, GatewayWorksInv, RestartInv
<1>3. CASE UNCHANGED vars
  <2>1. UNCHANGED <<meeting, job, remote, owner, capturing, offered, acked, duty, run, pass,
                    reconciled, faults, restarts>>
    BY <1>3 DEF vars
  <2>2. TypeInv'
    BY <2>1 DEF RefinementIInv, TypeInv
  <2>3. SettledInv'
    BY <2>1, SettledQuiet DEF RefinementIInv
  <2>4. LaunchInv'
    BY <2>1 DEF RefinementIInv, LaunchInv, Untouched, Writes
  <2>5. FinishInv' /\ ((OneWindow /\ MaxAttempts > 1) => AttemptsInv')
    BY <2>1 DEF RefinementIInv, AttemptsInv, Counted, FinishInv, FinishAt, Unfinished
  <2>. QED  BY <2>2, <2>3, <2>4, <2>5 DEF RefinementIInv
<1>. QED  BY <1>1, <1>2, <1>3 DEF Next

-----------------------------------------------------------------------------
(* What follows.                                                           *)

\* The inductive invariant: in every launch what was saved, what a run has in memory and
\* what a pass has read agrees with the gateway (submitRefinement, recover).
THEOREM RefinementInvariant == Spec => []RefinementIInv
<1>. QED  BY InitInv, NextInv, PTL DEF Spec

\* Whichever window, pass or launch saves a job as complete, and from whatever it had
\* read before, the gateway has the result by then (submitRefinement,
\* apply_refinement_result); for any number of windows, crashes and failing calls.
THEOREM NothingCompletesEarly == Spec => []CompleteIsSettled
<1>1. RefinementIInv => CompleteIsSettled
  BY DEF RefinementIInv, SettledInv
<1>. QED  BY <1>1, RefinementInvariant, PTL

\* While the application runs and one call at most fails, no job rests complete without
\* its refined transcript, for any number of windows that work on it
\* (runDurableRefinementOperation, submitRefinement, apply_refinement_result).
THEOREM CompleteJobsAreRefined ==
    Spec => [](restarts = 0 /\ faults <= 1 => CompleteIsRefined)
<1>1. RefinementIInv => (restarts = 0 /\ faults <= 1 => CompleteIsRefined)
  BY DEF RefinementIInv, FinishInv, FinishAt, Unfinished, CompleteIsRefined, AtRest
<1>. QED  BY <1>1, RefinementInvariant, PTL

\* In one window, and with more than one automatic attempt (the code's
\* MAX_AUTOMATIC_REFINEMENT_ATTEMPTS is 3), attempts are also counted up to the limit,
\* once more for each crash (jobBase, recover).
THEOREM RefinementIsSound ==
    ASSUME OneWindow, MaxAttempts > 1
    PROVE  Spec => []RefinementInv
<1>1. RefinementIInv /\ (restarts = 0 /\ faults <= 1 => CompleteIsRefined) => RefinementInv
  <2> SUFFICES ASSUME RefinementIInv, restarts = 0 /\ faults <= 1 => CompleteIsRefined
               PROVE  RefinementInv
    OBVIOUS
  <2>1. TypeInv /\ SettledInv /\ AttemptsInv
    BY DEF RefinementIInv
  <2>2. RefinementTypeOK
    <3>1. job.attempts \in 0 .. MaxAttempts + restarts
      BY <2>1, RefinementAssumption DEF TypeInv, AttemptsInv, Counted, JobRow
    <3>2. job \in [status : JobStatus \union {"none"}, attempts : 0 .. MaxAttempts + restarts,
                   gateway : BOOLEAN]
      BY <2>1, <3>1 DEF TypeInv, JobRow
    <3>. QED  BY <2>1, <3>2 DEF TypeInv, RefinementTypeOK, MeetingRow, MeetingStatus,
                 RefinementStatus, Answers
  <2>. QED  BY <2>1, <2>2 DEF RefinementInv, SettledInv
<1>. QED  BY <1>1, RefinementInvariant, CompleteJobsAreRefined, PTL

\* While the application runs, with any number of windows and failing calls, a meeting
\* with a refined transcript reports it as ready, unless a job takes it up again or has
\* used up its attempts (apply_refinement_result, refinementFailureDisposition).
THEOREM RefinedTranscriptIsReported == Spec => []RefinedIsReported
<1>1. RefinementIInv => RefinedIsReported
  <2> SUFFICES ASSUME RefinementIInv, restarts = 0, meeting.canonical = "refined",
                      job.status \notin ActiveStatus
               PROVE  meeting.refinement = "complete" \/ job.attempts >= MaxAttempts
    BY DEF RefinedIsReported
  <2>1. TypeInv /\ SettledInv /\ LaunchInv
    BY DEF RefinementIInv
  <2>2. job.status \in {"complete", "failed"} /\ meeting.refinement = job.status
    BY <2>1 DEF TypeInv, SettledInv, LaunchInv, JobRow, JobStatus
  <2>3. job.status = "failed" => job.attempts >= MaxAttempts
    BY <2>1 DEF SettledInv, Refused, CompleteIsSettled
  <2>. QED  BY <2>2, <2>3
<1>. QED  BY <1>1, RefinementInvariant, PTL
=============================================================================
