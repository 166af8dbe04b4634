-------------------------- MODULE FactCheckProofs --------------------------
(***************************************************************************)
(* Proofs about FactChecks for any number of windows, requests, jobs,      *)
(* attempts, failing calls, reloads and clicks.                            *)
(*                                                                         *)
(* No window locks a claim: that its research is started once and in order *)
(* rests on the store alone.  The argument is that an idempotency key is   *)
(* saved with the first attempt of a job and never changes: the save of a  *)
(* job with any other key is refused before the gateway is called, so      *)
(* every check is one of a first key, and two jobs of one stage would have *)
(* the same key.                                                           *)
(***************************************************************************)
EXTENDS FactChecks, FiniteSetTheorems, TLAPS

-----------------------------------------------------------------------------
(* The inductive invariant.                                                *)

Findings == Requests \X Stages \X Keys \X Keys
ClaimStatus == {"none", "queued", "quick_running", "deep_running", "preliminary", "complete",
                "failed", "cancelled"}
JobRow == [version : Requests, stage : Stages, key : Keys, gw : {0} \union Keys,
           status : JobStatus, attempt : Keys]
Op == [pc : {"pending", "submit", "accepted", "polling", "nested", "failing"},
       version : Requests, stage : Stages, attempt : Keys, key : Keys, poll : {0, 1},
       gw : {0, 1}, prelim : {0, 1}, resp : JobStatus \union {"none"},
       err : {"none", "retryable", "terminal"},
       by : {"request", "rerun", "escalate", "policy", "pass"}, parent : {0} \union JobIds]
Pass == [phase : {"idle", "listed", "running"}, reconcile : BOOLEAN, ids : SUBSET JobIds,
         requests : SUBSET Requests, jobs : [JobIds -> Job], current : {0} \union JobIds,
         asking : SUBSET Requests]

HasPreliminary(v) == \E f \in found : f[1] = v /\ f[2] = "preliminary"

\* A row of the job i that was read now or earlier.
RowOk(i, row) ==
    \/ row = NoJob
    \/ /\ row \in JobRow /\ row.key = 1 /\ row.attempt = 1 /\ row.gw \in {0, 1}
       /\ jobs[i].status # "absent"
       /\ row.stage = "deep" => HasPreliminary(row.version)

\* A call for the job i: one with another key than the first has a row to be refused for.
OpOk(i, o) ==
    \/ o = Idle
    \/ /\ o \in Op /\ o.key = o.attempt
       /\ o.key = 1 \/ (o.pc \in {"pending", "failing"} /\ jobs[i].status # "absent")
       /\ o.pc \in {"accepted", "polling", "nested"} => o.gw = 1
       /\ o.pc = "accepted" => o.resp \in JobStatus
       /\ o.stage = "deep" => HasPreliminary(o.version)

StoreInv ==
    /\ request \in [Requests -> RequestStatus] /\ claim \in [Requests -> ClaimStatus]
    /\ jobs \in [JobIds -> Job] /\ found \in SUBSET Findings
    /\ \A i \in JobIds : RowOk(i, jobs[i])
    /\ OneJobPerStage

ChecksInv ==
    /\ checks \in [CheckKeys -> Outcomes \union {"none", "active"}]
    /\ \A k \in CheckKeys : checks[k] # "none" => k[3] = 1
    /\ owner \in [CheckKeys -> Windows \union {"none"}]

OpsInv ==
    /\ ops \in [Windows -> [JobIds -> Op \union {Idle}]]
    /\ \A w \in Windows, i \in JobIds : OpOk(i, ops[w][i])

ViewInv ==
    /\ view \in [Windows -> [jobs : [JobIds -> Job], found : SUBSET Findings]]
    /\ \A w \in Windows : /\ \A i \in JobIds : RowOk(i, view[w].jobs[i])
                          /\ view[w].found \subseteq found

PassInv ==
    /\ pass \in [Windows -> Pass]
    /\ \A w \in Windows, i \in JobIds : RowOk(i, pass[w].jobs[i])

AskedInv == asked \in [Windows -> [Requests -> {"idle", "processing", "complete", "failing"}]]

CountsInv ==
    /\ faults \in 0..MaxFaults /\ reloads \in 0..MaxReloads /\ reruns \in 0..MaxReruns

FactCheckIInv ==
    /\ StoreInv /\ ChecksInv /\ OpsInv /\ ViewInv /\ PassInv /\ AskedInv /\ CountsInv

\* Nothing leaves the tables.
Grows ==
    /\ found \subseteq found'
    /\ \A i \in JobIds : jobs[i].status # "absent" => jobs'[i].status # "absent"

-----------------------------------------------------------------------------
(* Rows, calls and findings once read stay what they are.                  *)

LEMMA Constants ==
    /\ 1 \in Keys /\ 1 \in JobIds /\ JobIds \subseteq Nat /\ 0 \notin JobIds /\ 0 \notin Keys
    /\ NoJob.status = "absent" /\ NoJob \notin JobRow /\ Job = JobRow \union {NoJob}
    /\ Idle.pc = "idle" /\ Idle \notin Op
<1>1. NoJob.status = "absent" /\ NoJob \notin JobRow /\ Idle.pc = "idle" /\ Idle \notin Op
  BY DEF NoJob, JobRow, JobStatus, Idle, Op
<1>. QED  BY <1>1, FactCheckAssumption DEF Keys, JobIds, Job, JobRow

LEMMA RowMoves ==
    ASSUME NEW i \in JobIds, NEW row, RowOk(i, row), Grows
    PROVE  RowOk(i, row)'
  BY DEF RowOk, Grows, HasPreliminary

LEMMA OpMoves ==
    ASSUME NEW i \in JobIds, NEW o, OpOk(i, o), Grows
    PROVE  OpOk(i, o)'
  BY DEF OpOk, Grows, HasPreliminary

\* A call that goes on leaves the others alone.
LEMMA OpSet ==
    ASSUME OpsInv, Grows, NEW w \in Windows, NEW i \in JobIds, NEW o \in Op \union {Idle},
           OpOk(i, o)', Step(w, i, o)
    PROVE  OpsInv'
<1>1. ops' \in [Windows -> [JobIds -> Op \union {Idle}]]
  BY DEF OpsInv, Step
<1>2. ops'[w][i] = o
  BY DEF OpsInv, Step
<1>3. ASSUME NEW x \in Windows, NEW j \in JobIds, x # w \/ j # i
      PROVE  OpOk(j, ops[x][j])'
  <2>1. PICK y : y = ops[x][j]
    OBVIOUS
  <2>2. ops'[x][j] = y
    BY <1>3, <2>1 DEF OpsInv, Step
  <2>3. OpOk(j, y)
    BY <2>1 DEF OpsInv
  <2>4. OpOk(j, y)'
    BY <2>3, OpMoves
  <2>. QED  BY <2>2, <2>4
<1>. QED  BY <1>1, <1>2, <1>3 DEF OpsInv

\* Every call that is not under way any more is idle; the others go on.
LEMMA OpsEnd ==
    ASSUME OpsInv, Grows, ops' \in [Windows -> [JobIds -> Op \union {Idle}]],
           \A w \in Windows, i \in JobIds : ops'[w][i] = ops[w][i] \/ ops'[w][i] = Idle
    PROVE  OpsInv'
<1>1. ASSUME NEW w \in Windows, NEW i \in JobIds PROVE OpOk(i, ops[w][i])'
  <2>1. PICK o : o = ops[w][i]
    OBVIOUS
  <2>2. OpOk(i, o)'
    BY <2>1, OpMoves DEF OpsInv
  <2>3. CASE ops'[w][i] = o
    BY <2>2, <2>3
  <2>4. CASE ops'[w][i] = Idle
    BY <2>4 DEF OpOk, Idle
  <2>. QED  BY <2>1, <2>3, <2>4
<1>. QED  BY <1>1 DEF OpsInv

LEMMA OpsReturn ==
    ASSUME OpsInv, Grows, NEW w \in Windows, NEW i \in JobIds, Returns(w, i)
    PROVE  OpsInv'
<1>1. [j \in JobIds |-> IF j \in {i, ops[w][i].parent} THEN Idle ELSE ops[w][j]]
        \in [JobIds -> Op \union {Idle}]
  BY DEF OpsInv
<1>2. ops' \in [Windows -> [JobIds -> Op \union {Idle}]]
  BY <1>1 DEF OpsInv, Returns
<1>3. \A x \in Windows, j \in JobIds : ops'[x][j] = ops[x][j] \/ ops'[x][j] = Idle
  BY DEF OpsInv, Returns
<1>. QED  BY <1>2, <1>3, OpsEnd

\* What a step does not read or write keeps its part of the invariant.
LEMMA Unmoved ==
    ASSUME FactCheckIInv, Grows
    PROVE  /\ ops' = ops => OpsInv'
           /\ view' = view => ViewInv'
           /\ pass' = pass => PassInv'
<1>1. ASSUME ops' = ops PROVE OpsInv'
  BY <1>1, OpsEnd DEF FactCheckIInv, OpsInv
<1>2. ASSUME view' = view PROVE ViewInv'
  <2>1. ASSUME NEW w \in Windows, NEW i \in JobIds PROVE RowOk(i, view[w].jobs[i])'
    <3>1. PICK row : row = view[w].jobs[i]
      OBVIOUS
    <3>2. RowOk(i, row)'
      BY <3>1, RowMoves DEF FactCheckIInv, ViewInv
    <3>. QED  BY <1>2, <3>1, <3>2
  <2>. QED  BY <1>2, <2>1 DEF FactCheckIInv, ViewInv, Grows
<1>3. ASSUME pass' = pass PROVE PassInv'
  <2>1. ASSUME NEW w \in Windows, NEW i \in JobIds PROVE RowOk(i, pass[w].jobs[i])'
    <3>1. PICK row : row = pass[w].jobs[i]
      OBVIOUS
    <3>2. RowOk(i, row)'
      BY <3>1, RowMoves DEF FactCheckIInv, PassInv
    <3>. QED  BY <1>3, <3>1, <3>2
  <2>. QED  BY <1>3, <2>1 DEF FactCheckIInv, PassInv
<1>. QED  BY <1>1, <1>2, <1>3

\* A page is given what is saved.
LEMMA ViewSet ==
    ASSUME ViewInv, Grows, NEW w \in Windows,
           NEW new \in [jobs : [JobIds -> Job], found : SUBSET Findings],
           new.found \subseteq found', \A i \in JobIds : RowOk(i, new.jobs[i])',
           view' = [view EXCEPT ![w] = new]
    PROVE  ViewInv'
<1>1. view' \in [Windows -> [jobs : [JobIds -> Job], found : SUBSET Findings]]
  BY DEF ViewInv
<1>2. view'[w] = new /\ \A x \in Windows : x # w => view'[x] = view[x]
  BY DEF ViewInv
<1>3. \A x \in Windows : view'[x].found \subseteq found'
  BY <1>2 DEF ViewInv, Grows
<1>4. ASSUME NEW x \in Windows, NEW i \in JobIds, x # w PROVE RowOk(i, view[x].jobs[i])'
  <2>1. PICK row : row = view[x].jobs[i]
    OBVIOUS
  <2>2. RowOk(i, row)'
    BY <2>1, RowMoves DEF ViewInv
  <2>. QED  BY <1>2, <1>4, <2>1, <2>2
<1>5. ASSUME NEW x \in Windows, NEW i \in JobIds PROVE RowOk(i, view[x].jobs[i])'
  BY <1>2, <1>4
<1>. QED  BY <1>1, <1>3, <1>5 DEF ViewInv

LEMMA LoadsKeeps ==
    ASSUME ViewInv, StoreInv', Grows, NEW w \in Windows, Loads(w)
    PROVE  ViewInv'
<1>1. NoView \in [jobs : [JobIds -> Job], found : SUBSET Findings]
      /\ (\A i \in JobIds : NoView.jobs[i] = NoJob) /\ NoView.found = {}
  BY Constants DEF NoView
<1>2. PICK new \in [jobs : [JobIds -> Job], found : SUBSET Findings] :
         /\ view' = [view EXCEPT ![w] = new] /\ new.found \subseteq found'
         /\ \A i \in JobIds : new.jobs[i] = NoJob \/ new.jobs[i] = jobs'[i]
  <2>. DEFINE saved == [jobs |-> jobs', found |-> found']
  <2>1. saved \in [jobs : [JobIds -> Job], found : SUBSET Findings]
    BY DEF StoreInv
  <2>2. view' = [view EXCEPT ![w] = saved] \/ view' = [view EXCEPT ![w] = NoView]
    BY DEF Loads
  <2>. QED  BY <1>1, <2>1, <2>2
<1>3. ASSUME NEW i \in JobIds PROVE RowOk(i, new.jobs[i])'
  BY <1>2 DEF StoreInv, RowOk
<1>. QED  BY <1>2, <1>3, ViewSet

-----------------------------------------------------------------------------
(* The store.                                                              *)

\* Whichever save of a job succeeds, the job keeps its key and its stage, and no other
\* job has both.
LEMMA ResearchSaved ==
    ASSUME StoreInv, NEW i \in JobIds, NEW row \in JobRow, row.attempt = row.key,
           row.gw \in {0, 1}, row.key = 1 \/ jobs[i].status # "absent",
           row.stage = "deep" => HasPreliminary(row.version), NEW finding \in SUBSET Findings,
           UNCHANGED store \/ (~Conflict(i, row) /\ ApplyResearch(i, row, finding))
    PROVE  StoreInv' /\ Grows /\ request' = request
<1>1. CASE UNCHANGED store
  BY <1>1 DEF store, StoreInv, RowOk, HasPreliminary, OneJobPerStage, Grows
<1>2. CASE ~Conflict(i, row) /\ ApplyResearch(i, row, finding)
  <2>1. /\ jobs' = [jobs EXCEPT ![i] = row] /\ found' = found \union finding
        /\ claim' = [claim EXCEPT ![row.version] =
                       ClaimStatusForResearchJob(row.stage, row.status)]
        /\ request' = request
    BY <1>2 DEF ApplyResearch
  <2>2. row.version \in Requests /\ row.status \in JobStatus /\ row.status # "absent"
    BY DEF JobRow, JobStatus
  <2>3. jobs[i].status # "absent" => row.key = jobs[i].key
    BY <1>2 DEF Conflict, SameJob
  <2>4. row.key = 1
    BY <2>3, Constants DEF StoreInv, RowOk
  <2>5. jobs'[i] = row /\ \A j \in JobIds : j # i => jobs'[j] = jobs[j]
    BY <2>1 DEF StoreInv
  <2>6. Grows
    BY <2>1, <2>2, <2>5 DEF Grows
  <2>7. jobs' \in [JobIds -> Job] /\ found' \in SUBSET Findings
    BY <2>1, Constants DEF StoreInv
  <2>8. claim' \in [Requests -> ClaimStatus]
    <3>1. ClaimStatusForResearchJob(row.stage, row.status) \in ClaimStatus
      BY <2>2 DEF ClaimStatusForResearchJob, ClaimStatus, JobStatus
    <3>. QED  BY <2>1, <3>1 DEF StoreInv
  <2>9. ASSUME NEW j \in JobIds PROVE RowOk(j, jobs[j])'
    <3>1. CASE j = i
      <4>1. RowOk(i, row)'
        BY <2>2, <2>4, <2>5, <2>6 DEF RowOk, Grows, HasPreliminary
      <4>. QED  BY <2>5, <3>1, <4>1
    <3>2. CASE j # i
      <4>1. PICK x : x = jobs[j]
        OBVIOUS
      <4>2. RowOk(j, x)'
        BY <2>6, <4>1, RowMoves DEF StoreInv
      <4>. QED  BY <2>5, <3>2, <4>1, <4>2
    <3>. QED  BY <3>1, <3>2
  <2>10. OneJobPerStage'
    <3>1. ASSUME NEW j \in JobIds, j # i, jobs[j].status # "absent"
          PROVE  <<jobs[j].version, jobs[j].stage>> # <<row.version, row.stage>>
      <4>1. jobs[j].key = 1
        BY <3>1, Constants DEF StoreInv, RowOk
      <4>2. ~SameJob(jobs[j], row)
        BY <1>2, <3>1 DEF Conflict, KeyTaken
      <4>. QED  BY <2>4, <4>1, <4>2 DEF SameJob
    <3>. QED  BY <2>5, <3>1 DEF StoreInv, OneJobPerStage
  <2>. QED  BY <2>1, <2>6, <2>7, <2>8, <2>9, <2>10 DEF StoreInv
<1>. QED  BY <1>1, <1>2

\* The same for the row a call writes.
LEMMA CallSaved ==
    ASSUME StoreInv, NEW i \in JobIds, NEW o \in Op, OpOk(i, o), NEW gw \in {0, 1},
           NEW status \in JobStatus, NEW finding \in SUBSET Findings,
           \/ UNCHANGED store
           \/ ~Conflict(i, Row(o, gw, status)) /\ ApplyResearch(i, Row(o, gw, status), finding)
    PROVE  StoreInv' /\ Grows /\ request' = request
<1>1. o # Idle
  BY Constants
<1>2. PICK row : row = Row(o, gw, status)
  OBVIOUS
<1>3. /\ row \in JobRow /\ row.attempt = row.key /\ row.gw = gw /\ row.key = o.key
      /\ row.stage = o.stage /\ row.version = o.version
  BY <1>1, <1>2, Constants DEF Row, JobRow, Op, OpOk
<1>4. /\ row.key = 1 \/ jobs[i].status # "absent"
      /\ row.stage = "deep" => HasPreliminary(row.version)
  BY <1>1, <1>3 DEF OpOk
<1>. QED  BY <1>2, <1>3, <1>4, ResearchSaved

\* A row that was saved has the first key.
LEMMA SavedKey ==
    ASSUME StoreInv, StoreInv', NEW i \in JobIds, NEW row \in JobRow,
           jobs' = [jobs EXCEPT ![i] = row]
    PROVE  row.key = 1
<1>1. jobs'[i] = row
  BY DEF StoreInv
<1>2. RowOk(i, jobs[i])'
  BY DEF StoreInv
<1>. QED  BY <1>1, <1>2, Constants DEF RowOk

-----------------------------------------------------------------------------
(* The steps of runResearchStage.                                          *)

LEMMA CallFacts ==
    ASSUME OpsInv, NEW w \in Windows, NEW i \in JobIds, ops[w][i].pc # "idle"
    PROVE  ops[w][i] \in Op /\ OpOk(i, ops[w][i])
  BY Constants DEF OpsInv

LEMMA FailsKeeps ==
    ASSUME OpsInv, Grows, NEW w \in Windows, NEW i \in JobIds, ops[w][i].pc # "idle",
           NEW err \in {"retryable", "terminal"}, Fails(w, i, err)
    PROVE  OpsInv'
<1>1. PICK o : o = ops[w][i]
  OBVIOUS
<1>2. o \in Op /\ OpOk(i, o)'
  BY <1>1, CallFacts, OpMoves
<1>3. PICK new : new = [o EXCEPT !.pc = "failing", !.err = err]
  OBVIOUS
<1>4. /\ new \in Op /\ new.pc = "failing" /\ new.key = o.key /\ new.attempt = o.attempt
      /\ new.stage = o.stage /\ new.version = o.version
  BY <1>2, <1>3 DEF Op
<1>5. OpOk(i, new)'
  BY <1>2, <1>4, Constants DEF OpOk
<1>6. Step(w, i, new)
  BY <1>1, <1>3 DEF Fails
<1>. QED  BY <1>4, <1>5, <1>6, OpSet

LEMMA FaultCounts ==
    ASSUME CountsInv, faults' = faults \/ Fault, UNCHANGED <<reloads, reruns>>
    PROVE  CountsInv'
  BY FactCheckAssumption DEF CountsInv, Fault

LEMMA PersistPendingInv ==
    ASSUME FactCheckIInv, NEW w \in Windows, NEW i \in JobIds, PersistPending(w, i)
    PROVE  FactCheckIInv'
<1>. USE DEF FactCheckIInv
<1>1. PICK o : o = ops[w][i]
  OBVIOUS
<1>2. o \in Op /\ OpOk(i, o) /\ ops[w][i].pc = "pending" /\ ops[w][i].pc # "idle"
  BY <1>1, CallFacts DEF PersistPending
<1>3. PICK row : row = Row(o, o.poll, "pending")
  OBVIOUS
<1>4. /\ \/ UNCHANGED store
         \/ ~Conflict(i, row) /\ ApplyResearch(i, row, {})
      /\ \/ ApplyResearch(i, row, {}) /\ Step(w, i, [o EXCEPT !.pc = "submit"])
         \/ Fails(w, i, "retryable")
      /\ faults' = faults \/ Fault
      /\ UNCHANGED <<checks, owner, asked, view, pass, reloads, reruns>>
  BY <1>1, <1>3 DEF PersistPending, PersistResearch
<1>5. o.poll \in {0, 1} /\ "pending" \in JobStatus /\ {} \in SUBSET Findings
  BY <1>2 DEF Op, JobStatus
<1>6. StoreInv' /\ Grows
  BY <1>2, <1>3, <1>4, <1>5, CallSaved
<1>7. OpsInv'
  <2>1. CASE Fails(w, i, "retryable")
    BY <1>2, <1>6, <2>1, FailsKeeps
  <2>2. CASE ApplyResearch(i, row, {}) /\ Step(w, i, [o EXCEPT !.pc = "submit"])
    <3>1. row \in JobRow /\ row.key = o.key
      BY <1>2, <1>3, <1>5, Constants DEF Row, JobRow, Op
    <3>2. row.key = 1
      BY <1>6, <2>2, <3>1, SavedKey DEF ApplyResearch
    <3>3. PICK new : new = [o EXCEPT !.pc = "submit"]
      OBVIOUS
    <3>4. /\ new \in Op /\ new.pc = "submit" /\ new.key = o.key /\ new.attempt = o.attempt
          /\ new.stage = o.stage /\ new.version = o.version
      BY <1>2, <3>3 DEF Op
    <3>5. OpOk(i, o)'
      BY <1>2, <1>6, OpMoves
    <3>6. OpOk(i, new)'
      BY <1>2, <3>1, <3>2, <3>4, <3>5, Constants DEF OpOk
    <3>. QED  BY <1>6, <2>2, <3>3, <3>4, <3>6, OpSet
  <2>. QED  BY <1>4, <2>1, <2>2
<1>. QED  BY <1>4, <1>6, <1>7, Unmoved, FaultCounts DEF ChecksInv, AskedInv

\* The gateway answers with a status that a job can have.
LEMMA CheckStatusTyped ==
    ASSUME ChecksInv, NEW k \in CheckKeys
    PROVE  CheckStatus(k) \subseteq JobStatus
<1>1. checks[k] \in {"none", "active", "complete", "escalate", "failed", "retryable", "cancelled"}
  BY FactCheckAssumption DEF ChecksInv
<1>. QED  BY <1>1 DEF CheckStatus, JobStatus

LEMMA SubmitInv ==
    ASSUME FactCheckIInv, NEW w \in Windows, NEW i \in JobIds, Submit(w, i)
    PROVE  FactCheckIInv'
<1>. USE DEF FactCheckIInv
<1>1. PICK o : o = ops[w][i]
  OBVIOUS
<1>2. o \in Op /\ OpOk(i, o) /\ o.pc = "submit" /\ ops[w][i].pc # "idle"
  BY <1>1, CallFacts DEF Submit
<1>3. o.key = 1
  <2>1. o.pc \notin {"idle", "pending", "failing"}
    BY ONLY <1>2
  <2>2. Idle.pc = "idle"
    BY Constants
  <2>3. o # Idle
    BY ONLY <2>1, <2>2
  <2>. QED  BY ONLY <1>2, <2>1, <2>3 DEF OpOk
<1>. DEFINE k == <<o.version, o.stage, o.key>>
            polled == <<o.version, o.stage, o.poll>>
            preliminary == <<o.version, "preliminary", o.prelim>>
            Accepted(key) == \E s \in CheckStatus(key) :
                Step(w, i, [o EXCEPT !.pc = "accepted", !.gw = key[3], !.resp = s])
<1>4. /\ \/ o.poll # 0 /\ Accepted(polled)
         \/ Accepted(k)
         \/ \E err \in {"retryable", "terminal"} : Fails(w, i, err)
      /\ checks' \in {checks, [checks EXCEPT ![k] = "active"]}
      /\ \/ owner' = owner
         \/ \E x \in {k, preliminary, polled} : owner' = [owner EXCEPT ![x] = w]
      /\ faults' = faults \/ Fault
      /\ UNCHANGED <<store, asked, view, pass, reloads, reruns>>
  BY <1>1, ZenonT(40) DEF Submit
<1>5. StoreInv' /\ Grows
  BY <1>4 DEF store, StoreInv, RowOk, HasPreliminary, OneJobPerStage, Grows
<1>6. k \in CheckKeys /\ k[3] = 1 /\ (o.poll # 0 => polled \in CheckKeys /\ polled[3] = 1)
  BY <1>2, <1>3, Constants DEF Op, CheckKeys
<1>7. ChecksInv'
  <2>1. checks' \in [CheckKeys -> Outcomes \union {"none", "active"}]
        /\ \A x \in CheckKeys : checks'[x] # "none" => x[3] = 1
    BY <1>4, <1>6 DEF ChecksInv
  <2>2. owner' \in [CheckKeys -> Windows \union {"none"}]
    BY <1>4 DEF ChecksInv
  <2>. QED  BY <2>1, <2>2 DEF ChecksInv
<1>8. OpsInv'
  <2>1. ASSUME NEW s \in JobStatus,
               Step(w, i, [o EXCEPT !.pc = "accepted", !.gw = 1, !.resp = s])
        PROVE  OpsInv'
    <3>1. PICK new : new = [o EXCEPT !.pc = "accepted", !.gw = 1, !.resp = s]
      OBVIOUS
    <3>2. /\ new \in Op /\ new.pc = "accepted" /\ new.key = o.key /\ new.attempt = o.attempt
          /\ new.gw = 1 /\ new.resp = s /\ new.stage = o.stage /\ new.version = o.version
      BY <1>2, <3>1 DEF Op
    <3>3. OpOk(i, o)'
      BY <1>2, <1>5, OpMoves
    <3>4. OpOk(i, new)'
      BY <1>2, <1>3, <3>2, <3>3, Constants DEF OpOk
    <3>. QED  BY <1>5, <2>1, <3>1, <3>2, <3>4, OpSet
  <2>2. CASE o.poll # 0 /\ Accepted(polled)
    BY <1>6, <2>1, <2>2, CheckStatusTyped
  <2>3. CASE Accepted(k)
    BY <1>6, <2>1, <2>3, CheckStatusTyped
  <2>4. CASE \E err \in {"retryable", "terminal"} : Fails(w, i, err)
    BY <1>2, <1>5, <2>4, FailsKeeps
  <2>. QED  BY <1>4, <2>2, <2>3, <2>4
<1>. QED  BY <1>4, <1>5, <1>7, <1>8, Unmoved, FaultCounts, ZenonT(40) DEF AskedInv

LEMMA PersistAcceptedInv ==
    ASSUME FactCheckIInv, NEW w \in Windows, NEW i \in JobIds, PersistAccepted(w, i)
    PROVE  FactCheckIInv'
<1>. USE DEF FactCheckIInv
<1>1. PICK o : o = ops[w][i]
  OBVIOUS
<1>2. o \in Op /\ OpOk(i, o) /\ o.pc = "accepted" /\ ops[w][i].pc # "idle"
  BY <1>1, CallFacts DEF PersistAccepted
<1>3. o.gw = 1 /\ o.resp \in JobStatus /\ o.key = 1
  BY <1>2, Constants DEF OpOk
<1>4. /\ \/ UNCHANGED store
         \/ ~Conflict(i, Row(o, o.gw, o.resp)) /\ ApplyResearch(i, Row(o, o.gw, o.resp), {})
      /\ \/ Step(w, i, [o EXCEPT !.pc = "polling"])
         \/ Fails(w, i, "retryable")
      /\ faults' = faults \/ Fault
      /\ UNCHANGED <<checks, owner, asked, view, pass, reloads, reruns>>
  BY <1>1 DEF PersistAccepted, PersistResearch
<1>5. StoreInv' /\ Grows
  <2>1. {} \in SUBSET Findings /\ o.gw \in {0, 1}
    BY <1>3
  <2>. QED  BY <1>2, <1>3, <1>4, <2>1, CallSaved
<1>6. OpsInv'
  <2>1. CASE Fails(w, i, "retryable")
    BY <1>2, <1>5, <2>1, FailsKeeps
  <2>2. CASE Step(w, i, [o EXCEPT !.pc = "polling"])
    <3>1. PICK new : new = [o EXCEPT !.pc = "polling"]
      OBVIOUS
    <3>2. /\ new \in Op /\ new.pc = "polling" /\ new.key = o.key /\ new.attempt = o.attempt
          /\ new.gw = o.gw /\ new.stage = o.stage /\ new.version = o.version
      BY <1>2, <3>1 DEF Op
    <3>3. OpOk(i, o)'
      BY <1>2, <1>5, OpMoves
    <3>4. OpOk(i, new)'
      BY <1>2, <1>3, <3>2, <3>3, Constants DEF OpOk
    <3>. QED  BY <1>5, <2>2, <3>1, <3>2, <3>4, OpSet
  <2>. QED  BY <1>4, <2>1, <2>2
<1>. QED  BY <1>4, <1>5, <1>6, Unmoved, FaultCounts DEF ChecksInv, AskedInv

LEMMA PollFailsInv ==
    ASSUME FactCheckIInv, NEW w \in Windows, NEW i \in JobIds, PollFails(w, i)
    PROVE  FactCheckIInv'
<1>. USE DEF FactCheckIInv
<1>1. StoreInv' /\ Grows
  BY DEF PollFails, store, StoreInv, RowOk, HasPreliminary, OneJobPerStage, Grows
<1>2. OpsInv'
  BY <1>1, FailsKeeps DEF PollFails
<1>. QED  BY <1>1, <1>2, Unmoved, FaultCounts DEF PollFails, ChecksInv, AskedInv

\* researchFailureDisposition gives a status that a job can have.
LEMMA FailureStatusTyped ==
    ASSUME NEW err, NEW attempt \in Nat
    PROVE  FailureStatus(err, attempt) \in JobStatus
  BY DEF FailureStatus, JobStatus

LEMMA PersistFailureInv ==
    ASSUME FactCheckIInv, NEW w \in Windows, NEW i \in JobIds, PersistFailure(w, i)
    PROVE  FactCheckIInv'
<1>. USE DEF FactCheckIInv
<1>1. PICK o : o = ops[w][i]
  OBVIOUS
<1>2. o \in Op /\ OpOk(i, o)
  BY <1>1, CallFacts DEF PersistFailure
<1>3. PICK status : status = FailureStatus(o.err, o.attempt)
  OBVIOUS
<1>4. /\ status \in JobStatus /\ o.gw \in {0, 1} /\ {} \in SUBSET Findings
  BY <1>2, <1>3, FailureStatusTyped DEF Op, Keys
<1>5. /\ \/ UNCHANGED store
         \/ ~Conflict(i, Row(o, o.gw, status)) /\ ApplyResearch(i, Row(o, o.gw, status), {})
      /\ Loads(w) \/ view' = view
      /\ Returns(w, i)
      /\ faults' = faults \/ Fault
      /\ UNCHANGED <<checks, owner, asked, pass, reloads, reruns>>
  BY <1>1, <1>3 DEF PersistFailure, PersistResearch
<1>6. StoreInv' /\ Grows
  BY <1>2, <1>4, <1>5, CallSaved
<1>7. OpsInv'
  BY <1>5, <1>6, OpsReturn
<1>8. ViewInv'
  BY <1>5, <1>6, LoadsKeeps, Unmoved
<1>. QED  BY <1>5, <1>6, <1>7, <1>8, Unmoved, FaultCounts DEF ChecksInv, AskedInv

\* A call that starts has the first key, or a row to be refused for.
LEMMA StageFacts ==
    ASSUME NEW v \in Requests, NEW stage \in Stages, NEW j, NEW row, RowOk(j, row),
           ResearchAttemptPlan(row).key \in Keys, NEW prelim \in {0, 1},
           NEW by \in {"request", "rerun", "escalate", "policy", "pass"},
           NEW parent \in {0} \union JobIds,
           NEW o, o = Stage(v, stage, row, prelim, by, parent)
    PROVE  /\ o \in Op /\ o.pc = "pending" /\ o.key = o.attempt
           /\ o.stage = stage /\ o.version = v
           /\ o.key = 1 \/ (row # NoJob /\ jobs[j].status # "absent")
<1>1. PICK plan : plan = ResearchAttemptPlan(row)
  OBVIOUS
<1>2. /\ plan.key \in Keys /\ plan.attempt = plan.key /\ plan.poll \in {0, 1}
      /\ plan.key = 1 \/ (row # NoJob /\ jobs[j].status # "absent")
  <2>1. CASE row = NoJob
    BY <1>1, <2>1, Constants DEF ResearchAttemptPlan, Resumable, NoJob
  <2>2. CASE row # NoJob
    BY <1>1, <2>2 DEF ResearchAttemptPlan, RowOk
  <2>. QED  BY <2>1, <2>2
<1>3. o = [pc |-> "pending", version |-> v, stage |-> stage, attempt |-> plan.attempt,
           key |-> plan.key, poll |-> plan.poll, gw |-> plan.poll, prelim |-> prelim,
           resp |-> "none", err |-> "none", by |-> by, parent |-> parent]
  BY <1>1 DEF Stage
<1>4. o \in Op
  BY <1>2, <1>3 DEF Op
<1>. QED  BY <1>2, <1>3, <1>4

\* Without a row the call is the first of its job.
LEMMA FirstStage ==
    ASSUME NEW v \in Requests, NEW stage \in Stages, NEW prelim \in {0, 1},
           NEW by \in {"request", "rerun", "escalate", "policy", "pass"},
           NEW parent \in {0} \union JobIds,
           NEW o, o = Stage(v, stage, NoJob, prelim, by, parent)
    PROVE  /\ o \in Op /\ o.pc = "pending" /\ o.key = 1 /\ o.attempt = 1
           /\ o.stage = stage /\ o.version = v
<1>1. RowOk(1, NoJob)
  BY DEF RowOk
<1>2. ResearchAttemptPlan(NoJob).key = 1
  BY DEF ResearchAttemptPlan, Resumable, NoJob
<1>. QED  BY <1>1, <1>2, StageFacts, Constants

\* A deep call starts beside the quick one that waits for it.
LEMMA OpSetTwo ==
    ASSUME OpsInv, Grows, NEW w \in Windows, NEW i \in JobIds, NEW f, NEW a \in Op,
           NEW b \in Op, OpOk(i, a)', \A j \in JobIds : OpOk(j, b)',
           ops' = [ops EXCEPT ![w][i] = a, ![w][f] = b]
    PROVE  OpsInv'
<1>1. PICK mid : mid = [ops EXCEPT ![w][i] = a]
  OBVIOUS
<1>2. ops' = [mid EXCEPT ![w][f] = b]
  BY <1>1
<1>3. mid \in [Windows -> [JobIds -> Op \union {Idle}]]
  BY <1>1 DEF OpsInv
<1>4. ops' \in [Windows -> [JobIds -> Op \union {Idle}]]
  <2>1. PICK row : row = [mid[w] EXCEPT ![f] = b]
    OBVIOUS
  <2>2. row \in [JobIds -> Op \union {Idle}]
    BY <1>3, <2>1
  <2>3. ops' = [mid EXCEPT ![w] = row]
    BY <1>2, <2>1
  <2>. QED  BY <1>3, <2>2, <2>3
<1>5. ASSUME NEW x \in Windows, NEW j \in JobIds PROVE OpOk(j, ops[x][j])'
  <2>1. ops'[x][j] \in {mid[x][j], b}
    BY <1>2, <1>3
  <2>2. mid[x][j] = ops[x][j] \/ (x = w /\ j = i /\ mid[x][j] = a)
    BY <1>1 DEF OpsInv
  <2>3. PICK y : y = ops[x][j]
    OBVIOUS
  <2>4. OpOk(j, y)'
    BY <2>3, OpMoves DEF OpsInv
  <2>5. PICK z : z = ops'[x][j]
    OBVIOUS
  <2>6. OpOk(j, z)'
    BY <2>1, <2>2, <2>3, <2>4, <2>5
  <2>. QED  BY <2>5, <2>6
<1>. QED  BY <1>4, <1>5 DEF OpsInv

\* A first call may start under any id.
LEMMA StartFirst ==
    ASSUME OpsInv, Grows, NEW w \in Windows, NEW f, NEW o \in Op, o.pc = "pending", o.key = 1,
           o.attempt = 1, o.stage = "deep" => HasPreliminary(o.version), Step(w, f, o)
    PROVE  OpsInv'
<1>1. \A j \in JobIds : OpOk(j, o)'
  BY DEF OpOk, HasPreliminary, Grows
<1>2. PICK row : row = [ops[w] EXCEPT ![f] = o]
  OBVIOUS
<1>3. row \in [JobIds -> Op \union {Idle}] /\ \A j \in JobIds : row[j] \in {ops[w][j], o}
  BY <1>2 DEF OpsInv
<1>4. ops' = [ops EXCEPT ![w] = row]
  BY <1>2 DEF Step
<1>5. ops' \in [Windows -> [JobIds -> Op \union {Idle}]]
  BY <1>3, <1>4 DEF OpsInv
<1>6. ASSUME NEW x \in Windows, NEW j \in JobIds PROVE OpOk(j, ops[x][j])'
  <2>1. ops'[x][j] \in {ops[x][j], o}
    BY <1>3, <1>4 DEF OpsInv
  <2>2. PICK y : y = ops[x][j]
    OBVIOUS
  <2>3. OpOk(j, y)'
    BY <2>2, OpMoves DEF OpsInv
  <2>. QED  BY <1>1, <2>1, <2>2, <2>3
<1>. QED  BY <1>5, <1>6 DEF OpsInv

LEMMA SettleInv ==
    ASSUME FactCheckIInv, NEW w \in Windows, NEW i \in JobIds, Settle(w, i)
    PROVE  FactCheckIInv'
<1>. USE DEF FactCheckIInv
<1>1. PICK o : o = ops[w][i]
  OBVIOUS
<1>2. o \in Op /\ OpOk(i, o) /\ o.pc = "polling" /\ ops[w][i].pc # "idle"
  BY <1>1, CallFacts DEF Settle
<1>3. /\ o.gw = 1 /\ o.key = 1 /\ o.attempt = 1 /\ o.version \in Requests /\ o.stage \in Stages
      /\ o.stage = "deep" => HasPreliminary(o.version)
  BY <1>2, Constants DEF OpOk, Op
<1>. DEFINE finding == <<o.version, o.stage, o.gw, o.attempt>>
            quick == [o EXCEPT !.pc = "nested"]
            deep == Stage(o.version, "deep", NoJob, o.gw, "policy", i)
            Saved(status, findings) ==
              \/ UNCHANGED store
              \/ ~Conflict(i, Row(o, o.gw, status)) /\ ApplyResearch(i, Row(o, o.gw, status), findings)
<1>4. finding \in Findings
  BY <1>3, Constants DEF Findings
<1>5. /\ \/ UNCHANGED store
         \/ \E status \in JobStatus : Saved(status, {})
         \/ Saved("complete", {finding})
      /\ \/ Fails(w, i, "retryable") \/ Returns(w, i)
         \/ /\ ops' = [ops EXCEPT ![w][i] = quick, ![w][FreshId] = deep]
            /\ finding \in found'
      /\ \/ view' = view \/ Loads(w)
         \/ view' = [view EXCEPT ![w].found = @ \union {finding}] /\ finding \in found'
      /\ faults' = faults \/ Fault
      /\ owner' = owner \/ owner' = [owner EXCEPT ![<<o.version, o.stage, o.gw>>] = w]
      /\ UNCHANGED <<checks, asked, pass, reloads, reruns>>
  <2>. HIDE DEF FactCheckIInv
  <2>1. "retry_wait" \in JobStatus
    BY DEF JobStatus
  <2>2. \A x : FailureStatus(x, o.attempt) \in JobStatus
    BY <1>3, FailureStatusTyped
  <2>3. \A row : ApplyResearch(i, row, {finding}) => finding \in found'
    BY DEF ApplyResearch
  <2>. QED  BY <1>1, <2>1, <2>2, <2>3 DEF Settle, PersistResearch, store
<1>. HIDE DEF finding, quick, deep
<1>6. StoreInv' /\ Grows
  <2>1. "complete" \in JobStatus /\ o.gw \in {0, 1} /\ {} \in SUBSET Findings
        /\ {finding} \in SUBSET Findings
    BY <1>3, <1>4 DEF JobStatus
  <2>2. UNCHANGED store => StoreInv' /\ Grows
    BY DEF store, StoreInv, RowOk, HasPreliminary, OneJobPerStage, Grows
  <2>. QED  BY <1>2, <1>5, <2>1, <2>2, CallSaved
<1>7. OpsInv'
  <2>1. CASE Fails(w, i, "retryable")
    BY <1>2, <1>6, <2>1, FailsKeeps
  <2>2. CASE Returns(w, i)
    BY <1>6, <2>2, OpsReturn
  <2>3. CASE ops' = [ops EXCEPT ![w][i] = quick, ![w][FreshId] = deep] /\ finding \in found'
    <3>1. PICK a, b, f : a = quick /\ b = deep /\ f = FreshId
      OBVIOUS
    <3>2. /\ a \in Op /\ a.pc = "nested" /\ a.key = 1 /\ a.attempt = 1 /\ a.gw = 1
          /\ a.stage = o.stage /\ a.version = o.version
      BY <1>2, <1>3, <3>1 DEF Op, quick
    <3>3. b \in Op /\ b.pc = "pending" /\ b.key = 1 /\ b.attempt = 1 /\ b.stage = "deep"
          /\ b.version = o.version
      <4>1. /\ o.version \in Requests /\ "deep" \in Stages /\ o.gw \in {0, 1}
            /\ "policy" \in {"request", "rerun", "escalate", "policy", "pass"}
            /\ i \in {0} \union JobIds
        BY <1>3 DEF Stages
      <4>2. PICK v, gw : v = o.version /\ gw = o.gw
        OBVIOUS
      <4>3. b = Stage(v, "deep", NoJob, gw, "policy", i)
        BY <3>1, <4>2 DEF deep
      <4>4. /\ b \in Op /\ b.pc = "pending" /\ b.key = 1 /\ b.attempt = 1
            /\ b.stage = "deep" /\ b.version = v
        BY ONLY <4>1, <4>2, <4>3, FirstStage
      <4>. QED  BY <4>2, <4>4
    <3>4. HasPreliminary(o.version)'
      <4>1. HasPreliminary(o.version) => \E f1 \in found' : f1[1] = o.version /\ f1[2] = "preliminary"
        BY <1>6 DEF HasPreliminary, Grows
      <4>2. o.stage = "preliminary" =>
              \E f1 \in found' : f1[1] = o.version /\ f1[2] = "preliminary"
        BY <2>3 DEF finding
      <4>. QED  BY <1>3, <4>1, <4>2 DEF HasPreliminary, Stages
    <3>5. OpOk(i, a)' /\ \A j \in JobIds : OpOk(j, b)'
      BY <3>2, <3>3, <3>4 DEF OpOk
    <3>. QED  BY <1>6, <2>3, <3>1, <3>2, <3>3, <3>5, OpSetTwo
  <2>. QED  BY <1>5, <2>1, <2>2, <2>3
<1>8. ViewInv'
  <2>1. CASE view' = view \/ Loads(w)
    BY <1>6, <2>1, LoadsKeeps, Unmoved
  <2>2. CASE view' = [view EXCEPT ![w].found = @ \union {finding}] /\ finding \in found'
    <3>1. PICK new : new = [view[w] EXCEPT !.found = view[w].found \union {finding}]
      OBVIOUS
    <3>2. /\ new \in [jobs : [JobIds -> Job], found : SUBSET Findings]
          /\ new.found = view[w].found \union {finding} /\ new.jobs = view[w].jobs
      BY <1>4, <3>1 DEF ViewInv
    <3>3. new.found \subseteq found'
      BY <1>6, <2>2, <3>2 DEF ViewInv, Grows
    <3>4. ASSUME NEW j \in JobIds PROVE RowOk(j, new.jobs[j])'
      BY <1>6, <3>2, RowMoves DEF ViewInv
    <3>5. view' = [view EXCEPT ![w] = new]
      BY <2>2, <3>1
    <3>. QED  BY <1>6, <3>2, <3>3, <3>4, <3>5, ViewSet
  <2>. QED  BY <1>5, <2>1, <2>2
<1>9. ChecksInv'
  BY <1>5 DEF ChecksInv
<1>. QED  BY <1>5, <1>6, <1>7, <1>8, <1>9, Unmoved, FaultCounts DEF AskedInv

-----------------------------------------------------------------------------
(* Requests.                                                               *)

\* manual_fact_check_status_transition_allowed guards every save of a request.
LEMMA RequestSaved ==
    ASSUME StoreInv, NEW r \in Requests, NEW status \in RequestStatus,
           \/ UNCHANGED store
           \/ TransitionAllowed(request[r], status) /\ ApplyRequest(r, status)
    PROVE  StoreInv' /\ Grows
<1>1. CASE UNCHANGED store
  BY <1>1 DEF store, StoreInv, RowOk, HasPreliminary, OneJobPerStage, Grows
<1>2. CASE ApplyRequest(r, status)
  <2>1. jobs' = jobs /\ found' = found /\ request' = [request EXCEPT ![r] = status]
        /\ claim' \in {claim, [claim EXCEPT ![r] = "queued"]}
    BY <1>2 DEF ApplyRequest
  <2>2. request' \in [Requests -> RequestStatus] /\ claim' \in [Requests -> ClaimStatus]
    BY <2>1 DEF StoreInv, ClaimStatus
  <2>. QED  BY <2>1, <2>2 DEF StoreInv, RowOk, HasPreliminary, OneJobPerStage, Grows
<1>. QED  BY <1>1, <1>2

LEMMA RequestStepsInv ==
    ASSUME FactCheckIInv, NEW w \in Windows, NEW r \in Requests,
           FactCheckSelection(w, r) \/ RequestStep(w, r)
    PROVE  FactCheckIInv'
<1>. USE DEF FactCheckIInv
<1>1. /\ \/ UNCHANGED store
         \/ \E status \in RequestStatus :
              TransitionAllowed(request[r], status) /\ ApplyRequest(r, status)
      /\ \/ asked' = asked
         \/ \E x \in {"idle", "processing", "complete", "failing"} :
              asked' = [asked EXCEPT ![w][r] = x]
      /\ ops' = ops \/ Step(w, FreshId, Stage(r, "preliminary", NoJob, 0, "request", 0))
      /\ view' = view \/ Loads(w)
      /\ faults' = faults \/ Fault
      /\ UNCHANGED <<checks, owner, pass, reloads, reruns>>
  <2>. HIDE DEF FactCheckIInv
  <2>1. {"queued", "processing", "complete", "retry_wait"} \subseteq RequestStatus
    BY DEF RequestStatus
  <2>2. CASE FactCheckSelection(w, r)
    BY <2>1, <2>2 DEF FactCheckSelection, PersistRequest, store
  <2>3. CASE ProcessRequest(w, r)
    BY <2>1, <2>3 DEF ProcessRequest, PersistRequest, store
  <2>4. CASE CompleteRequest(w, r)
    BY <2>1, <2>4 DEF CompleteRequest, PersistRequest, store
  <2>5. CASE FailRequest(w, r)
    BY <2>1, <2>5 DEF FailRequest, PersistRequest, store
  <2>. QED  BY <2>2, <2>3, <2>4, <2>5 DEF RequestStep
<1>2. StoreInv' /\ Grows
  <2>1. "queued" \in RequestStatus
    BY DEF RequestStatus
  <2>. QED  BY <1>1, <2>1, RequestSaved
<1>3. AskedInv'
  BY <1>1 DEF AskedInv
<1>4. OpsInv'
  <2>1. CASE ops' = ops
    BY <1>2, <2>1, Unmoved
  <2>2. CASE Step(w, FreshId, Stage(r, "preliminary", NoJob, 0, "request", 0))
    <3>1. PICK o : o = Stage(r, "preliminary", NoJob, 0, "request", 0)
      OBVIOUS
    <3>2. "preliminary" \in Stages /\ 0 \in {0, 1} /\ 0 \in {0} \union JobIds
          /\ "request" \in {"request", "rerun", "escalate", "policy", "pass"}
      BY DEF Stages
    <3>3. /\ o \in Op /\ o.pc = "pending" /\ o.key = 1 /\ o.attempt = 1
          /\ o.stage = "preliminary"
      BY <3>1, <3>2, FirstStage
    <3>. QED  BY <1>2, <2>2, <3>1, <3>3, StartFirst
  <2>. QED  BY <1>1, <2>1, <2>2
<1>5. ViewInv'
  BY <1>1, <1>2, LoadsKeeps, Unmoved
<1>. QED  BY <1>1, <1>2, <1>3, <1>4, <1>5, Unmoved, FaultCounts DEF ChecksInv

-----------------------------------------------------------------------------
(* Clicks.                                                                 *)

LEMMA NoViewTyped ==
    /\ NoView \in [jobs : [JobIds -> Job], found : SUBSET Findings]
    /\ NoView.found = {} /\ \A i \in JobIds : NoView.jobs[i] = NoJob
  BY Constants DEF NoView

\* A job that is started from a row some time ago read.
LEMMA StartFrom ==
    ASSUME OpsInv, Grows, NEW w \in Windows, NEW i \in JobIds, NEW v \in Requests,
           NEW stage \in Stages, NEW row, RowOk(i, row), ResearchAttemptPlan(row).key \in Keys,
           NEW prelim \in {0, 1}, NEW by \in {"request", "rerun", "escalate", "policy", "pass"},
           stage = "deep" => HasPreliminary(v),
           Step(w, i, Stage(v, stage, row, prelim, by, 0))
    PROVE  OpsInv'
<1>1. PICK o : o = Stage(v, stage, row, prelim, by, 0)
  OBVIOUS
<1>2. 0 \in {0} \union JobIds
  OBVIOUS
<1>3. /\ o \in Op /\ o.pc = "pending" /\ o.key = o.attempt /\ o.stage = stage /\ o.version = v
      /\ o.key = 1 \/ jobs[i].status # "absent"
  BY <1>1, <1>2, StageFacts
<1>4. OpOk(i, o)
  BY <1>3 DEF OpOk
<1>. QED  BY <1>1, <1>3, <1>4, OpMoves, OpSet

LEMMA StoreUnchanged ==
    ASSUME StoreInv, UNCHANGED store
    PROVE  StoreInv' /\ Grows
  BY DEF store, StoreInv, RowOk, HasPreliminary, OneJobPerStage, Grows

LEMMA ClickInv ==
    ASSUME FactCheckIInv, NEW w \in Windows, NEW v \in Requests,
           RerunClaim(w, v) \/ EscalateClaim(w, v)
    PROVE  FactCheckIInv'
<1>. USE DEF FactCheckIInv
<1>1. /\ reruns < MaxReruns /\ reruns' = reruns + 1 /\ Clicked
      /\ UNCHANGED <<store, checks, owner, asked, pass, faults, reloads>>
  BY DEF RerunClaim, EscalateClaim
<1>2. StoreInv' /\ Grows
  BY <1>1, StoreUnchanged
<1>3. OpsInv'
  <2>1. /\ v \in Requests /\ 0 \in {0, 1} /\ 0 \in {0} \union JobIds
        /\ {"preliminary", "deep"} \subseteq Stages
        /\ {"rerun", "escalate"} \subseteq {"request", "rerun", "escalate", "policy", "pass"}
    BY DEF Stages
  <2>2. CASE Step(w, FreshId, Stage(v, "preliminary", NoJob, 0, "rerun", 0))
    <3>1. PICK o : o = Stage(v, "preliminary", NoJob, 0, "rerun", 0)
      OBVIOUS
    <3>2. /\ o \in Op /\ o.pc = "pending" /\ o.key = 1 /\ o.attempt = 1
          /\ o.stage = "preliminary"
      BY ONLY <2>1, <3>1, FirstStage
    <3>. QED  BY <1>2, <2>2, <3>1, <3>2, StartFirst
  <2>3. ASSUME NEW i \in JobIds, ResearchAttemptPlan(view[w].jobs[i]).key \in Keys,
               Step(w, i, Stage(v, "preliminary", view[w].jobs[i], 0, "rerun", 0))
        PROVE  OpsInv'
    <3>1. PICK row : row = view[w].jobs[i]
      OBVIOUS
    <3>2. RowOk(i, row)
      BY <3>1 DEF ViewInv
    <3>. QED  BY <1>2, <2>1, <2>3, <3>1, <3>2, StartFrom
  <2>4. CASE EscalateClaim(w, v)
    <3>1. PICK i \in JobIds :
             /\ view[w].jobs[i].status = "complete" /\ view[w].jobs[i].gw # 0
             /\ Step(w, FreshId, Stage(v, "deep", NoJob, view[w].jobs[i].gw, "escalate", 0))
      BY <2>4 DEF EscalateClaim, ShownJobs
    <3>2. PICK gw : gw = view[w].jobs[i].gw
      OBVIOUS
    <3>3. gw \in {0, 1}
      BY <3>2 DEF ViewInv, RowOk, NoJob
    <3>4. HasPreliminary(v)
      BY <2>4 DEF EscalateClaim, EscalationOffered, ViewInv, HasPreliminary
    <3>5. PICK o : o = Stage(v, "deep", NoJob, gw, "escalate", 0)
      OBVIOUS
    <3>6. /\ o \in Op /\ o.pc = "pending" /\ o.key = 1 /\ o.attempt = 1
          /\ o.stage = "deep" /\ o.version = v
      BY ONLY <2>1, <3>3, <3>5, FirstStage, SMTT(30)
    <3>. QED  BY <1>2, <3>1, <3>2, <3>4, <3>5, <3>6, StartFirst
  <2>5. CASE RerunClaim(w, v)
    BY <2>2, <2>3, <2>5 DEF RerunClaim, ShownJobs
  <2>. QED  BY <2>4, <2>5
<1>4. ViewInv'
  <2>1. CASE view' = view
    BY <1>2, <2>1, Unmoved
  <2>2. CASE view' = [x \in Windows |-> NoView]
    BY <2>2, NoViewTyped DEF ViewInv, RowOk
  <2>. QED  BY <1>1, <2>1, <2>2 DEF Clicked
<1>5. CountsInv'
  BY <1>1, FactCheckAssumption DEF CountsInv
<1>. QED  BY <1>1, <1>2, <1>3, <1>4, <1>5, Unmoved DEF ChecksInv, AskedInv

LEMMA OpenMeetingInv ==
    ASSUME FactCheckIInv, NEW w \in Windows, OpenMeeting(w)
    PROVE  FactCheckIInv'
<1>. USE DEF FactCheckIInv
<1>1. StoreInv' /\ Grows
  BY StoreUnchanged DEF OpenMeeting
<1>2. Loads(w)
  BY DEF OpenMeeting, Loads, store
<1>. QED  BY <1>1, <1>2, LoadsKeeps, Unmoved DEF OpenMeeting, ChecksInv, AskedInv, CountsInv

-----------------------------------------------------------------------------
(* The recovery loop, the gateway and reloads.                             *)

LEMMA PassSet ==
    ASSUME PassInv, Grows, NEW w \in Windows, NEW new \in Pass,
           \A i \in JobIds : RowOk(i, new.jobs[i])', pass' = [pass EXCEPT ![w] = new]
    PROVE  PassInv'
<1>1. pass' \in [Windows -> Pass]
  BY DEF PassInv
<1>2. pass'[w] = new /\ \A x \in Windows : x # w => pass'[x] = pass[x]
  BY DEF PassInv
<1>3. ASSUME NEW x \in Windows, NEW i \in JobIds, x # w PROVE RowOk(i, pass[x].jobs[i])'
  <2>1. PICK row : row = pass[x].jobs[i]
    OBVIOUS
  <2>2. RowOk(i, row)'
    BY <2>1, RowMoves DEF PassInv
  <2>. QED  BY <1>2, <1>3, <2>1, <2>2
<1>4. ASSUME NEW x \in Windows, NEW i \in JobIds PROVE RowOk(i, pass[x].jobs[i])'
  BY <1>2, <1>3
<1>. QED  BY <1>1, <1>4 DEF PassInv

\* A pass that goes on with the rows it loaded.
LEMMA PassGoesOn ==
    ASSUME PassInv, Grows, NEW w \in Windows, NEW new \in Pass, new.jobs = pass[w].jobs,
           pass' = [pass EXCEPT ![w] = new]
    PROVE  PassInv'
<1>1. ASSUME NEW i \in JobIds PROVE RowOk(i, new.jobs[i])'
  <2>1. PICK row : row = pass[w].jobs[i]
    OBVIOUS
  <2>2. RowOk(i, row)'
    BY <2>1, RowMoves DEF PassInv
  <2>. QED  BY <2>1, <2>2
<1>. QED  BY <1>1, PassSet

LEMMA NoPassTyped ==
    /\ NoPass \in Pass /\ Startup \in Pass
    /\ \A i \in JobIds : NoPass.jobs[i] = NoJob /\ Startup.jobs[i] = NoJob
<1>1. NoPass \in Pass /\ NoPass.jobs = [i \in JobIds |-> NoJob]
  BY Constants DEF NoPass, Pass
<1>. QED  BY <1>1 DEF Startup, Pass

LEMMA PassStarts ==
    ASSUME PassInv, Grows, NEW w \in Windows, NEW new \in {NoPass, Startup},
           pass' = [pass EXCEPT ![w] = new]
    PROVE  PassInv'
<1>1. new \in Pass /\ \A i \in JobIds : new.jobs[i] = NoJob
  BY NoPassTyped
<1>2. \A i \in JobIds : RowOk(i, new.jobs[i])'
  BY <1>1 DEF RowOk
<1>. QED  BY <1>1, <1>2, PassSet

\* A recovery pass that reconciles puts running jobs back, and changes nothing else of them.
LEMMA RecoverMeetingJobsInv ==
    ASSUME FactCheckIInv, NEW w \in Windows, RecoverMeetingJobs(w)
    PROVE  FactCheckIInv'
<1>. USE DEF FactCheckIInv
<1>1. /\ request' = request /\ claim' = claim /\ found' = found
      /\ UNCHANGED <<checks, owner, ops, asked, view, reloads, reruns>>
      /\ faults' = faults \/ Fault
  BY DEF RecoverMeetingJobs
<1>2. CASE jobs' = jobs
  <2>1. StoreInv' /\ Grows
    BY <1>1, <1>2, StoreUnchanged DEF store
  <2>2. CASE pass' = pass
    BY <1>1, <2>1, <2>2, Unmoved, FaultCounts DEF ChecksInv, AskedInv
  <2>3. CASE \E ids \in SUBSET JobIds :
               pass' = [pass EXCEPT ![w].phase = "listed", ![w].ids = ids]
    <3>1. PICK ids \in SUBSET JobIds :
             pass' = [pass EXCEPT ![w].phase = "listed", ![w].ids = ids]
      BY <2>3
    <3>2. PICK new : new = [pass[w] EXCEPT !.phase = "listed", !.ids = ids]
      OBVIOUS
    <3>3. new \in Pass /\ new.jobs = pass[w].jobs
      BY <3>2 DEF PassInv, Pass
    <3>4. pass' = [pass EXCEPT ![w] = new]
      BY <3>1, <3>2
    <3>5. PassInv'
      BY <2>1, <3>3, <3>4, PassGoesOn
    <3>. QED  BY <1>1, <2>1, <3>5, Unmoved, FaultCounts DEF ChecksInv, AskedInv
  <2>. QED  BY <2>2, <2>3 DEF RecoverMeetingJobs
<1>3. CASE jobs' = [i \in JobIds |-> IF jobs[i].status = "running"
                                    THEN [jobs[i] EXCEPT !.status = "retry_wait"] ELSE jobs[i]]
           /\ \E ids \in SUBSET JobIds :
                pass' = [pass EXCEPT ![w].phase = "listed", ![w].ids = ids]
  <2>1. ASSUME NEW i \in JobIds
        PROVE  /\ jobs'[i] \in Job
               /\ jobs'[i] = NoJob <=> jobs[i] = NoJob
               /\ jobs[i] # NoJob => /\ jobs'[i].version = jobs[i].version
                                     /\ jobs'[i].stage = jobs[i].stage /\ jobs'[i].gw = jobs[i].gw
                                     /\ jobs'[i].key = jobs[i].key
                                     /\ jobs'[i].attempt = jobs[i].attempt
    <3>1. PICK row : row = jobs[i]
      OBVIOUS
    <3>2. row \in JobRow \/ row = NoJob
      BY <3>1, Constants DEF StoreInv
    <3>3. CASE row \in JobRow /\ row.status = "running"
      <4>1. jobs'[i] = [row EXCEPT !.status = "retry_wait"]
        BY <1>3, <3>1, <3>3
      <4>. QED  BY <3>1, <3>3, <4>1, Constants DEF JobRow, JobStatus
    <3>4. CASE row = NoJob \/ row.status # "running"
      <4>1. jobs'[i] = row
        BY <1>3, <3>1, <3>4, Constants
      <4>. QED  BY <3>1, <3>2, <4>1, Constants
    <3>. QED  BY <3>2, <3>3, <3>4
  <2>2. \A i \in JobIds : jobs[i].status # "absent" <=> jobs[i] # NoJob
    BY Constants DEF StoreInv, JobRow, JobStatus
  <2>3. \A i \in JobIds : jobs'[i].status # "absent" <=> jobs'[i] # NoJob
    BY <2>1, Constants DEF JobRow, JobStatus
  <2>4. Grows
    BY <1>1, <2>1, <2>2, <2>3 DEF Grows
  <2>5. StoreInv'
    <3>1. jobs' \in [JobIds -> Job]
      BY <1>3, <2>1
    <3>2. ASSUME NEW i \in JobIds PROVE RowOk(i, jobs[i])'
      BY <1>1, <2>1, <2>3, Constants DEF StoreInv, RowOk, HasPreliminary
    <3>3. OneJobPerStage'
      BY <2>1, <2>2, <2>3 DEF StoreInv, OneJobPerStage
    <3>. QED  BY <1>1, <3>1, <3>2, <3>3 DEF StoreInv
  <2>6. PassInv'
    <3>1. PICK ids \in SUBSET JobIds :
             pass' = [pass EXCEPT ![w].phase = "listed", ![w].ids = ids]
      BY <1>3
    <3>2. PICK new : new = [pass[w] EXCEPT !.phase = "listed", !.ids = ids]
      OBVIOUS
    <3>3. new \in Pass /\ new.jobs = pass[w].jobs
      BY <3>2 DEF PassInv, Pass
    <3>4. pass' = [pass EXCEPT ![w] = new]
      BY <3>1, <3>2
    <3>. QED  BY <2>4, <3>3, <3>4, PassGoesOn
  <2>. QED  BY <1>1, <2>4, <2>5, <2>6, Unmoved, FaultCounts DEF ChecksInv, AskedInv
<1>. QED  BY <1>2, <1>3 DEF RecoverMeetingJobs

LEMMA LoadMeetingsInv ==
    ASSUME FactCheckIInv, NEW w \in Windows, LoadMeetings(w)
    PROVE  FactCheckIInv'
<1>. USE DEF FactCheckIInv
<1>1. /\ UNCHANGED <<store, checks, owner, ops, asked, view, reloads, reruns>>
      /\ faults' = faults \/ Fault
  BY DEF LoadMeetings
<1>2. StoreInv' /\ Grows
  BY <1>1, StoreUnchanged
<1>3. PassInv'
  <2>1. CASE pass' = [pass EXCEPT ![w] = NoPass]
    BY <1>2, <2>1, PassStarts
  <2>2. CASE \E rs \in SUBSET Requests :
               pass' = [pass EXCEPT ![w] = [@ EXCEPT !.phase = "running", !.jobs = jobs,
                                                    !.requests = rs]]
    <3>1. PICK rs \in SUBSET Requests :
             pass' = [pass EXCEPT ![w] = [@ EXCEPT !.phase = "running", !.jobs = jobs,
                                                  !.requests = rs]]
      BY <2>2
    <3>2. PICK new : new = [pass[w] EXCEPT !.phase = "running", !.jobs = jobs, !.requests = rs]
      OBVIOUS
    <3>3. new \in Pass /\ new.jobs = jobs
      BY <3>2, ZenonT(40) DEF PassInv, StoreInv, Pass
    <3>4. pass' = [pass EXCEPT ![w] = new]
      BY <3>1, <3>2
    <3>5. ASSUME NEW i \in JobIds PROVE RowOk(i, new.jobs[i])'
      BY <1>2, <3>3, RowMoves DEF StoreInv
    <3>. QED  BY <1>2, <3>3, <3>4, <3>5, PassSet
  <2>. QED  BY <2>1, <2>2 DEF LoadMeetings
<1>. QED  BY <1>1, <1>2, <1>3, Unmoved, FaultCounts DEF ChecksInv, AskedInv

LEMMA RecoverRequestInv ==
    ASSUME FactCheckIInv, NEW w \in Windows, RecoverRequest(w)
    PROVE  FactCheckIInv'
<1>. USE DEF FactCheckIInv
<1>1. UNCHANGED <<store, checks, owner, ops, view, faults, reloads, reruns>>
  BY DEF RecoverRequest
<1>2. StoreInv' /\ Grows
  BY <1>1, StoreUnchanged
<1>3. PICK r \in Requests, asking \in SUBSET Requests :
         /\ asked' = asked \/ asked' = [asked EXCEPT ![w][r] = "processing"]
         /\ pass' = [pass EXCEPT ![w].requests = @ \ {r}, ![w].asking = asking]
  <2>1. PICK r \in pass[w].requests :
           /\ asked' = IF asked[w][r] = "idle"
                       THEN [asked EXCEPT ![w][r] = "processing"] ELSE asked
           /\ pass' = [pass EXCEPT ![w].requests = @ \ {r},
                                   ![w].asking = IF asked[w][r] = "idle" THEN {r} ELSE {}]
    BY DEF RecoverRequest
  <2>2. r \in Requests
    BY DEF PassInv, Pass
  <2>3. PICK asking : asking = IF asked[w][r] = "idle" THEN {r} ELSE {}
    OBVIOUS
  <2>4. asking \in SUBSET Requests
    BY <2>2, <2>3
  <2>. QED  BY <2>1, <2>2, <2>3, <2>4
<1>4. AskedInv'
  BY <1>3 DEF AskedInv
<1>5. PassInv'
  <2>1. PICK new : new = [pass[w] EXCEPT !.requests = pass[w].requests \ {r}, !.asking = asking]
    OBVIOUS
  <2>2. new \in Pass /\ new.jobs = pass[w].jobs
    BY <2>1 DEF PassInv, Pass
  <2>3. pass' = [pass EXCEPT ![w] = new]
    BY <1>3, <2>1
  <2>. QED  BY <1>2, <2>2, <2>3, PassGoesOn
<1>. QED  BY <1>1, <1>2, <1>4, <1>5, Unmoved DEF ChecksInv, CountsInv

\* The preliminary check a recovered deep job refers to is a first one.
LEMMA PreliminaryCheckTyped ==
    ASSUME NEW rows, \A i \in JobIds : RowOk(i, rows[i]), NEW v
    PROVE  PreliminaryCheck(rows, v) \in {0, 1}
<1>. DEFINE candidates == {rows[i].gw : i \in {j \in JobIds : /\ rows[j].version = v
                                                            /\ rows[j].stage = "preliminary"}}
<1>1. candidates \subseteq {0, 1}
  BY DEF RowOk, NoJob
<1>. HIDE DEF candidates
<1>2. \E n \in candidates \union {0} : \A m \in candidates : m <= n
  <2>1. CASE 1 \in candidates
    BY <1>1, <2>1
  <2>2. CASE 1 \notin candidates
    BY <1>1, <2>2
  <2>. QED  BY <2>1, <2>2
<1>3. (CHOOSE n \in candidates \union {0} : \A m \in candidates : m <= n) \in candidates \union {0}
  BY <1>2
<1>4. PreliminaryCheck(rows, v) = CHOOSE n \in candidates \union {0} : \A m \in candidates : m <= n
  BY DEF PreliminaryCheck, candidates
<1>. QED  BY <1>1, <1>3, <1>4

LEMMA RecoverJobInv ==
    ASSUME FactCheckIInv, NEW w \in Windows, RecoverJob(w)
    PROVE  FactCheckIInv'
<1>. USE DEF FactCheckIInv
<1>1. UNCHANGED <<store, checks, owner, asked, view, faults, reloads, reruns>>
  BY DEF RecoverJob
<1>2. StoreInv' /\ Grows
  BY <1>1, StoreUnchanged
<1>. DEFINE Runs(i) == ops[w][i].pc = "idle" /\ Resumable(pass[w].jobs[i].status)
            Started(i) == Stage(pass[w].jobs[i].version, pass[w].jobs[i].stage, pass[w].jobs[i],
                                PreliminaryCheck(pass[w].jobs, pass[w].jobs[i].version), "pass", 0)
<1>3. PICK i \in pass[w].ids :
         /\ ops' = IF Runs(i) THEN [ops EXCEPT ![w][i] = Started(i)] ELSE ops
         /\ pass' = [pass EXCEPT ![w].ids = @ \ {i}, ![w].current = IF Runs(i) THEN i ELSE 0]
  BY DEF RecoverJob
<1>. i \in JobIds
  BY DEF PassInv, Pass
<1>4. PassInv'
  <2>1. PICK current : current = IF Runs(i) THEN i ELSE 0
    OBVIOUS
  <2>2. current \in {0} \union JobIds
    BY <2>1
  <2>3. PICK new : new = [pass[w] EXCEPT !.ids = pass[w].ids \ {i}, !.current = current]
    OBVIOUS
  <2>4. new \in Pass /\ new.jobs = pass[w].jobs
    BY <2>2, <2>3 DEF PassInv, Pass
  <2>5. pass' = [pass EXCEPT ![w] = new]
    BY <1>3, <2>1, <2>3
  <2>. QED  BY <1>2, <2>4, <2>5, PassGoesOn
<1>5. OpsInv'
  <2>1. CASE ops' = ops
    BY <1>2, <2>1, Unmoved
  <2>2. CASE ops' # ops
    <3>1. PICK rows, row : rows = pass[w].jobs /\ row = rows[i]
      OBVIOUS
    <3>2. RowOk(i, row) /\ \A j \in JobIds : RowOk(j, rows[j])
      BY <3>1 DEF PassInv
    <3>3. PICK prelim : prelim = PreliminaryCheck(rows, row.version)
      OBVIOUS
    <3>4. prelim \in {0, 1}
      BY <3>2, <3>3, PreliminaryCheckTyped
    <3>5. /\ Resumable(row.status)
          /\ Step(w, i, Stage(row.version, row.stage, row, prelim, "pass", 0))
      BY <1>3, <2>2, <3>1, <3>3 DEF Step
    <3>6. row \in JobRow /\ row.key = 1
      BY <3>2, <3>5, Constants DEF RowOk, Resumable
    <3>7. /\ row.version \in Requests /\ row.stage \in Stages
          /\ ResearchAttemptPlan(row).key \in Keys
          /\ row.stage = "deep" => HasPreliminary(row.version)
      BY <3>2, <3>5, <3>6, Constants DEF ResearchAttemptPlan, RowOk, JobRow
    <3>8. PICK v, stage : v = row.version /\ stage = row.stage
      OBVIOUS
    <3>9. "pass" \in {"request", "rerun", "escalate", "policy", "pass"}
      OBVIOUS
    <3>. QED  BY <1>2, <3>2, <3>4, <3>5, <3>7, <3>8, <3>9, StartFrom
  <2>. QED  BY <2>1, <2>2
<1>. QED  BY <1>1, <1>2, <1>4, <1>5, Unmoved DEF ChecksInv, AskedInv, CountsInv

LEMMA PassEndsInv ==
    ASSUME FactCheckIInv, NEW w \in Windows, PassEnds(w)
    PROVE  FactCheckIInv'
<1>. USE DEF FactCheckIInv
<1>1. StoreInv' /\ Grows
  BY StoreUnchanged DEF PassEnds
<1>2. PassInv'
  BY <1>1, PassStarts DEF PassEnds
<1>. QED  BY <1>1, <1>2, Unmoved DEF PassEnds, ChecksInv, AskedInv, CountsInv

LEMMA CheckSettlesInv ==
    ASSUME FactCheckIInv, NEW k \in CheckKeys, CheckSettles(k)
    PROVE  FactCheckIInv'
<1>. USE DEF FactCheckIInv
<1>1. StoreInv' /\ Grows
  BY StoreUnchanged DEF CheckSettles
<1>2. PICK outcome \in Outcomes : checks' = [checks EXCEPT ![k] = outcome]
  BY DEF CheckSettles
<1>3. ChecksInv'
  BY <1>2 DEF CheckSettles, ChecksInv
<1>. QED  BY <1>1, <1>3, Unmoved DEF CheckSettles, AskedInv, CountsInv

LEMMA ReloadInv ==
    ASSUME FactCheckIInv, NEW w \in Windows, Reload(w)
    PROVE  FactCheckIInv'
<1>. USE DEF FactCheckIInv
<1>1. /\ ops' = [ops EXCEPT ![w] = [i \in JobIds |-> Idle]]
      /\ asked' = [asked EXCEPT ![w] = [r \in Requests |-> "idle"]]
      /\ view' = [view EXCEPT ![w] = NoView] /\ pass' = [pass EXCEPT ![w] = Startup]
      /\ UNCHANGED <<store, checks, faults, reruns>>
      /\ reloads < MaxReloads /\ reloads' = reloads + 1
  BY DEF Reload
<1>2. StoreInv' /\ Grows
  BY <1>1, StoreUnchanged
<1>3. ChecksInv'
  BY <1>1 DEF Reload, ChecksInv
<1>4. OpsInv'
  <2>1. ops' \in [Windows -> [JobIds -> Op \union {Idle}]]
    BY <1>1 DEF OpsInv
  <2>2. \A x \in Windows, i \in JobIds : ops'[x][i] = ops[x][i] \/ ops'[x][i] = Idle
    BY <1>1 DEF OpsInv
  <2>. QED  BY <1>2, <2>1, <2>2, OpsEnd
<1>5. ViewInv'
  <2>1. \A i \in JobIds : RowOk(i, NoView.jobs[i])'
    BY NoViewTyped DEF RowOk, NoView
  <2>. QED  BY <1>1, <1>2, <2>1, NoViewTyped, ViewSet
<1>6. PassInv'
  BY <1>1, <1>2, PassStarts
<1>7. AskedInv' /\ CountsInv'
  BY <1>1, FactCheckAssumption DEF AskedInv, CountsInv
<1>. QED  BY <1>2, <1>3, <1>4, <1>5, <1>6, <1>7

-----------------------------------------------------------------------------
(* The theorems.                                                           *)

LEMMA InitInv == Init => FactCheckIInv
<1>. SUFFICES ASSUME Init PROVE FactCheckIInv
  OBVIOUS
<1>1. StoreInv
  BY Constants DEF Init, StoreInv, RequestStatus, ClaimStatus, RowOk, OneJobPerStage
<1>2. ChecksInv /\ AskedInv
  BY DEF Init, ChecksInv, AskedInv
<1>3. OpsInv
  BY DEF Init, OpsInv, OpOk
<1>4. ViewInv
  BY NoViewTyped DEF Init, ViewInv, RowOk
<1>5. PassInv
  BY NoPassTyped DEF Init, PassInv, RowOk
<1>6. CountsInv
  BY FactCheckAssumption DEF Init, CountsInv
<1>. QED  BY <1>1, <1>2, <1>3, <1>4, <1>5, <1>6 DEF FactCheckIInv

LEMMA StepInv == ASSUME FactCheckIInv, [Next]_vars PROVE FactCheckIInv'
<1>1. CASE UNCHANGED vars
  <2>1. UNCHANGED <<store, checks, owner, ops, asked, view, pass, faults, reloads, reruns>>
    BY <1>1 DEF vars, store
  <2>2. StoreInv' /\ Grows
    BY <2>1, StoreUnchanged DEF FactCheckIInv
  <2>. QED  BY <2>1, <2>2, Unmoved DEF FactCheckIInv, ChecksInv, AskedInv, CountsInv
<1>2. ASSUME NEW w \in Windows, NEW i \in JobIds, ResearchStep(w, i) PROVE FactCheckIInv'
  BY <1>2, PersistPendingInv, SubmitInv, PersistAcceptedInv, SettleInv, PollFailsInv,
     PersistFailureInv DEF ResearchStep
<1>3. ASSUME NEW w \in Windows, RecoverStep(w) PROVE FactCheckIInv'
  BY <1>3, RecoverMeetingJobsInv, LoadMeetingsInv, RecoverRequestInv, RecoverJobInv, PassEndsInv
  DEF RecoverStep
<1>. QED  BY <1>1, <1>2, <1>3, CheckSettlesInv, RequestStepsInv, ClickInv, OpenMeetingInv, ReloadInv
     DEF Next

\* Every row and every call, in the store, in a page and in a recovery pass, has its type
\* and the first key of its job, or will be refused by the store (runResearchStage,
\* upsert_research_job).
THEOREM FactCheckInvariant == Spec => []FactCheckIInv
  BY InitInv, StepInv, PTL DEF Spec

\* The store's keys make research exclusive: whatever windows, recovery passes, reruns,
\* reloads and failing calls there are, a claim has one job a stage, the gateway never
\* works on two checks of one, and deep research has a preliminary finding to escalate
\* (runResearchStage, escalateClaim, upsert_research_job).
THEOREM ResearchIsExclusive == Spec => []FactCheckInv
<1>1. FactCheckIInv => FactCheckInv
  <2>. SUFFICES ASSUME FactCheckIInv PROVE FactCheckInv
    OBVIOUS
  <2>. USE DEF FactCheckIInv
  <2>1. FactCheckTypeOK
    <3>1. \A i \in JobIds : jobs[i].key = jobs[i].attempt
      BY DEF StoreInv, RowOk, NoJob
    <3>2. \A w \in Windows : pass[w].phase \in {"idle", "listed", "running"}
      BY DEF PassInv, Pass
    <3>. QED  BY <3>1, <3>2 DEF FactCheckTypeOK, StoreInv, ChecksInv, AskedInv, CountsInv, Findings,
                ClaimStatus
  <2>2. NoConcurrentChecks
    <3>. SUFFICES ASSUME NEW v \in Requests, NEW s \in Stages
                  PROVE  Cardinality({n \in Keys : checks[<<v, s, n>>] = "active"}) <= 1
      BY DEF NoConcurrentChecks
    <3>1. PICK active : active = {n \in Keys : checks[<<v, s, n>>] = "active"}
      OBVIOUS
    <3>2. active \subseteq {1}
      BY <3>1 DEF ChecksInv, CheckKeys
    <3>3. PICK first : first = {1}
      OBVIOUS
    <3>4. IsFiniteSet(first) /\ Cardinality(first) = 1
      BY <3>3, FS_Singleton
    <3>5. Cardinality(active) <= Cardinality(first)
      BY <3>2, <3>3, <3>4, FS_Subset
    <3>. QED  BY <3>1, <3>4, <3>5
  <2>3. DeepAfterPreliminary
    BY DEF StoreInv, RowOk, NoJob, HasPreliminary, DeepAfterPreliminary
  <2>. QED  BY <2>1, <2>2, <2>3 DEF FactCheckInv, StoreInv
<1>. QED  BY <1>1, FactCheckInvariant, PTL

\* A request that is complete or failed stays so, although a window may still save an
\* older status for it after a failure or another window's work
\* (manual_fact_check_status_transition_allowed).
THEOREM SettledRequestsStay == Spec => RequestsStaySettled
<1>1. ASSUME FactCheckIInv, [Next]_vars, NEW r \in Requests, request[r] \in {"complete", "failed"}
      PROVE  request'[r] = request[r]
  <2>1. CASE request' = request
    BY <2>1
  <2>2. ASSUME NEW x \in Requests, NEW status, TransitionAllowed(request[x], status),
               request' = [request EXCEPT ![x] = status]
        PROVE  request'[r] = request[r]
    BY <1>1, <2>2 DEF TransitionAllowed, FactCheckIInv, StoreInv
  <2>3. ASSUME NEW w \in Windows, NEW x \in Requests, FactCheckSelection(w, x) \/ RequestStep(w, x)
        PROVE  request'[r] = request[r]
    <3>1. ASSUME NEW status, UNCHANGED store \/
                   (TransitionAllowed(request[x], status) /\ ApplyRequest(x, status))
          PROVE  request'[r] = request[r]
      BY <2>1, <2>2, <3>1 DEF ApplyRequest, store
    <3>2. CASE FactCheckSelection(w, x)
      BY <3>1, <3>2 DEF FactCheckSelection, PersistRequest, store
    <3>3. CASE ProcessRequest(w, x)
      BY <3>1, <3>3 DEF ProcessRequest, PersistRequest, store
    <3>4. CASE CompleteRequest(w, x)
      BY <3>1, <3>4 DEF CompleteRequest, PersistRequest, store
    <3>5. CASE FailRequest(w, x)
      BY <3>1, <3>5 DEF FailRequest, PersistRequest, store
    <3>. QED  BY <2>3, <3>2, <3>3, <3>4, <3>5 DEF RequestStep
  <2>4. ASSUME NEW w \in Windows, NEW i \in JobIds, ResearchStep(w, i) PROVE request' = request
    <3>1. CASE PersistPending(w, i)
      BY <3>1, SMTT(30) DEF PersistPending, PersistResearch, ApplyResearch, store
    <3>2. CASE Submit(w, i) \/ PollFails(w, i)
      BY <3>2, ZenonT(40) DEF Submit, PollFails, store
    <3>3. CASE PersistAccepted(w, i)
      BY <3>3, SMTT(30) DEF PersistAccepted, PersistResearch, ApplyResearch, store
    <3>4. CASE Settle(w, i)
      BY <3>4, SMTT(30) DEF Settle, PersistResearch, ApplyResearch, store
    <3>5. CASE PersistFailure(w, i)
      BY <3>5 DEF PersistFailure, PersistResearch, ApplyResearch, store
    <3>. QED  BY <2>4, <3>1, <3>2, <3>3, <3>4, <3>5 DEF ResearchStep
  <2>5. ASSUME NEW w \in Windows, RecoverStep(w) PROVE request' = request
    BY <2>5 DEF RecoverStep, RecoverMeetingJobs, LoadMeetings, RecoverRequest, RecoverJob, PassEnds,
       store
  <2>6. ASSUME NEW w \in Windows, NEW v \in Requests, RerunClaim(w, v) \/ EscalateClaim(w, v)
        PROVE  request' = request
    BY <2>6 DEF RerunClaim, EscalateClaim, store
  <2>7. ASSUME NEW w \in Windows, OpenMeeting(w) \/ Reload(w) PROVE request' = request
    BY <2>7 DEF OpenMeeting, Reload, store
  <2>8. ASSUME NEW k \in CheckKeys, CheckSettles(k) PROVE request' = request
    BY <2>8 DEF CheckSettles, store
  <2>9. CASE UNCHANGED vars
    BY <2>9 DEF vars
  <2>. QED  BY <1>1, <2>1, <2>3, <2>4, <2>5, <2>6, <2>7, <2>8, <2>9 DEF Next
<1>2. ASSUME FactCheckIInv, [Next]_vars
      PROVE  [\A r \in Requests : request[r] \in {"complete", "failed"} =>
                                    request'[r] = request[r]]_vars
  BY <1>1, <1>2
<1>. QED  BY <1>2, FactCheckInvariant, PTL DEF Spec, RequestsStaySettled
=============================================================================
