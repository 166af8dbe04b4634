-------------------------- MODULE LocalFactChecks --------------------------
(***************************************************************************)
(* The direct fact-check backend of the main process                       *)
(* (LocalFactCheckService.ts): a job per idempotency key, kept in memory   *)
(* and as one file per job under the meeting's directory, work queues that *)
(* run one job at a time, and the release of a deleted meeting, which      *)
(* removes the directory while calls, runs and saves are under way.        *)
(*                                                                         *)
(* The steps are the pieces of code between two awaits.  The research      *)
(* itself (evidence retrieval and synthesis) is its outcome.  Replies to   *)
(* callers are not represented: what a caller is told is the job's status  *)
(* in memory.  The renderer has at most one submission per key in flight   *)
(* (the job row that carries the key is saved first and its key is         *)
(* unique), so submissions of one job do not overlap.                      *)
(***************************************************************************)
EXTENDS Naturals, Sequences

CONSTANTS
    Jobs,         \* job ids: hashes of the meeting and the idempotency key
    Meetings,
    MeetingOf,    \* the meeting of a job
    QueueOf,      \* the work queue of a job: workQueue, manualWorkQueue or deepWorkQueue
    MaxFaults,    \* bound: failing file operations
    MaxRestarts   \* bound: crashes and quits of the application

ASSUME LocalFactCheckAssumption ==
    /\ MeetingOf \in [Jobs -> Meetings]
    /\ QueueOf \in [Jobs -> {"work", "manual", "deep"}]
    /\ MaxFaults \in Nat /\ MaxRestarts \in Nat

VARIABLES
    disk,       \* the status in the job's file, "none" without a file
    dir,        \* the meetings whose directory exists
    mem,        \* this.jobs
    calls,      \* submitFactCheck and pollFactCheck calls in flight, by job
    saves,      \* meetingPersistence: the chain of saves of each meeting
    lines,      \* the work queues
    run,        \* what the head of each queue is doing
    released,   \* releasedMeetings
    releasing,  \* releaseMeeting calls, by meeting
    disposed, faults, restarts

vars == <<disk, dir, mem, calls, saves, lines, run, released, releasing, disposed,
          faults, restarts>>

Queues == {"work", "manual", "deep"}
Runnable == {"pending", "running", "retry_wait"}
Settled == {"complete", "failed"}
Status == Runnable \union Settled

IsRunnable(status) == status \in Runnable

Released(j) == MeetingOf[j] \in released

\* runningJobs: the jobs in a queue.
Queued(j) == \E q \in Queues : \E n \in DOMAIN lines[q] : lines[q][n] = j

\* Fault: the queue does not look whether the job is already in it.
EnqueuesFault(j, status) == ~disposed /\ status # "none" /\ ~Released(j)

\* Fault: a job an earlier process had started is not queued again.
EnqueuesNewFault(j, status) == ~disposed /\ ~Queued(j) /\ status = "pending" /\ ~Released(j)

\* The conditions under which enqueue appends a job whose cached status is given.
Enqueues(j, status) == ~disposed /\ ~Queued(j) /\ status # "none" /\ ~Released(j)

Enqueue(j, status) ==
    lines' = IF Enqueues(j, status) THEN [lines EXCEPT ![QueueOf[j]] = Append(@, j)] ELSE lines

\* Appends a save to the chain of the job's meeting; by says who awaits it.  A save
\* for a released meeting returns at once and is not appended.
Save(j, status, by) ==
    saves' = [saves EXCEPT ![MeetingOf[j]] =
                Append(@, [job |-> j, status |-> status, by |-> by, pc |-> "queued"])]

\* rm of a meeting's directory.
RemoveDirectory(m) ==
    /\ dir' = dir \ {m}
    /\ disk' = [j \in Jobs |-> IF MeetingOf[j] = m THEN "none" ELSE disk[j]]

(***************************************************************************)
(* submitFactCheck and pollFactCheck.                                      *)
(***************************************************************************)

\* A cached job is answered at once; otherwise its file is read.  A released
\* meeting's call is refused.
Call(j, kind) ==
    /\ calls[j] = "none" /\ ~Released(j) /\ ~disposed
    /\ IF mem[j] # "none"
       THEN /\ IF IsRunnable(mem[j]) THEN Enqueue(j, mem[j]) ELSE UNCHANGED lines
            /\ UNCHANGED calls
       ELSE calls' = [calls EXCEPT ![j] = kind] /\ UNCHANGED lines
    /\ UNCHANGED <<disk, dir, mem, saves, run, released, releasing, disposed, faults, restarts>>

SubmitFactCheck(j) == Call(j, "submit")
PollFactCheck(j) == Call(j, "poll")

\* getJob finds the job's file.
Stored(j) == disk[j] # "none"

\* getJob read the file: a stored job is cached and, when it is runnable, queued; a
\* submission of an unknown job creates and saves it.
GetJob(j) ==
    /\ calls[j] \in {"submit", "poll"}
    /\ \/ /\ Released(j) \/ (~Stored(j) /\ calls[j] = "poll")
          /\ calls' = [calls EXCEPT ![j] = "none"]
          /\ UNCHANGED <<mem, lines, saves>>
       \/ /\ ~Released(j) /\ Stored(j)
          /\ mem' = [mem EXCEPT ![j] = disk[j]]
          /\ IF IsRunnable(disk[j]) THEN Enqueue(j, disk[j]) ELSE UNCHANGED lines
          /\ calls' = [calls EXCEPT ![j] = "none"]
          /\ UNCHANGED saves
       \/ /\ ~Released(j) /\ ~Stored(j) /\ calls[j] = "submit"
          /\ mem' = [mem EXCEPT ![j] = "pending"]
          /\ Save(j, "pending", "call")
          /\ calls' = [calls EXCEPT ![j] = "saving"]
          /\ UNCHANGED lines
    /\ UNCHANGED <<disk, dir, run, released, releasing, disposed, faults, restarts>>

\* The first save of a new job resolved: the job is queued, unless its meeting was
\* released meanwhile.  A failed save is reported; the job stays cached.
Submitted(j, good) ==
    /\ calls' = [calls EXCEPT ![j] = "none"]
    /\ mem' = IF Released(j) THEN [mem EXCEPT ![j] = "none"] ELSE mem
    /\ IF ~Released(j) /\ good THEN Enqueue(j, mem[j]) ELSE UNCHANGED lines
    /\ UNCHANGED run

(***************************************************************************)
(* runJob.                                                                 *)
(***************************************************************************)

\* The run ends and the next job of the queue may start.
Ends(q) ==
    /\ lines' = [lines EXCEPT ![q] = Tail(@)]
    /\ run' = [run EXCEPT ![q] = "idle"]

RunJob(q) ==
    /\ run[q] = "idle" /\ lines[q] # <<>>
    /\ LET j == Head(lines[q]) IN
       IF IsRunnable(mem[j]) /\ ~Released(j)
       THEN /\ Save(j, "running", "run")
            /\ run' = [run EXCEPT ![q] = "marking"]
            /\ UNCHANGED lines
       ELSE Ends(q) /\ UNCHANGED saves
    /\ UNCHANGED <<disk, dir, mem, calls, released, releasing, disposed, faults, restarts>>

\* The research returned, in the try block, or threw.  A disposed service keeps the job for the next
\* launch when the abort reached the research.
Research(q) ==
    /\ run[q] = "working"
    /\ LET j == Head(lines[q]) IN
       IF Released(j)
       THEN Ends(q) /\ UNCHANGED saves
       ELSE /\ \/ \E status \in Settled : Save(j, status, "try")
               \/ \E status \in {"failed"} \union (IF disposed THEN {"retry_wait"} ELSE {}) :
                     Save(j, status, "catch")
            /\ run' = [run EXCEPT ![q] = "saving"]
            /\ UNCHANGED lines
    /\ UNCHANGED <<disk, dir, mem, calls, released, releasing, disposed, faults, restarts>>

\* Fault: the status is published whether or not it could be saved.
PublishesFault(save, good) == ~Released(save.job)

\* updateJob after its save: what was saved becomes what callers are told.
Publishes(save, good) == good /\ ~Released(save.job)

RunSaved(save, good) ==
    LET q == QueueOf[save.job]
        j == save.job
    IN
    /\ mem' = IF Publishes(save, good) THEN [mem EXCEPT ![j] = save.status] ELSE mem
    /\ IF run[q] = "marking" /\ good /\ ~Released(j)
       THEN run' = [run EXCEPT ![q] = "working"] /\ UNCHANGED lines
       ELSE Ends(q)
    /\ UNCHANGED calls

(***************************************************************************)
(* persistJob.                                                             *)
(***************************************************************************)

Resolve(m, good) ==
    LET save == Head(saves[m]) IN
    /\ saves' = [saves EXCEPT ![m] = Tail(@)]
    /\ IF save.by = "call" THEN Submitted(save.job, good) ELSE RunSaved(save, good)

Moves(m, pc) ==
    /\ saves' = [saves EXCEPT ![m][1].pc = pc]
    /\ UNCHANGED <<mem, calls, lines, run>>

\* mkdir, the temporary file and the rename, with the checks for a release between.
PersistJob(m) ==
    /\ saves[m] # <<>>
    /\ LET save == Head(saves[m]) IN
       \/ /\ save.pc = "queued" /\ m \in released
          /\ Resolve(m, TRUE) /\ UNCHANGED <<dir, disk>>
       \/ /\ save.pc = "queued" /\ m \notin released
          /\ dir' = dir \union {m} /\ Moves(m, "directory") /\ UNCHANGED disk
       \/ /\ save.pc = "directory" /\ m \in released
          /\ RemoveDirectory(m) /\ Resolve(m, TRUE)
       \/ /\ save.pc = "directory" /\ m \notin released
          /\ Moves(m, "written") /\ UNCHANGED <<dir, disk>>
       \/ /\ save.pc = "written" /\ (m \in released \/ m \notin dir)
          /\ Resolve(m, m \in released) /\ UNCHANGED <<dir, disk>>
       \/ /\ save.pc = "written" /\ m \notin released /\ m \in dir
          /\ disk' = [disk EXCEPT ![save.job] = save.status]
          /\ Moves(m, "renamed") /\ UNCHANGED dir
       \/ /\ save.pc = "renamed"
          /\ IF m \in released THEN RemoveDirectory(m) ELSE UNCHANGED <<dir, disk>>
          /\ Resolve(m, TRUE)
    /\ UNCHANGED <<released, releasing, disposed, faults, restarts>>

\* A file operation fails before the rename.  A failure in runJob's try block is
\* caught there, and the job is saved as failed instead.
PersistFails(m) ==
    /\ saves[m] # <<>> /\ Head(saves[m]).pc \in {"queued", "directory", "written"}
    /\ faults < MaxFaults /\ faults' = faults + 1
    /\ LET save == Head(saves[m]) IN
       IF save.by = "try" /\ m \notin released
       THEN /\ saves' = [saves EXCEPT ![m] =
                          Append(Tail(@), [save EXCEPT !.status = "failed", !.by = "catch", !.pc = "queued"])]
            /\ UNCHANGED <<mem, calls, lines, run>>
       ELSE Resolve(m, FALSE)
    /\ UNCHANGED <<disk, dir, released, releasing, disposed, restarts>>

(***************************************************************************)
(* releaseMeeting, dispose and the end of the process.                     *)
(***************************************************************************)

\* Fault: the meeting is marked as released only when its files are gone.
MarksReleasedFault(m) == UNCHANGED released

\* The meeting is marked before anything is removed.
MarksReleased(m) == released' = released \union {m}

\* Its jobs leave memory, and the chain of saves as it stands is awaited.
ReleaseMeeting(m) ==
    /\ releasing[m] # "waiting"
    /\ MarksReleased(m)
    /\ mem' = [j \in Jobs |-> IF MeetingOf[j] = m THEN "none" ELSE mem[j]]
    /\ releasing' = [releasing EXCEPT ![m] = "waiting"]
    /\ UNCHANGED <<disk, dir, calls, saves, lines, run, disposed, faults, restarts>>

RemoveMeeting(m) ==
    /\ releasing[m] = "waiting" /\ saves[m] = <<>>
    /\ RemoveDirectory(m)
    /\ releasing' = [releasing EXCEPT ![m] = "done"]
    /\ UNCHANGED <<mem, calls, saves, lines, run, released, disposed, faults, restarts>>

Dispose ==
    /\ ~disposed /\ restarts < MaxRestarts
    /\ disposed' = TRUE
    /\ UNCHANGED <<disk, dir, mem, calls, saves, lines, run, released, releasing, faults, restarts>>

\* The process ends, after a quit or without one, and a new one starts.
Restart ==
    /\ restarts < MaxRestarts /\ restarts' = restarts + 1
    /\ mem' = [j \in Jobs |-> "none"]
    /\ calls' = [j \in Jobs |-> "none"]
    /\ saves' = [m \in Meetings |-> <<>>]
    /\ lines' = [q \in Queues |-> <<>>]
    /\ run' = [q \in Queues |-> "idle"]
    /\ released' = {} /\ disposed' = FALSE
    /\ releasing' = [m \in Meetings |-> "none"]
    /\ UNCHANGED <<disk, dir, faults>>

-----------------------------------------------------------------------------

Init ==
    /\ disk = [j \in Jobs |-> "none"] /\ dir = {}
    /\ mem = [j \in Jobs |-> "none"]
    /\ calls = [j \in Jobs |-> "none"]
    /\ saves = [m \in Meetings |-> <<>>]
    /\ lines = [q \in Queues |-> <<>>]
    /\ run = [q \in Queues |-> "idle"]
    /\ released = {} /\ releasing = [m \in Meetings |-> "none"]
    /\ disposed = FALSE /\ faults = 0 /\ restarts = 0

Next ==
    \/ \E j \in Jobs : SubmitFactCheck(j) \/ PollFactCheck(j) \/ GetJob(j)
    \/ \E q \in Queues : RunJob(q) \/ Research(q)
    \/ \E m \in Meetings : PersistJob(m) \/ PersistFails(m) \/ ReleaseMeeting(m) \/ RemoveMeeting(m)
    \/ Dispose \/ Restart

Spec == Init /\ [][Next]_vars

\* Promises settle, the research ends, the renderer keeps polling a job it was
\* told of, and a disposed service's process ends.
Fairness ==
    /\ \A j \in Jobs : WF_vars(PollFactCheck(j)) /\ WF_vars(GetJob(j))
    /\ \A q \in Queues : WF_vars(RunJob(q)) /\ WF_vars(Research(q))
    /\ \A m \in Meetings : WF_vars(PersistJob(m)) /\ WF_vars(RemoveMeeting(m))
    /\ WF_vars(disposed /\ Restart)

FairSpec == Spec /\ Fairness

-----------------------------------------------------------------------------
(***************************************************************************)
(* Properties.                                                             *)
(***************************************************************************)

SaveRecord == [job : Jobs, status : Status, by : {"call", "run", "try", "catch"},
               pc : {"queued", "directory", "written", "renamed"}]

\* The state has the shapes the service gives it.
LocalFactCheckTypeOK ==
    /\ disk \in [Jobs -> Status \union {"none"}]
    /\ mem \in [Jobs -> Status \union {"none"}]
    /\ dir \subseteq Meetings /\ released \subseteq Meetings
    /\ calls \in [Jobs -> {"none", "submit", "poll", "saving"}]
    /\ saves \in [Meetings -> Seq(SaveRecord)]
    /\ lines \in [Queues -> Seq(Jobs)]
    /\ run \in [Queues -> {"idle", "marking", "working", "saving"}]
    /\ releasing \in [Meetings -> {"none", "waiting", "done"}]

\* A caller that is told a job is settled is told the same after a crash: the
\* status was on disk first (updateJob).
ReportedIsDurable ==
    \A j \in Jobs : (mem[j] \in Settled /\ ~Released(j)) => disk[j] = mem[j]

\* Once releaseMeeting has returned, no save that was under way, no run and no call
\* brings a file of the meeting back (releaseMeeting, persistJob).
ReleasedStaysGone ==
    \A m \in Meetings : releasing[m] = "done" => m \notin dir

\* A job is in its queue once, so it is researched by one run at a time, however
\* often it is submitted and polled (enqueue, runningJobs).
OneRunPerJob ==
    \A q \in Queues : \A n, k \in DOMAIN lines[q] : lines[q][n] = lines[q][k] => n = k

\* A queue holds its own jobs, and one while it runs (enqueue).
QueuesHoldTheirJobs ==
    \A q \in Queues : /\ run[q] # "idle" => lines[q] # <<>>
                      /\ \A n \in DOMAIN lines[q] : QueueOf[lines[q][n]] = q

\* A file is in a directory (persistJob, releaseMeeting).
FilesHaveDirectories == \A j \in Jobs : disk[j] # "none" => MeetingOf[j] \in dir

Members(s) == {s[n] : n \in DOMAIN s}

\* A chain of saves of meeting m: its own jobs, each once, and only the head has begun.
ChainOK(m, s) ==
    /\ s \in Seq(SaveRecord)
    /\ \A n \in DOMAIN s :
          /\ MeetingOf[s[n].job] = m
          /\ n # 1 => s[n].pc = "queued"
          /\ \A k \in DOMAIN s : s[k].job = s[n].job => k = n

\* A job's next save is only asked for when its last one is done (persistJob).
SavesAreChained == \A m \in Meetings : ChainOK(m, saves[m])

WorksOn(q, j) == run[q] # "idle" /\ Head(lines[q]) = j

\* Whoever asked for the save waits for it: the submission, or the run at the head
\* of the job's queue (submitFactCheck, updateJob).
SaveIsAwaited(save) ==
    LET q == QueueOf[save.job] IN
    IF save.by = "call"
    THEN calls[save.job] = "saving"
    ELSE /\ WorksOn(q, save.job)
         /\ run[q] = (IF save.by = "run" THEN "marking" ELSE "saving")
         /\ save.by = "run" => save.status = "running"

SavesAreAwaited ==
    \A m \in Meetings : \A save \in Members(saves[m]) : SaveIsAwaited(save)

\* A job is in its own queue, once, and has one save under way, which somebody awaits,
\* whatever was submitted, polled and released (the parts above).
LocalInv ==
    /\ LocalFactCheckTypeOK
    /\ OneRunPerJob
    /\ QueuesHoldTheirJobs
    /\ FilesHaveDirectories
    /\ SavesAreChained
    /\ SavesAreAwaited

\* A settled job is never researched again: its file keeps its status until its
\* meeting is released (isRunnable, runJob).
SettledStaysSettled ==
    [][\A j \in Jobs : disk[j] \in Settled => disk'[j] \in {disk[j], "none"}]_vars

\* Every job that was saved is settled in the end, across restarts, as long as its
\* meeting is not deleted and it is polled (pollFactCheck, enqueue, dispose).
JobsSettle ==
    \A j \in Jobs : disk[j] \in Runnable
                      ~> (disk[j] \notin Runnable \/ Released(j))

\* Every saved job settles, and once only (isRunnable, runJob, enqueue).
JobsSettleForGood == SettledStaysSettled /\ JobsSettle
=============================================================================
