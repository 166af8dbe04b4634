--------------------------- MODULE MeetingCleanup ---------------------------
(***************************************************************************)
(* The deletion of a meeting: the tombstone and the cleanup job of the     *)
(* meeting store (store.rs), the three deletions a window asks for (local  *)
(* files, the gateway's data, the providers' data), the confirmation that  *)
(* records how far they got, and the recovery passes that try again        *)
(* (LiveMeetingRuntimeProvider.tsx).                                       *)
(*                                                                         *)
(* The gateway and its providers are external.  A deletion they accept is  *)
(* done at once or goes on by itself; a provider may refuse to delete      *)
(* early.  The gateway remembers a meeting it was asked to delete and      *)
(* takes no upload for it afterwards (its reply says alreadyDeleted).      *)
(* A window deletes one meeting at a time.                                 *)
(***************************************************************************)
EXTENDS Naturals

CONSTANTS
    Meetings, Windows,
    Routing,      \* preferredFactCheckBackend: "hosted" or "direct"
    MaxFaults,    \* bound: calls that fail or whose reply is lost
    MaxReloads    \* bound: launches of a window after its first one

ASSUME CleanupAssumption ==
    Routing \in {"hosted", "direct"} /\ MaxFaults \in Nat /\ MaxReloads \in Nat

VARIABLES
    row,        \* the meeting's row: present, tombstoned (deleted_at_ms) or gone
    job,        \* the statuses of its cleanup job, NoJob without one
    files,      \* the meetings with local files
    gateway,    \* what the gateway holds of a meeting
    provider,   \* what the providers hold of it
    uploads,    \* the meetings whose refinement upload is under way
    erased,     \* the meetings the gateway was asked to delete
    ops,        \* the deletions a window runs: one for the user, one for the pass
    inFlight,   \* recoveredCleanupJobsInFlightRef
    pass,       \* the recovery pass of a window
    reconciled, \* startupReconciled
    faults, reloads

vars == <<row, job, files, gateway, provider, uploads, erased, ops, inFlight, pass,
          reconciled, faults, reloads>>

Remote == <<gateway, provider, uploads, erased>>

Slots == {"user", "pass"}
NoJob == [local |-> "none", gateway |-> "none", provider |-> "none"]
NewJob == [local |-> "pending", gateway |-> "pending", provider |-> "pending"]
Idle == [pc |-> "idle"]

Statuses(j) == {j.local, j.gateway, j.provider}

\* Fault: a deletion the gateway has only begun counts as done.
CleanupTerminalFault(status) == status \in {"complete", "unavailable", "running"}

CleanupTerminal(status) == status \in {"complete", "unavailable"}

Terminal(j) == \A status \in Statuses(j) : CleanupTerminal(status)

\* The first argument of meetingCleanupConfirmation.
LocalStatus(good) == IF good THEN "complete" ELSE "retry_wait"

\* Fault: only startup passes resume a deletion.
ResumableFault(j, startup) ==
    /\ Statuses(j) \subseteq {"pending", "retry_wait", "complete", "unavailable"}
    /\ startup

\* resumableRecoveredCleanupJob.
Resumable(j, startup) ==
    /\ Statuses(j) \subseteq {"pending", "retry_wait", "complete", "unavailable"}
    /\ "retry_wait" \in Statuses(j) \/ (startup /\ "pending" \in Statuses(j))

\* recover's update of the statuses a process that ended left as running.
Reconcile(j) == [part \in DOMAIN j |-> IF j[part] = "running" THEN "retry_wait" ELSE j[part]]

\* recover's selection of cleanup jobs.
Listed(j) ==
    Statuses(j) \intersect {"pending", "retry_wait"} # {} /\ "running" \notin Statuses(j)

Fault == faults < MaxFaults /\ faults' = faults + 1
NoFault == UNCHANGED faults

\* A window starts the deletions of a meeting whose cleanup job it knows.
Begin(w, slot, m) ==
    /\ ops' = [ops EXCEPT ![w][slot] =
                 [pc |-> "parts", meeting |-> m, local |-> "none", remote |-> FALSE, job |-> NoJob]]
    /\ inFlight' = [inFlight EXCEPT ![w] = @ \union {m}]

(***************************************************************************)
(* deleteMeeting.                                                          *)
(***************************************************************************)

\* The user confirms the deletion of a meeting in the window's history, which may be
\* older than a deletion in another window.
DeleteMeeting(w, m) ==
    /\ ops[w]["user"] = Idle
    /\ ops' = [ops EXCEPT ![w]["user"] = [pc |-> "delete", meeting |-> m]]
    /\ UNCHANGED <<row, job, files, Remote, inFlight, pass, reconciled, faults, reloads>>

\* INSERT ... ON CONFLICT(meeting_id) DO NOTHING.
CleanupJob(m) == IF job[m] = NoJob THEN NewJob ELSE job[m]

\* delete_meeting: the tombstone and the cleanup job are one transaction, and a
\* second deletion finds both.  The call may fail, before or after the commit.
StoreDelete(w) ==
    /\ ops[w]["user"].pc = "delete"
    /\ LET m == ops[w]["user"].meeting
           commit == /\ row' = [row EXCEPT ![m] = "tombstoned"]
                     /\ job' = [job EXCEPT ![m] = CleanupJob(m)]
           throw == ops' = [ops EXCEPT ![w]["user"] = Idle] /\ UNCHANGED inFlight
       IN
       \/ row[m] = "gone" /\ throw /\ NoFault /\ UNCHANGED <<row, job>>
       \/ row[m] # "gone" /\ commit /\ Begin(w, "user", m) /\ NoFault
       \/ row[m] # "gone" /\ commit /\ throw /\ Fault
       \/ throw /\ Fault /\ UNCHANGED <<row, job>>
    /\ UNCHANGED <<files, Remote, pass, reconciled, reloads>>

\* deleteLocalMeetingAssets: the audio and the fact-check jobs of the meeting.
DeleteLocal(w, slot) ==
    /\ ops[w][slot].pc = "parts" /\ ops[w][slot].local = "none"
    /\ \/ files' = files \ {ops[w][slot].meeting}
          /\ ops' = [ops EXCEPT ![w][slot].local = LocalStatus(TRUE)] /\ NoFault
       \/ /\ ops' = [ops EXCEPT ![w][slot].local = LocalStatus(FALSE)] /\ Fault
          /\ UNCHANGED files
    /\ UNCHANGED <<row, job, Remote, inFlight, pass, reconciled, reloads>>

\* What an accepted deletion leaves of the data, and the status it is reported with.
Deleted(held, refusal) ==
    CASE held = "none" -> {<<"none", "complete">>}
      [] held = "deleting" -> {<<"deleting", "running">>}
      [] held = "retained" -> {<<"retained", "unavailable">>}
      [] held = "held" -> {<<"none", "complete">>, <<"deleting", "running">>}
                          \union (IF refusal THEN {<<"retained", "unavailable">>} ELSE {})

\* deleteRemoteMeeting and meetingCleanupConfirmation.  The direct backend answers
\* for the gateway without asking it.
DeleteRemote(w, slot) ==
    /\ ops[w][slot].pc = "parts" /\ ~ops[w][slot].remote
    /\ LET m == ops[w][slot].meeting
           answer(g, p) == ops' = [ops EXCEPT ![w][slot] =
                                     [@ EXCEPT !.remote = TRUE, !.job.gateway = g,
                                               !.job.provider = p]]
       IN
       \/ /\ Routing = "direct" /\ answer("complete", "unavailable")
          /\ NoFault /\ UNCHANGED Remote
       \/ /\ Routing = "hosted" /\ NoFault
          /\ \E g \in Deleted(gateway[m], FALSE), p \in Deleted(provider[m], TRUE) :
                /\ gateway' = [gateway EXCEPT ![m] = g[1]]
                /\ provider' = [provider EXCEPT ![m] = p[1]]
                /\ answer(g[2], p[2])
          /\ erased' = erased \union {m} /\ UNCHANGED uploads
       \/ /\ Routing = "hosted" /\ answer("retry_wait", "retry_wait")
          /\ Fault /\ UNCHANGED Remote
    /\ UNCHANGED <<row, job, files, inFlight, pass, reconciled, reloads>>

\* The window is done with the deletions of the meeting; a pass whose confirmation
\* threw is over, and the next one starts from the beginning.
Finish(w, slot, thrown) ==
    /\ ops' = [ops EXCEPT ![w][slot] = Idle]
    /\ inFlight' = [inFlight EXCEPT ![w] = @ \ {ops[w][slot].meeting}]
    /\ pass' = IF slot = "pass" /\ thrown THEN [pass EXCEPT ![w] = Idle] ELSE pass

\* confirm_cleanup: all three statuses are overwritten, and the meeting's records are
\* removed when all three are terminal.
ConfirmCleanup(w, slot) ==
    /\ ops[w][slot].pc = "parts" /\ ops[w][slot].local # "none" /\ ops[w][slot].remote
    /\ LET m == ops[w][slot].meeting
           parts == [ops[w][slot].job EXCEPT !.local = ops[w][slot].local]
           commit == /\ job' = [job EXCEPT ![m] = IF Terminal(parts) THEN NoJob ELSE parts]
                     /\ row' = [row EXCEPT ![m] = IF Terminal(parts) THEN "gone" ELSE @]
       IN
       \/ job[m] = NoJob /\ Finish(w, slot, TRUE) /\ NoFault /\ UNCHANGED <<row, job>>
       \/ job[m] # NoJob /\ commit /\ Finish(w, slot, FALSE) /\ NoFault
       \/ job[m] # NoJob /\ commit /\ Finish(w, slot, TRUE) /\ Fault
       \/ Finish(w, slot, TRUE) /\ Fault /\ UNCHANGED <<row, job>>
    /\ UNCHANGED <<files, Remote, reconciled, reloads>>

(***************************************************************************)
(* The recovery passes.                                                    *)
(***************************************************************************)

\* recover: a window's first pass reconciles the jobs an earlier process left
\* running; it counts as done as soon as the store has answered.
RecoverMeetingJobs(w) ==
    /\ pass[w] = Idle
    /\ LET startup == ~reconciled[w]
           jobs == IF startup THEN [m \in Meetings |-> Reconcile(job[m])] ELSE job
       IN
       \/ /\ job' = jobs /\ NoFault
          /\ pass' = [pass EXCEPT ![w] =
               [pc |-> "jobs", startup |-> startup,
                todo |-> {[meeting |-> m, job |-> jobs[m]] : m \in {n \in Meetings : Listed(jobs[n])}}]]
          /\ reconciled' = [reconciled EXCEPT ![w] = TRUE]
       \/ job' \in {job, jobs} /\ Fault /\ UNCHANGED <<pass, reconciled>>
    /\ UNCHANGED <<row, files, Remote, ops, inFlight, reloads>>

\* The pass takes up the next job as it read it.
ResumeCleanup(w) ==
    /\ pass[w].pc = "jobs" /\ ops[w]["pass"] = Idle
    /\ \E next \in pass[w].todo :
          /\ pass' = [pass EXCEPT ![w].todo = @ \ {next}]
          /\ IF next.meeting \notin inFlight[w] /\ Resumable(next.job, pass[w].startup)
             THEN Begin(w, "pass", next.meeting)
             ELSE UNCHANGED <<ops, inFlight>>
    /\ UNCHANGED <<row, job, files, Remote, reconciled, faults, reloads>>

PassEnds(w) ==
    /\ pass[w].pc = "jobs" /\ pass[w].todo = {} /\ ops[w]["pass"] = Idle
    /\ pass' = [pass EXCEPT ![w] = Idle]
    /\ UNCHANGED <<row, job, files, Remote, ops, inFlight, reconciled, faults, reloads>>

(***************************************************************************)
(* The end of a window, and the gateway.                                   *)
(***************************************************************************)

Launch(w) ==
    /\ reloads < MaxReloads /\ reloads' = reloads + 1
    /\ ops' = [ops EXCEPT ![w] = [slot \in Slots |-> Idle]]
    /\ inFlight' = [inFlight EXCEPT ![w] = {}]
    /\ pass' = [pass EXCEPT ![w] = Idle]
    /\ reconciled' = [reconciled EXCEPT ![w] = FALSE]
    /\ UNCHANGED <<row, job, files, Remote, faults>>

\* A refinement submission that was under way reaches the gateway.
Upload(m) ==
    /\ m \in uploads /\ uploads' = uploads \ {m}
    /\ IF m \in erased
       THEN UNCHANGED <<gateway, provider>>
       ELSE /\ gateway' = [gateway EXCEPT ![m] = "held"]
            /\ provider' = [provider EXCEPT ![m] = "held"]
    /\ UNCHANGED <<row, job, files, erased, ops, inFlight, pass, reconciled, faults, reloads>>

\* A deletion the gateway or a provider accepted is done.
RemoteFinishes(m) ==
    /\ \/ gateway[m] = "deleting" /\ gateway' = [gateway EXCEPT ![m] = "none"] /\ UNCHANGED provider
       \/ provider[m] = "deleting" /\ provider' = [provider EXCEPT ![m] = "none"] /\ UNCHANGED gateway
    /\ UNCHANGED <<row, job, files, uploads, erased, ops, inFlight, pass, reconciled, faults, reloads>>

-----------------------------------------------------------------------------

\* Finished meetings with their audio: refined by the gateway, or being refined.
Init ==
    /\ row = [m \in Meetings |-> "present"] /\ job = [m \in Meetings |-> NoJob]
    /\ files = Meetings /\ erased = {} /\ uploads \in SUBSET Meetings
    /\ gateway = [m \in Meetings |-> IF m \in uploads THEN "none" ELSE "held"]
    /\ provider = gateway
    /\ ops = [w \in Windows |-> [slot \in Slots |-> Idle]]
    /\ inFlight = [w \in Windows |-> {}]
    /\ pass = [w \in Windows |-> Idle]
    /\ reconciled = [w \in Windows |-> FALSE]
    /\ faults = 0 /\ reloads = 0

Next ==
    \/ \E w \in Windows, m \in Meetings : DeleteMeeting(w, m)
    \/ \E w \in Windows : StoreDelete(w) \/ RecoverMeetingJobs(w) \/ ResumeCleanup(w)
                            \/ PassEnds(w) \/ Launch(w)
    \/ \E w \in Windows, slot \in Slots :
          DeleteLocal(w, slot) \/ DeleteRemote(w, slot) \/ ConfirmCleanup(w, slot)
    \/ \E m \in Meetings : Upload(m) \/ RemoteFinishes(m)

Spec == Init /\ [][Next]_vars

\* Calls are answered, the pass runs every minute and gets through its jobs, and what
\* the gateway accepted is done in the end.
Fairness ==
    /\ \A w \in Windows : WF_vars(StoreDelete(w)) /\ WF_vars(RecoverMeetingJobs(w))
                            /\ WF_vars(ResumeCleanup(w)) /\ WF_vars(PassEnds(w))
    /\ \A w \in Windows, slot \in Slots :
          WF_vars(DeleteLocal(w, slot)) /\ WF_vars(DeleteRemote(w, slot))
            /\ WF_vars(ConfirmCleanup(w, slot))
    /\ \A m \in Meetings : WF_vars(RemoteFinishes(m))

FairSpec == Spec /\ Fairness

-----------------------------------------------------------------------------
(***************************************************************************)
(* Properties.                                                             *)
(***************************************************************************)

\* The state has the shapes the store and the windows give it; a meeting has a cleanup
\* job exactly while it is tombstoned.
CleanupTypeOK ==
    /\ row \in [Meetings -> {"present", "tombstoned", "gone"}]
    /\ \A m \in Meetings : job[m] # NoJob <=> row[m] = "tombstoned"
    /\ files \subseteq Meetings /\ uploads \subseteq Meetings /\ erased \subseteq Meetings
    /\ gateway \in [Meetings -> {"none", "held", "deleting"}]
    /\ provider \in [Meetings -> {"none", "held", "deleting", "retained"}]
    /\ inFlight \in [Windows -> SUBSET Meetings]
    /\ reconciled \in [Windows -> BOOLEAN]

\* The records of a meeting are removed only when nothing of it is left: no local
\* file, nothing at the gateway, and at the providers only what they refuse to delete
\* early (deleteMeeting, confirm_cleanup).
NothingLeftBehind ==
    \A m \in Meetings :
        row[m] = "gone" => /\ m \notin files
                           /\ gateway[m] = "none"
                           /\ provider[m] \in {"none", "retained"}

\* The tables and the windows have their shapes, and no record of a deletion goes
\* before what it stands for (the parts above).
CleanupInv == CleanupTypeOK /\ NothingLeftBehind

\* A deletion that is left to the next launch: a part of it still goes on at the
\* gateway, or none of its parts has been tried.
AwaitsLaunch(m) == "running" \in Statuses(job[m]) \/ "retry_wait" \notin Statuses(job[m])

\* A deletion whose parts failed is tried again every minute until it is done, or
\* until it is left to the next launch (startMeetingRecoveryLoop, recover,
\* resumableRecoveredCleanupJob).
DeletionRetried ==
    \A m \in Meetings : row[m] = "tombstoned" ~> (row[m] = "gone" \/ AwaitsLaunch(m))

\* Every deletion is finished while the application stays open: "Obelus will keep a
\* cleanup record and retry gateway or provider deletion" (deleteMeeting).
DeletionFinishes ==
    \A m \in Meetings : row[m] = "tombstoned" ~> row[m] = "gone"
=============================================================================
