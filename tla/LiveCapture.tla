---------------------------- MODULE LiveCapture ----------------------------
(***************************************************************************)
(* The capture of a live meeting in the main process: LiveCaptureCoordinator *)
(* and the handlers of registerLiveIpc.ts that drive it.  Windows send       *)
(* start, pause, resume, stop, acknowledge and delete requests, and audio    *)
(* frames over a message port whose connection serialises them.  Every       *)
(* `await` of a handler is a point where other handlers run; what a handler  *)
(* does between two awaits is one step.  The audio files are the promises of *)
(* AudioAssetWriter's interface: each call settles later, well or badly.     *)
(* Elapsed times, meters, timeline events other than the open pause, and the *)
(* sequence numbers of frames are left out: a refused frame has no effect.   *)
(***************************************************************************)
EXTENDS Naturals, FiniteSets, Sequences

CONSTANTS Windows, Meetings, Conns, None,
          Recovered,       \* the meetings the last launch recovered
          MaxPending,      \* MAX_PENDING_AUDIO_FRAMES
          MaxFrames,       \* bound: frames sent
          MaxFaults,       \* bound: failing calls of the audio store
          MaxPortCloses,   \* bound: ports the renderer gives up
          MaxReloads,      \* bound: page loads of a window
          MaxDisturbances, \* bound: the ports given up and page loads of one behaviour
          EarlyLeave,      \* a window may go while its start is pending
          Deletes          \* windows may delete audio

ASSUME CaptureAssumption ==
    /\ Recovered \subseteq Meetings
    /\ MaxPending \in Nat \ {0} /\ MaxFrames \in Nat /\ MaxFaults \in Nat
    /\ MaxPortCloses \in Nat /\ MaxReloads \in Nat /\ MaxDisturbances \in Nat
    /\ EarlyLeave \in BOOLEAN /\ Deletes \in BOOLEAN
    /\ None \notin Windows \union Meetings \union Conns
    /\ "stop" \notin Conns \union {None}

VARIABLES
    snap,             \* the snapshot: lifecycle, meeting, owner, assets, recovered, pause
    timers, timer,    \* interval timers that run; the coordinator holds one
    stopPromise,      \* none, pending, settled
    meetingOwners,    \* meeting |-> window
    starting,         \* startMeeting calls: meeting |-> requesting window
    store,            \* the audio store: none, open, finalizing, sealed, broken
    finalizer,        \* who awaits finalizeMeeting, per meeting
    conns, current,   \* audio port connections; audioConnections
    port, page,       \* the renderer's port and the meeting its page records
    waits,            \* handlers awaiting a connection's queue
    gone, released,   \* closed windows; windows whose liveOwnerRelease is set
    acking, deleting, \* calls of the audio store in flight
    frames, faults, closes, reloads,
    removed           \* history: meetings whose audio went while they were active

calls    == <<starting, store, finalizer, acking, deleting>>
clock    == <<timers, timer>>
ports    == <<conns, current, port>>
windows  == <<page, waits, gone, released>>
budget   == <<frames, faults, closes, reloads>>
vars     == <<snap, clock, stopPromise, meetingOwners, calls, ports, windows, budget, removed>>

ActiveLifecycles == {"starting", "recording", "paused", "stopping"}
Lifecycles == ActiveLifecycles \union {"idle", "complete", "interrupted", "error"}
IsActive == snap.lifecycle \in ActiveLifecycles

Disturbable == closes + reloads < MaxDisturbances

InitialSnapshot(left) == [lifecycle |-> "idle", meeting |-> None, owner |-> None,
                          assets |-> None, recovered |-> left, pause |-> FALSE]

NoAppend    == [stage |-> "idle", meeting |-> None, activates |-> FALSE]
Unused      == [window |-> None, meeting |-> None, accepting |-> FALSE, queue |-> <<>>,
                append |-> NoAppend]
NoFinalizer == [by |-> None, to |-> "none", detached |-> FALSE, release |-> None]

Init ==
    /\ \/ Recovered = {} /\ snap = InitialSnapshot({})
       \/ \E m \in Recovered :
            snap = [InitialSnapshot(Recovered) EXCEPT !.lifecycle = "interrupted",
                                                      !.meeting = m, !.assets = m]
    /\ timers = 0 /\ timer = FALSE /\ stopPromise = "none"
    /\ meetingOwners = [m \in Meetings |-> None]
    /\ starting = [m \in Meetings |-> None]
    /\ store = [m \in Meetings |-> IF m \in Recovered THEN "sealed" ELSE "none"]
    /\ finalizer = [m \in Meetings |-> NoFinalizer]
    /\ conns = [c \in Conns |-> Unused] /\ current = [w \in Windows |-> None]
    /\ port = [w \in Windows |-> None] /\ page = [w \in Windows |-> None]
    /\ waits = {} /\ gone = {} /\ released = {} /\ acking = {} /\ deleting = {}
    /\ frames = 0 /\ faults = 0 /\ closes = 0 /\ reloads = 0
    /\ removed = {}

----------------------------------------------------------------------------
(* Steps several handlers share.                                            *)

\* startTimer keeps the newest interval only; clearTimers stops that one.
StartTimer  == timers' = timers + 1 /\ timer' = TRUE
ClearTimers == timers' = (IF timer THEN timers - 1 ELSE timers) /\ timer' = FALSE

\* `this.snapshot.finalizedAssets = await ...` assigns to the object that was
\* the snapshot before the await: replacing the snapshot detaches the call.
Detach(fins) == [m \in Meetings |-> IF fins[m].by = None THEN fins[m]
                                    ELSE [fins[m] EXCEPT !.detached = TRUE]]

\* assertMeetingOwner throws, or records the window as the owner.
MayOwn(m, w) ==
    /\ meetingOwners[m] \in {None, w}
    /\ ~(IsActive /\ snap.meeting = m /\ snap.owner # w)

Adopted(m, w) == [snap EXCEPT !.owner = IF snap.meeting = m /\ @ = None THEN w ELSE @]

Accepting(c, value) == IF c = None THEN conns ELSE [conns EXCEPT ![c].accepting = value]

Drained(c) == conns[c].queue = <<>> /\ conns[c].append = NoAppend

\* Fault: the handler does not wait for the queue.
DrainDoneFault(h) == h \in waits
\* A handler that awaited its connection's queue goes on.
DrainDone(h) == h \in waits /\ (h.conn # None => Drained(h.conn))

\* Nothing is left to do for a promise that has settled: only then does the
\* event loop take a request, or the outcome of a call of the audio store.
Quiet ==
    /\ \A c \in Conns : conns[c].queue = <<>> \/ conns[c].append # NoAppend
    /\ \A h \in waits : h.kind = "release" \/ ~DrainDone(h)

----------------------------------------------------------------------------
(* start                                                                    *)

\* Fault: a capture may be started while the last one is still stopping.
MayStartFault == snap.lifecycle \notin {"starting", "recording"}
MayStart == ~IsActive

\* A page records every meeting once, under an id made for it.
Start(w, m) ==
    /\ Quiet /\ w \notin gone /\ MayStart /\ MayOwn(m, w)
    /\ store[m] = "none" /\ starting[m] = None /\ \A v \in Windows : page[v] # m
    /\ meetingOwners' = [meetingOwners EXCEPT ![m] = w]
    /\ snap' = [InitialSnapshot(snap.recovered) EXCEPT !.lifecycle = "starting",
                                                       !.meeting = m, !.owner = w]
    /\ ClearTimers /\ stopPromise' = "none"
    /\ finalizer' = Detach(finalizer)
    /\ starting' = [starting EXCEPT ![m] = w]
    /\ page' = [page EXCEPT ![w] = m]
    /\ UNCHANGED <<store, acking, deleting, ports, waits, gone, released, budget, removed>>

\* The handler then lets the window's connection accept frames.
StartResolves(m) ==
    /\ Quiet /\ starting[m] # None
    /\ store' = [store EXCEPT ![m] = "open"]
    /\ starting' = [starting EXCEPT ![m] = None]
    /\ conns' = Accepting(current[starting[m]], TRUE)
    /\ UNCHANGED <<snap, clock, stopPromise, meetingOwners, finalizer, acking, deleting, current,
                   port, windows, budget, removed>>

\* setError: the capture is in error, whatever it has become meanwhile.
StartRejects(m) ==
    /\ Quiet /\ starting[m] # None
    /\ faults < MaxFaults /\ faults' = faults + 1
    /\ starting' = [starting EXCEPT ![m] = None]
    /\ snap' = [snap EXCEPT !.lifecycle = "error"] /\ ClearTimers
    /\ UNCHANGED <<stopPromise, meetingOwners, store, finalizer, acking, deleting, ports, windows,
                   frames, closes, reloads, removed>>

----------------------------------------------------------------------------
(* The audio port                                                           *)

\* The page of w records a meeting whose start has returned to it.
Captures(w) ==
    /\ w \notin gone /\ page[w] # None
    /\ starting[page[w]] = None /\ store[page[w]] # "none"

\* Its transport has connected: start's caller does so before anything else.
Connected(w) == Captures(w) /\ \E c \in Conns : conns[c].window = w
                                               /\ conns[c].meeting = page[w]

Free(c) ==
    /\ Drained(c)
    /\ \A w \in Windows : c \notin {current[w], port[w]}
    /\ \A h \in waits : h.conn # c

\* The transport connects after start, and again when a frame finds no port.
OpenPort(w, c) ==
    /\ Quiet /\ Captures(w) /\ Free(c)
    /\ (port[w] # None => conns[port[w]].meeting # page[w])
    /\ conns' = [conns EXCEPT ![c] = [Unused EXCEPT !.window = w, !.meeting = page[w],
                   !.accepting = snap.owner = w
                                 /\ snap.lifecycle \in {"starting", "recording"}]]
    /\ current' = [current EXCEPT ![w] = c] /\ port' = [port EXCEPT ![w] = c]
    /\ UNCHANGED <<snap, clock, stopPromise, meetingOwners, calls, windows, budget, removed>>

\* What the close event of w's port does to audioConnections.
PortClosed(w) ==
    /\ port' = [port EXCEPT ![w] = None]
    /\ current' = IF current[w] = port[w] THEN [current EXCEPT ![w] = None] ELSE current

\* The transport closes a port whose acknowledgement timed out.
ClosePort(w) ==
    /\ Quiet /\ port[w] # None /\ closes < MaxPortCloses /\ Disturbable
    /\ closes' = closes + 1
    /\ PortClosed(w)
    /\ UNCHANGED <<snap, clock, stopPromise, meetingOwners, calls, conns, windows, frames, faults,
                   reloads, removed>>

Pending(c) == Len(conns[c].queue) + (IF conns[c].append = NoAppend THEN 0 ELSE 1)
HasRoom(c) == Pending(c) < MaxPending

Frame(w) ==
    LET c == port[w]
    IN  /\ Quiet /\ Captures(w) /\ c # None /\ frames < MaxFrames
        /\ conns[c].meeting = page[w]
        /\ conns[c].accepting /\ HasRoom(c)
        /\ frames' = frames + 1
        /\ conns' = [conns EXCEPT ![c].queue = Append(@, page[w])]
        /\ UNCHANGED <<snap, clock, stopPromise, meetingOwners, calls, current, port, windows,
                       faults, closes, reloads, removed>>

\* appendAudio refuses a frame of another window, of another meeting, or in
\* another lifecycle.
Taken(c) ==
    /\ snap.owner = conns[c].window /\ snap.meeting = Head(conns[c].queue)
    /\ snap.lifecycle \in {"starting", "recording"}

\* appendAudio up to its first await.  A meeting the store does not hold open
\* is refused by appendFrame and again by finalizeMeeting.
AppendAudio(c) ==
    /\ conns[c].queue # <<>> /\ conns[c].append = NoAppend
    /\ LET m == Head(conns[c].queue)
           opened == store[m] = "open"
       IN  /\ conns' = [conns EXCEPT ![c].queue = Tail(@),
                 ![c].append = IF Taken(c) /\ opened
                               THEN [stage |-> "write", meeting |-> m,
                                     activates |-> snap.lifecycle = "starting"]
                               ELSE NoAppend]
           /\ IF Taken(c) /\ ~opened
              THEN /\ snap' = [snap EXCEPT !.lifecycle = "error", !.assets = None,
                                           !.pause = FALSE]
                   /\ ClearTimers
              ELSE UNCHANGED <<snap, clock>>
    /\ UNCHANGED <<stopPromise, meetingOwners, calls, current, port, windows, budget, removed>>

\* The frame is written; the one that activates makes the capture recording.
AppendResolves(c) ==
    /\ Quiet /\ conns[c].append.stage = "write"
    /\ IF conns[c].append.activates
       THEN snap' = [snap EXCEPT !.lifecycle = "recording"] /\ StartTimer
       ELSE UNCHANGED <<snap, clock>>
    /\ conns' = [conns EXCEPT ![c].append = NoAppend]
    /\ UNCHANGED <<stopPromise, meetingOwners, calls, current, port, windows, budget, removed>>

\* The write fails: the handler finalizes what there is, as interrupted, and
\* the connection's queue waits for it.
AppendRejects(c) ==
    LET m == conns[c].append.meeting
        opened == store[m] = "open"
    IN  /\ Quiet /\ conns[c].append.stage = "write"
        /\ faults < MaxFaults /\ faults' = faults + 1
        /\ ClearTimers
        /\ snap' = [snap EXCEPT !.pause = FALSE,
                      !.lifecycle = IF opened THEN @ ELSE "error",
                      !.assets = IF opened THEN @ ELSE None]
        /\ store' = [store EXCEPT ![m] = IF opened THEN "finalizing" ELSE @]
        /\ finalizer' = [finalizer EXCEPT ![m] = IF opened THEN [NoFinalizer EXCEPT !.by = c]
                                                 ELSE @]
        /\ conns' = [conns EXCEPT ![c].append = IF opened THEN [@ EXCEPT !.stage = "finalize"]
                                                ELSE NoAppend]
        /\ UNCHANGED <<stopPromise, meetingOwners, starting, acking, deleting, current, port,
                       windows, frames, closes, reloads, removed>>

----------------------------------------------------------------------------
(* pause, resume and stop                                                   *)

\* pause, stop and releaseSender close the connection they find to new
\* frames and await its queue.
Waiting(kind, w) == [kind |-> kind, window |-> w, conn |-> current[w]]
StopAccepting(w) == conns' = Accepting(current[w], FALSE)
Request(kind, w) == waits' = waits \union {Waiting(kind, w)} /\ StopAccepting(w)

\* The header offers Pause, Resume and Stop while the meeting is recorded.
PauseRequest(w) ==
    /\ Quiet /\ Connected(w) /\ snap.lifecycle = "recording" /\ snap.owner = w
    /\ Request("pause", w)
    /\ UNCHANGED <<snap, clock, stopPromise, meetingOwners, calls, current, port, page, gone,
                   released, budget, removed>>

StopRequest(w) ==
    /\ Quiet /\ Connected(w)
    /\ Request("stop", w)
    /\ UNCHANGED <<snap, clock, stopPromise, meetingOwners, calls, current, port, page, gone,
                   released, budget, removed>>

Pause(h) ==
    /\ h.kind = "pause" /\ DrainDone(h)
    /\ waits' = waits \ {h}
    /\ snap' = IF snap.owner = h.window /\ snap.lifecycle = "recording"
               THEN [snap EXCEPT !.lifecycle = "paused", !.pause = TRUE] ELSE snap
    /\ UNCHANGED <<clock, stopPromise, meetingOwners, calls, ports, page, gone, released, budget,
                   removed>>

Reopened(w) == Accepting(current[w], TRUE)

\* A resume of a capture that is still recording only reopens the connection.
Resume(w) ==
    /\ Quiet /\ Connected(w) /\ snap.owner = w /\ snap.lifecycle \in {"recording", "paused"}
    /\ snap' = IF snap.lifecycle = "recording" THEN snap
               ELSE [snap EXCEPT !.lifecycle = "recording", !.pause = FALSE]
    /\ conns' = Reopened(w)
    /\ UNCHANGED <<clock, stopPromise, meetingOwners, calls, current, port, windows, budget,
                   removed>>

\* finalize, up to its await: the store refuses a meeting it does not hold
\* open, and the capture is then in error.
Finalize(to, release) ==
    LET m == snap.meeting
        opened == store[m] = "open"
    IN  /\ ClearTimers
        /\ snap' = [snap EXCEPT !.pause = FALSE,
                                !.lifecycle = IF opened THEN "stopping" ELSE "error"]
        /\ stopPromise' = IF opened THEN "pending" ELSE "settled"
        /\ store' = [store EXCEPT ![m] = IF opened THEN "finalizing" ELSE @]
        /\ finalizer' = [finalizer EXCEPT ![m] =
                           IF opened THEN [by |-> "stop", to |-> to, detached |-> FALSE,
                                           release |-> release]
                           ELSE @]

\* coordinator.stop: a second stop awaits or returns what the first one did.
Stop(h) ==
    /\ h.kind = "stop" /\ DrainDone(h)
    /\ waits' = waits \ {h}
    /\ IF snap.owner = h.window /\ stopPromise = "none" /\ IsActive
       THEN Finalize("complete", None)
       ELSE UNCHANGED <<snap, clock, stopPromise, store, finalizer>>
    /\ UNCHANGED <<meetingOwners, starting, acking, deleting, ports, page, gone, released,
                   budget, removed>>

\* What ownerDestroyed does last: the window owns nothing any more.
Forgotten(w) == [m \in Meetings |-> IF meetingOwners[m] = w THEN None ELSE meetingOwners[m]]
\* Fault: the snapshot keeps the owner that is gone.
UnownedFault(s, w) == s
Unowned(s, w) == [s EXCEPT !.owner = IF w # None /\ @ = w THEN None ELSE @]

\* finalizeMeeting settles after the writes of frames in flight.
Settles(m) ==
    /\ store[m] = "finalizing"
    /\ \A c \in Conns : ~(conns[c].append.stage = "write" /\ conns[c].append.meeting = m)

\* The handler that awaited finalizeMeeting goes on: stop or ownerDestroyed,
\* or the append of connection finalizer[m].by.
Settled(m, assets, lifecycle) ==
    LET f == finalizer[m]
    IN  /\ snap' = Unowned([snap EXCEPT !.assets = assets, !.lifecycle = lifecycle], f.release)
        /\ stopPromise' = IF f.by = "stop" THEN "settled" ELSE stopPromise
        /\ conns' = IF f.by \in Conns THEN [conns EXCEPT ![f.by].append = NoAppend] ELSE conns
        /\ meetingOwners' = IF f.release = None THEN meetingOwners ELSE Forgotten(f.release)
        /\ finalizer' = [finalizer EXCEPT ![m] = NoFinalizer]
        /\ UNCHANGED <<starting, acking, deleting, current, port, windows, frames, closes,
                       reloads, removed>>

ShownAssets(m) == IF finalizer[m].detached THEN snap.assets ELSE m

FinalizeResolves(m) ==
    LET f == finalizer[m]
    IN  /\ Quiet /\ Settles(m) /\ m \notin removed
        /\ store' = [store EXCEPT ![m] = "sealed"]
        /\ Settled(m, ShownAssets(m),
                   IF f.by = "stop" THEN f.to ELSE "error")
        /\ IF f.by = "stop" THEN UNCHANGED clock ELSE ClearTimers
        /\ UNCHANGED faults

\* AudioFinalizeError carries the assets that were sealed, if any.
FinalizeRejects(m) ==
    /\ Quiet /\ Settles(m)
    /\ \/ m \in removed /\ UNCHANGED faults
       \/ faults < MaxFaults /\ faults' = faults + 1
    /\ store' = [store EXCEPT ![m] = "broken"]
    /\ \E shown \in {m, None} : Settled(m, shown, "error")
    /\ ClearTimers

----------------------------------------------------------------------------
(* The window closes, or loads another page.                                *)

\* releaseLiveOwner runs once per window, whatever happens to it later.
Leave(w) ==
    /\ EarlyLeave \/ \A m \in Meetings : starting[m] # w
    /\ IF w \in released THEN UNCHANGED <<waits, conns>> ELSE Request("release", w)
    /\ released' = released \union {w}
    /\ PortClosed(w)
    /\ page' = [page EXCEPT ![w] = None]
    /\ UNCHANGED <<snap, clock, stopPromise, meetingOwners, calls, frames, faults, closes,
                   removed>>

Close(w) == Quiet /\ w \notin gone /\ gone' = gone \union {w} /\ Leave(w) /\ UNCHANGED reloads

Reload(w) ==
    /\ Quiet /\ w \notin gone /\ reloads < MaxReloads /\ Disturbable
    /\ reloads' = reloads + 1
    /\ Leave(w) /\ UNCHANGED gone

\* Fault: only a recording capture is stopped for its window.
AbandonedFault(w) == snap.owner = w /\ snap.lifecycle = "recording" /\ stopPromise = "none"
Abandoned(w) == snap.owner = w /\ IsActive /\ stopPromise = "none"

\* releaseSender drops the connection, then ownerDestroyed finalizes a capture
\* that no stop is finalizing, and forgets the window.
OwnerDestroyed(h) ==
    LET w == h.window
    IN  /\ Quiet /\ h.kind = "release" /\ DrainDone(h)
        /\ waits' = waits \ {h}
        /\ current' = [current EXCEPT ![w] = None]
        /\ IF Abandoned(w)
           THEN IF store[snap.meeting] = "open"
                THEN Finalize("interrupted", w) /\ UNCHANGED meetingOwners
                ELSE /\ snap' = Unowned([snap EXCEPT !.pause = FALSE, !.lifecycle = "error"], w)
                     /\ ClearTimers /\ stopPromise' = "settled"
                     /\ meetingOwners' = Forgotten(w) /\ UNCHANGED <<store, finalizer>>
           ELSE /\ snap' = Unowned(snap, w) /\ meetingOwners' = Forgotten(w)
                /\ UNCHANGED <<clock, stopPromise, store, finalizer>>
        /\ UNCHANGED <<starting, acking, deleting, conns, port, page, gone, released, budget,
                       removed>>

----------------------------------------------------------------------------
(* Handover and deletion of finished audio                                  *)

\* The snapshot of a meeting that is acknowledged or deleted starts afresh.
Reset(left) ==
    /\ snap' = InitialSnapshot(left)
    /\ ClearTimers /\ stopPromise' = "none"

Finished(m) == snap.meeting = m /\ ~IsActive

\* The provider acknowledges recovered audio after it stored the assets.
AcknowledgeRequest(w, m) ==
    /\ Quiet /\ w \notin gone /\ m \in snap.recovered \ acking /\ MayOwn(m, w)
    /\ snap' = Adopted(m, w)
    /\ meetingOwners' = [meetingOwners EXCEPT ![m] = w]
    /\ acking' = acking \union {m}
    /\ UNCHANGED <<clock, stopPromise, starting, store, finalizer, deleting, ports, windows,
                   budget, removed>>

Acknowledge(m) ==
    LET left == snap.recovered \ {m}
    IN  /\ Quiet /\ m \in acking
        /\ acking' = acking \ {m}
        /\ IF m \notin snap.recovered
           THEN UNCHANGED <<snap, clock, stopPromise, meetingOwners, finalizer>>
           ELSE /\ finalizer' = Detach(finalizer)
                /\ meetingOwners' = IF snap.meeting = m /\ IsActive THEN meetingOwners
                                    ELSE [meetingOwners EXCEPT ![m] = None]
                /\ IF Finished(m) THEN Reset(left)
                   ELSE /\ snap' = [snap EXCEPT !.recovered = left]
                        /\ UNCHANGED <<clock, stopPromise>>
        /\ UNCHANGED <<starting, store, deleting, ports, windows, budget, removed>>

\* A meeting of the history; the store refuses only one it holds open.
DeleteRequest(w, m) ==
    /\ Quiet /\ Deletes /\ w \notin gone /\ MayOwn(m, w) /\ m \notin deleting
    /\ store[m] \in {"finalizing", "sealed", "broken"}
    /\ snap' = Adopted(m, w)
    /\ meetingOwners' = [meetingOwners EXCEPT ![m] = w]
    /\ deleting' = deleting \union {m}
    /\ UNCHANGED <<clock, stopPromise, starting, store, finalizer, acking, ports, windows, budget,
                   removed>>

\* The files are gone; clearFinalizedMeeting throws under an active capture.
Delete(m) ==
    /\ Quiet /\ m \in deleting
    /\ deleting' = deleting \ {m}
    /\ store' = [store EXCEPT ![m] = IF @ \in {"sealed", "broken"} THEN "none" ELSE @]
    /\ removed' = IF snap.meeting = m /\ IsActive THEN removed \union {m} ELSE removed
    /\ IF Finished(m)
       THEN /\ Reset(snap.recovered \ {m}) /\ finalizer' = Detach(finalizer)
            /\ meetingOwners' = [meetingOwners EXCEPT ![m] = None]
       ELSE UNCHANGED <<snap, clock, stopPromise, meetingOwners, finalizer>>
    /\ UNCHANGED <<starting, acking, ports, windows, budget>>

----------------------------------------------------------------------------

Next ==
    \/ \E w \in Windows, m \in Meetings :
         Start(w, m) \/ AcknowledgeRequest(w, m) \/ DeleteRequest(w, m)
    \/ \E m \in Meetings : StartResolves(m) \/ StartRejects(m) \/ FinalizeResolves(m)
                           \/ FinalizeRejects(m) \/ Acknowledge(m) \/ Delete(m)
    \/ \E w \in Windows, c \in Conns : OpenPort(w, c)
    \/ \E c \in Conns : AppendAudio(c) \/ AppendResolves(c) \/ AppendRejects(c)
    \/ \E w \in Windows : Frame(w) \/ PauseRequest(w) \/ Resume(w) \/ StopRequest(w)
                          \/ ClosePort(w) \/ Close(w) \/ Reload(w)
    \/ \E h \in waits : Pause(h) \/ Stop(h) \/ OwnerDestroyed(h)

Spec == Init /\ [][Next]_vars

\* Every call of the audio store settles, and the event loop takes the events
\* in their order, so that requests never keep an outcome waiting forever;
\* requests themselves are free.
Fairness ==
    /\ WF_vars(\E c \in Conns : AppendAudio(c))
    /\ WF_vars(\E h \in waits : Pause(h) \/ Stop(h))
    /\ \A m \in Meetings : /\ SF_vars(StartResolves(m) \/ StartRejects(m))
                           /\ SF_vars(FinalizeResolves(m) \/ FinalizeRejects(m))
    /\ \A c \in Conns : SF_vars(AppendResolves(c) \/ AppendRejects(c))
    /\ \A w \in Windows : SF_vars(\E h \in waits : h.window = w /\ OwnerDestroyed(h))

FairSpec == Spec /\ Fairness

----------------------------------------------------------------------------
(* Properties.                                                              *)

\* Every variable has its type; at most MaxPending frames wait at a connection.
CaptureTypeOK ==
    /\ snap \in [lifecycle : Lifecycles, meeting : Meetings \union {None},
                 owner : Windows \union {None}, assets : Meetings \union {None},
                 recovered : SUBSET Recovered, pause : BOOLEAN]
    /\ timers \in Nat /\ timer \in BOOLEAN
    /\ stopPromise \in {"none", "pending", "settled"}
    /\ meetingOwners \in [Meetings -> Windows \union {None}]
    /\ starting \in [Meetings -> Windows \union {None}]
    /\ store \in [Meetings -> {"none", "open", "finalizing", "sealed", "broken"}]
    /\ finalizer \in [Meetings -> [by : Conns \union {None, "stop"},
                                   to : {"none", "complete", "interrupted"},
                                   detached : BOOLEAN, release : Windows \union {None}]]
    /\ \A c \in Conns : Pending(c) <= MaxPending
    /\ current \in [Windows -> Conns \union {None}]
    /\ port \in [Windows -> Conns \union {None}] /\ page \in [Windows -> Meetings \union {None}]
    /\ waits \subseteq [kind : {"pause", "stop", "release"}, window : Windows,
                        conn : Conns \union {None}]
    /\ gone \subseteq released /\ acking \subseteq Meetings /\ deleting \subseteq Meetings
    /\ frames \in Nat /\ faults \in Nat /\ closes \in Nat /\ reloads \in Nat

\* An active capture belongs to one window, and the table of meeting owners
\* names it: no other window passes assertMeetingOwner for it
\* (LiveCaptureCoordinator.test.ts:74, 'rejects a second owner').
OwnershipExclusive ==
    IsActive /\ snap.owner # None => meetingOwners[snap.meeting] = snap.owner

\* The audio store holds a meeting open only for the active capture, so its
\* file handles are closed by a stop.
OpenAudioIsCaptured ==
    \A m \in Meetings : store[m] = "open" => IsActive /\ snap.meeting = m

\* The coordinator holds every interval it started, and one runs only while
\* the meeting is recorded or paused.
TimerStops ==
    /\ timers = (IF timer THEN 1 ELSE 0)
    /\ timer => snap.lifecycle \in {"recording", "paused"}

\* A capture that ended shows the assets of its sealed audio, which is how the
\* provider learns what to store.
SealedAudioIsShown ==
    snap.meeting # None /\ ~IsActive /\ store[snap.meeting] = "sealed"
        => snap.assets = snap.meeting

\* While an active capture records, its window's connection accepts frames
\* unless a pause, a stop or a release of that window is waiting for it.
RecordingListens ==
    \A w \in Windows :
        /\ snap.lifecycle = "recording" /\ snap.owner = w
        /\ port[w] # None /\ conns[port[w]].meeting = snap.meeting
        /\ \A h \in waits : h.window # w
        => conns[port[w]].accepting

\* Coordinator, audio store and ports agree about the capture: the parts above, and
\* the type of the state (start, finalize, the pause, resume and stop handlers).
CaptureInv ==
    /\ CaptureTypeOK
    /\ OpenAudioIsCaptured
    /\ TimerStops
    /\ SealedAudioIsShown
    /\ RecordingListens

\* A capture that is stopping only ends: no late frame revives it.
StoppingIsFinal ==
    [][snap.lifecycle = "stopping" =>
         snap'.lifecycle \in {"stopping", "complete", "interrupted", "error"}]_vars

\* The capture of a closed window ends, so that another window may record:
\* releaseSender and ownerDestroyed finalize it, also when a frame, a pause or a
\* stop of that window is still in progress.
GoneWindowReleased ==
    \A w \in Windows : w \in gone /\ IsActive /\ snap.owner = w ~> ~IsActive

\* A deletion never takes the audio of an active capture (the message 'Stop
\* the live meeting before deleting its audio').
AudioDeletedAfterStop == removed = {}
=============================================================================
