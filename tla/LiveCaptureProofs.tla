------------------------- MODULE LiveCaptureProofs -------------------------
(***************************************************************************)
(* The proofs about the live capture.  That an owned capture is owned by    *)
(* the window the table names holds whatever the windows do.  That the      *)
(* coordinator, the audio store and the ports agree is proved of windows    *)
(* that keep their port and their page, of a launch that recovered nothing, *)
(* and without deletions: each of these breaks a part of it (README).       *)
(***************************************************************************)
EXTENDS LiveCapture, SequenceTheorems, TLAPS

-----------------------------------------------------------------------------
(* Every environment.                                                       *)

AppendType == [stage : {"idle", "write", "finalize"}, meeting : Meetings \union {None},
               activates : BOOLEAN]
ConnType == [window : Windows \union {None}, meeting : Meetings \union {None},
             accepting : BOOLEAN, queue : Seq(Meetings), append : AppendType]

SnapType ==
    snap \in [lifecycle : Lifecycles, meeting : Meetings \union {None},
              owner : Windows \union {None}, assets : Meetings \union {None},
              recovered : SUBSET Recovered, pause : BOOLEAN]

ClockType ==
    /\ timers \in Nat /\ timer \in BOOLEAN /\ (timer => timers >= 1)
    /\ stopPromise \in {"none", "pending", "settled"}

TableType ==
    /\ meetingOwners \in [Meetings -> Windows \union {None}]
    /\ starting \in [Meetings -> Windows \union {None}]
    /\ store \in [Meetings -> {"none", "open", "finalizing", "sealed", "broken"}]
    /\ acking \subseteq Meetings /\ deleting \subseteq Meetings

FinalizerType ==
    /\ finalizer \in [Meetings -> [by : Conns \union {None, "stop"},
                                   to : {"none", "complete", "interrupted"},
                                   detached : BOOLEAN, release : Windows \union {None}]]
    /\ \A m \in Meetings : finalizer[m].by = "stop" => finalizer[m].to # "none"

ConnsType == conns \in [Conns -> ConnType]

RoomInv ==
    \A c \in Conns : /\ Len(conns[c].queue) <= MaxPending
                     /\ conns[c].append # NoAppend => Len(conns[c].queue) + 1 <= MaxPending

WindowType ==
    /\ current \in [Windows -> Conns \union {None}]
    /\ port \in [Windows -> Conns \union {None}] /\ page \in [Windows -> Meetings \union {None}]
    /\ waits \subseteq [kind : {"pause", "stop", "release"}, window : Windows,
                        conn : Conns \union {None}]
    /\ gone \subseteq released

CountType == frames \in Nat /\ faults \in Nat /\ closes \in Nat /\ reloads \in Nat

\* The table names the owner of the snapshot, active or not.
Owned ==
    snap.owner # None =>
        snap.meeting \in Meetings /\ meetingOwners[snap.meeting] = snap.owner

OwnedIInv ==
    /\ SnapType /\ ClockType /\ TableType /\ FinalizerType /\ ConnsType /\ RoomInv
    /\ WindowType /\ CountType /\ Owned

-----------------------------------------------------------------------------
(* Windows that keep their port and their page.                             *)

Undisturbed ==
    /\ Recovered = {} /\ MaxPortCloses = 0 /\ MaxReloads = 0
    /\ EarlyLeave = FALSE /\ Deletes = FALSE

CalmInv ==
    /\ acking = {} /\ deleting = {} /\ removed = {}
    /\ \A m \in Meetings : finalizer[m].detached = FALSE

\* A meeting has one connection, that of the window whose page records it.
ConnInv ==
    /\ \A c \in Conns : conns[c].meeting # None => store[conns[c].meeting] # "none"
    /\ \A c, d \in Conns : conns[c].meeting # None /\ conns[c].meeting = conns[d].meeting => c = d
    /\ \A c \in Conns, w \in Windows : conns[c].meeting # None /\ conns[c].meeting = page[w] =>
          port[w] = c /\ conns[c].window = w
    /\ \A v, w \in Windows : page[v] # None /\ page[v] = page[w] => v = w
    /\ \A w \in gone : port[w] = None /\ page[w] = None
    /\ \A w \in Windows : /\ port[w] # None => port[w] = current[w]
                          /\ current[w] # None => conns[current[w]].window = w

\* The frames of a connection are of its meeting.
QueueInv ==
    \A c \in Conns : ~Drained(c) =>
        /\ conns[c].meeting # None /\ conns[c].window # None
        /\ conns[c].window \notin gone => page[conns[c].window] = conns[c].meeting
        /\ \A i \in 1..Len(conns[c].queue) : conns[c].queue[i] = conns[c].meeting

\* A handler waits for the connection whose frames are of its window.
WaitInv ==
    /\ \A h \in waits :
          /\ h.kind = "release" => h.window \in gone
          /\ h.conn # None => conns[h.conn].window = h.window
          /\ h.window \notin gone => h.conn # None /\ h.conn = current[h.window]
          /\ h.kind = "pause" /\ h.window = snap.owner => snap.lifecycle # "starting"
    /\ \A h \in waits, c \in Conns : ~Drained(c) /\ conns[c].window = h.window => h.conn = c

\* A frame is in flight for the active capture only, which stays as it was.
AppendInv ==
    \A c \in Conns : conns[c].append # NoAppend =>
        /\ conns[c].append.meeting = conns[c].meeting /\ snap.meeting = conns[c].meeting
        /\ snap.owner = conns[c].window
        /\ snap.lifecycle = IF conns[c].append.activates THEN "starting" ELSE "recording"
        /\ \/ conns[c].append.stage = "write" /\ store[snap.meeting] = "open"
           \/ /\ conns[c].append.stage = "finalize" /\ store[snap.meeting] = "finalizing"
              /\ finalizer[snap.meeting].by = c

\* The calls of the audio store are those of the active capture.
StoreInv ==
    /\ \A m \in Meetings : starting[m] # None =>
          /\ store[m] = "none" /\ snap.meeting = m /\ snap.owner = starting[m]
          /\ snap.lifecycle = "starting" /\ starting[m] \notin gone /\ page[starting[m]] = m
          /\ \A h \in waits : h.window # starting[m]
    /\ \A m \in Meetings : store[m] = "open" =>
          snap.meeting = m /\ snap.lifecycle \in {"starting", "recording", "paused"}
    /\ \A m \in Meetings : store[m] = "finalizing" =>
          /\ snap.meeting = m
          /\ \/ snap.lifecycle = "stopping" /\ finalizer[m].by = "stop"
             \/ /\ finalizer[m].by \in Conns
                /\ conns[finalizer[m].by].append.stage = "finalize"
    /\ \A m \in Meetings : finalizer[m].by # None => store[m] = "finalizing"
    /\ IsActive => store[snap.meeting] \in {"none", "open", "finalizing"}
    /\ snap.lifecycle = "stopping" => stopPromise = "pending"
    /\ snap.lifecycle \in {"starting", "recording", "paused"} => stopPromise = "none"

ListenInv ==
    \A w \in Windows :
        /\ snap.lifecycle \in {"starting", "recording"} /\ snap.owner = w
        /\ port[w] # None /\ conns[port[w]].meeting = snap.meeting
        /\ \A h \in waits : h.window # w
        => conns[port[w]].accepting

CaptureIInv ==
    /\ OwnedIInv /\ CalmInv /\ ConnInv /\ QueueInv /\ WaitInv /\ AppendInv /\ StoreInv
    /\ TimerStops /\ SealedAudioIsShown /\ ListenInv

-----------------------------------------------------------------------------
(* What the shared steps do to the tables.                                  *)

LEMMA ClearKeeps ==
    ASSUME ClockType, ClearTimers
    PROVE  timers' \in Nat /\ timer' = FALSE /\ timers' = (IF timer THEN timers - 1 ELSE timers)
  BY DEF ClockType, ClearTimers

LEMMA DetachKeeps ==
    ASSUME FinalizerType
    PROVE  /\ Detach(finalizer) \in [Meetings -> [by : Conns \union {None, "stop"},
                                   to : {"none", "complete", "interrupted"},
                                   detached : BOOLEAN, release : Windows \union {None}]]
           /\ \A m \in Meetings : /\ Detach(finalizer)[m].by = finalizer[m].by
                                  /\ Detach(finalizer)[m].to = finalizer[m].to
  BY DEF FinalizerType, Detach

\* The step sets queue, append and accepting of connection c, and nothing else of
\* the connections.
Touched(c, q, x, v) ==
    /\ conns' \in [Conns -> ConnType]
    /\ \A d \in Conns : /\ conns'[d].window = conns[d].window
                        /\ conns'[d].meeting = conns[d].meeting
                        /\ conns'[d].queue = IF d = c THEN q ELSE conns[d].queue
                        /\ conns'[d].append = IF d = c THEN x ELSE conns[d].append
                        /\ conns'[d].accepting = IF d = c THEN v ELSE conns[d].accepting

LEMMA AcceptingConns ==
    ASSUME ConnsType, NEW c \in Conns \union {None}, NEW v \in BOOLEAN, conns' = Accepting(c, v)
    PROVE  Touched(c, conns[c].queue, conns[c].append, v)
<1>1. CASE c = None
  BY <1>1, CaptureAssumption DEF Accepting, Touched, ConnsType
<1>2. CASE c \in Conns
  <2>1. conns' = [conns EXCEPT ![c] = [conns[c] EXCEPT !.accepting = v]]
    BY <1>2, CaptureAssumption DEF Accepting
  <2>2. [conns[c] EXCEPT !.accepting = v] \in ConnType
    BY <1>2 DEF ConnsType, ConnType
  <2>. QED  BY <1>2, <2>1, <2>2 DEF Touched, ConnsType, ConnType
<1>. QED  BY <1>1, <1>2

LEMMA AppendingConns ==
    ASSUME ConnsType, NEW c \in Conns, NEW x \in AppendType,
           conns' = [conns EXCEPT ![c].append = x]
    PROVE  Touched(c, conns[c].queue, x, conns[c].accepting)
<1>1. conns' = [conns EXCEPT ![c] = [conns[c] EXCEPT !.append = x]]
  OBVIOUS
<1>2. [conns[c] EXCEPT !.append = x] \in ConnType
  BY DEF ConnsType, ConnType
<1>. QED  BY <1>1, <1>2 DEF Touched, ConnsType, ConnType

LEMMA QueueingConns ==
    ASSUME ConnsType, NEW c \in Conns, NEW q \in Seq(Meetings),
           conns' = [conns EXCEPT ![c].queue = q]
    PROVE  Touched(c, q, conns[c].append, conns[c].accepting)
<1>1. conns' = [conns EXCEPT ![c] = [conns[c] EXCEPT !.queue = q]]
  OBVIOUS
<1>2. [conns[c] EXCEPT !.queue = q] \in ConnType
  BY DEF ConnsType, ConnType
<1>. QED  BY <1>1, <1>2 DEF Touched, ConnsType, ConnType

LEMMA TakingConns ==
    ASSUME ConnsType, NEW c \in Conns, NEW q \in Seq(Meetings), NEW x \in AppendType,
           conns' = [conns EXCEPT ![c].queue = q, ![c].append = x]
    PROVE  Touched(c, q, x, conns[c].accepting)
<1>1. conns' = [conns EXCEPT ![c] = [conns[c] EXCEPT !.queue = q, !.append = x]]
  OBVIOUS
<1>2. [conns[c] EXCEPT !.queue = q, !.append = x] \in ConnType
  BY DEF ConnsType, ConnType
<1>. QED  BY <1>1, <1>2 DEF Touched, ConnsType, ConnType

\* A connection keeps its room when the one that is touched does.
LEMMA TouchedRoom ==
    ASSUME RoomInv, NEW c, NEW q, NEW x, NEW v, Touched(c, q, x, v),
           c \in Conns => /\ Len(q) <= MaxPending
                          /\ x # NoAppend => Len(q) + 1 <= MaxPending
    PROVE  RoomInv'
  BY DEF RoomInv, Touched

LEMMA NoAppendType == NoAppend \in AppendType
  BY DEF NoAppend, AppendType

-----------------------------------------------------------------------------
(* What the calm invariant says of a state.                                 *)

\* One frame is in flight at a time, for a capture that is starting or records.
LEMMA OneAppend ==
    ASSUME CaptureIInv, NEW c \in Conns, conns[c].append # NoAppend
    PROVE  /\ snap.lifecycle \in {"starting", "recording"}
           /\ store[snap.meeting] \in {"open", "finalizing"}
           /\ snap.owner = conns[c].window /\ snap.owner \in Windows
           /\ snap.meeting = conns[c].meeting /\ snap.meeting \in Meetings
           /\ \A d \in Conns : conns[d].append # NoAppend => d = c
<1>1. conns[c].meeting # None /\ conns[c].window # None
  BY DEF CaptureIInv, QueueInv, Drained
<1>2. \A d \in Conns : conns[d].append # NoAppend =>
         /\ snap.meeting = conns[d].meeting /\ snap.owner = conns[d].window
         /\ snap.lifecycle \in {"starting", "recording"}
         /\ store[snap.meeting] \in {"open", "finalizing"}
  BY DEF CaptureIInv, AppendInv
<1>3. conns[c].meeting \in Meetings /\ conns[c].window \in Windows
  BY <1>1 DEF CaptureIInv, OwnedIInv, ConnsType, ConnType
<1>. QED  BY <1>1, <1>2, <1>3 DEF CaptureIInv, ConnInv

\* A handler that need not wait finds all connections of its window empty.
LEMMA DrainedForAll ==
    ASSUME CaptureIInv, NEW h \in waits, DrainDone(h), NEW c \in Conns,
           conns[c].window = h.window
    PROVE  Drained(c)
  BY CaptureAssumption DEF CaptureIInv, WaitInv, DrainDone

LEMMA OwnerIdle ==
    ASSUME CaptureIInv, NEW h \in waits, DrainDone(h), snap.owner = h.window
    PROVE  /\ \A c \in Conns : conns[c].append = NoAppend
           /\ stopPromise = "none" /\ IsActive =>
                 /\ snap.meeting \in Meetings /\ store[snap.meeting] \in {"none", "open"}
                 /\ snap.lifecycle # "stopping" /\ \A m \in Meetings : store[m] # "finalizing"
<1>1. \A c \in Conns : conns[c].append = NoAppend
  BY OneAppend, DrainedForAll DEF Drained
<1>2. ASSUME stopPromise = "none", IsActive
      PROVE  /\ snap.meeting \in Meetings /\ snap.lifecycle # "stopping"
             /\ \A m \in Meetings : store[m] # "finalizing"
             /\ store[snap.meeting] \in {"none", "open", "finalizing"}
  <2>1. snap.owner # None
    BY CaptureAssumption DEF CaptureIInv, OwnedIInv, WindowType
  <2>2. snap.meeting \in Meetings
    BY <2>1 DEF CaptureIInv, OwnedIInv, Owned
  <2>3. snap.lifecycle # "stopping" /\ store[snap.meeting] \in {"none", "open", "finalizing"}
    BY <1>2 DEF CaptureIInv, StoreInv
  <2>4. ASSUME NEW m \in Meetings, store[m] = "finalizing" PROVE FALSE
    <3>1. finalizer[m].by \in Conns /\ conns[finalizer[m].by].append.stage = "finalize"
      BY <2>3, <2>4 DEF CaptureIInv, StoreInv
    <3>. QED  BY <1>1, <3>1 DEF NoAppend
  <2>. QED  BY <2>2, <2>3, <2>4
<1>. QED  BY <1>1, <1>2

\* The frames of a window that is there are at its current connection.
LEMMA FramesAreCurrent ==
    ASSUME CaptureIInv, NEW w \in Windows, w \notin gone, NEW c \in Conns, ~Drained(c),
           conns[c].window = w
    PROVE  current[w] = c /\ port[w] = c
<1>1. conns[c].meeting # None /\ page[w] = conns[c].meeting
  BY DEF CaptureIInv, QueueInv
<1>2. port[w] = c
  BY <1>1 DEF CaptureIInv, ConnInv
<1>. QED  BY <1>2, CaptureAssumption DEF CaptureIInv, ConnInv

LEMMA ConnectedIsCurrent ==
    ASSUME CaptureIInv, NEW w \in Windows, Connected(w)
    PROVE  /\ current[w] \in Conns /\ conns[current[w]].window = w
           /\ port[w] = current[w] /\ conns[current[w]].meeting = page[w]
<1>1. PICK c \in Conns : conns[c].window = w /\ conns[c].meeting = page[w]
  BY DEF Connected
<1>2. page[w] # None
  BY DEF Connected, Captures
<1>3. port[w] = c
  BY <1>1, <1>2 DEF CaptureIInv, ConnInv
<1>. QED  BY <1>1, <1>3, CaptureAssumption DEF CaptureIInv, ConnInv

\* Two windows share no connection.
LEMMA OwnConnection ==
    ASSUME CaptureIInv, NEW v \in Windows, NEW w \in Windows, v # w
    PROVE  port[v] # None => port[v] # current[w]
  BY CaptureAssumption DEF CaptureIInv, ConnInv


LEMMA StartOwned ==
    ASSUME OwnedIInv, NEW w \in Windows, NEW m \in Meetings, Start(w, m)
    PROVE  OwnedIInv'
<1>. USE CaptureAssumption DEF OwnedIInv, Start, InitialSnapshot, MayOwn, MayStart,
      calls, clock, ports, windows, budget
<1>1. SnapType'  BY ZenonT(40) DEF SnapType, Lifecycles, ActiveLifecycles
<1>2. ClockType'  BY ClearKeeps DEF ClockType
<1>3. TableType'
  BY DEF TableType, SnapType, Lifecycles, ActiveLifecycles, FinalizerType
<1>4. FinalizerType'
  BY DetachKeeps DEF FinalizerType, SnapType, Lifecycles, ActiveLifecycles
<1>5. ConnsType'  BY DEF ConnsType, WindowType, TableType, FinalizerType
<1>6. RoomInv'  BY DEF RoomInv, ConnsType
<1>7. WindowType'  BY DEF WindowType
<1>8. CountType'  BY DEF CountType
<1>9. Owned'
  BY DEF Owned, SnapType, Lifecycles, ActiveLifecycles, TableType, FinalizerType
<1>. QED  BY <1>1, <1>2, <1>3, <1>4, <1>5, <1>6, <1>7, <1>8, <1>9

LEMMA StartResolvesOwned ==
    ASSUME OwnedIInv, NEW m \in Meetings, StartResolves(m)
    PROVE  OwnedIInv'
<1>. USE CaptureAssumption DEF OwnedIInv, StartResolves, Accepting, calls, clock, ports,
      windows, budget
<1>a. Touched(current[starting[m]], conns[current[starting[m]]].queue, conns[current[starting[m]]].append, TRUE)
  BY AcceptingConns DEF WindowType, TableType
<1>1. SnapType'  BY DEF SnapType, Lifecycles, ActiveLifecycles
<1>2. ClockType'  BY DEF ClockType
<1>3. TableType'
  BY DEF TableType, SnapType, Lifecycles, ActiveLifecycles, FinalizerType
<1>4. FinalizerType'  BY DEF FinalizerType, SnapType, Lifecycles, ActiveLifecycles
<1>5. ConnsType'  BY <1>a DEF ConnsType, Touched
<1>6. RoomInv'  BY <1>a, TouchedRoom DEF RoomInv
<1>7. WindowType'  BY DEF WindowType
<1>8. CountType'  BY DEF CountType
<1>9. Owned'
  BY DEF Owned, SnapType, Lifecycles, ActiveLifecycles, TableType, FinalizerType
<1>. QED  BY <1>1, <1>2, <1>3, <1>4, <1>5, <1>6, <1>7, <1>8, <1>9

LEMMA StartRejectsOwned ==
    ASSUME OwnedIInv, NEW m \in Meetings, StartRejects(m)
    PROVE  OwnedIInv'
<1>. USE CaptureAssumption DEF OwnedIInv, StartRejects, calls, clock, ports, windows,
      budget
<1>1. SnapType'  BY DEF SnapType, Lifecycles, ActiveLifecycles
<1>2. ClockType'  BY ClearKeeps DEF ClockType
<1>3. TableType'
  BY DEF TableType, SnapType, Lifecycles, ActiveLifecycles, FinalizerType
<1>4. FinalizerType'  BY DEF FinalizerType, SnapType, Lifecycles, ActiveLifecycles
<1>5. ConnsType'  BY DEF ConnsType, WindowType, TableType, FinalizerType
<1>6. RoomInv'  BY DEF RoomInv, ConnsType
<1>7. WindowType'  BY DEF WindowType
<1>8. CountType'  BY DEF CountType
<1>9. Owned'
  BY DEF Owned, SnapType, Lifecycles, ActiveLifecycles, TableType, FinalizerType
<1>. QED  BY <1>1, <1>2, <1>3, <1>4, <1>5, <1>6, <1>7, <1>8, <1>9

LEMMA OpenPortOwned ==
    ASSUME OwnedIInv, NEW w \in Windows, NEW c \in Conns, OpenPort(w, c)
    PROVE  OwnedIInv'
<1>. USE CaptureAssumption DEF OwnedIInv, OpenPort, Unused, calls, clock, ports,
      windows, budget
<1>. DEFINE Opened(b) == [window |-> w, meeting |-> page[w], accepting |-> b, queue |-> <<>>,
                         append |-> NoAppend]
            Live == snap.owner = w /\ snap.lifecycle \in {"starting", "recording"}
<1>a. conns' = [conns EXCEPT ![c] = [Unused EXCEPT !.window = w, !.meeting = page[w],
                                                   !.accepting = Live]]
  BY Zenon
<1>b. PICK b \in BOOLEAN : b = Live
  OBVIOUS
<1>. HIDE DEF Live
<1>c. conns' = [conns EXCEPT ![c] = [Unused EXCEPT !.window = w, !.meeting = page[w],
                                                   !.accepting = b]]
  BY ONLY <1>a, <1>b, Zenon
<1>d. PICK r : r = [Unused EXCEPT !.window = w, !.meeting = page[w], !.accepting = b]
  OBVIOUS
<1>g. r = Opened(b)
  BY <1>d DEF Opened, Unused
<1>e. conns' = [conns EXCEPT ![c] = Opened(b)]
  BY ONLY <1>c, <1>d, <1>g
<1>f. Opened(b) \in ConnType
  BY NoAppendType DEF ConnType, WindowType
<1>1. SnapType'  BY DEF SnapType, Lifecycles, ActiveLifecycles
<1>2. ClockType'  BY DEF ClockType
<1>3. TableType'
  BY DEF TableType, SnapType, Lifecycles, ActiveLifecycles, FinalizerType
<1>4. FinalizerType'  BY DEF FinalizerType, SnapType, Lifecycles, ActiveLifecycles
<1>5. ConnsType'  BY <1>e, <1>f DEF ConnsType
<1>6. RoomInv'
  <2>1. conns'[c].queue = <<>> /\ conns'[c].append = NoAppend
    BY <1>e DEF ConnsType
  <2>2. \A d \in Conns : d # c => conns'[d] = conns[d]
    BY <1>e DEF ConnsType
  <2>3. Len(<<>>) <= MaxPending
    BY CaptureAssumption
  <2>. QED  BY <2>1, <2>2, <2>3 DEF RoomInv
<1>7. WindowType'  BY DEF WindowType
<1>8. CountType'  BY DEF CountType
<1>9. Owned'
  BY DEF Owned, SnapType, Lifecycles, ActiveLifecycles, TableType, FinalizerType
<1>. QED  BY <1>1, <1>2, <1>3, <1>4, <1>5, <1>6, <1>7, <1>8, <1>9

LEMMA ClosePortOwned ==
    ASSUME OwnedIInv, NEW w \in Windows, ClosePort(w)
    PROVE  OwnedIInv'
<1>. USE CaptureAssumption DEF OwnedIInv, ClosePort, PortClosed, calls, clock, ports,
      windows, budget
<1>1. SnapType'  BY DEF SnapType, Lifecycles, ActiveLifecycles
<1>2. ClockType'  BY DEF ClockType
<1>3. TableType'
  BY DEF TableType, SnapType, Lifecycles, ActiveLifecycles, FinalizerType
<1>4. FinalizerType'  BY DEF FinalizerType, SnapType, Lifecycles, ActiveLifecycles
<1>5. ConnsType'  BY DEF ConnsType, WindowType, TableType, FinalizerType
<1>6. RoomInv'  BY DEF RoomInv, ConnsType
<1>7. WindowType'  BY DEF WindowType
<1>8. CountType'  BY DEF CountType
<1>9. Owned'
  BY DEF Owned, SnapType, Lifecycles, ActiveLifecycles, TableType, FinalizerType
<1>. QED  BY <1>1, <1>2, <1>3, <1>4, <1>5, <1>6, <1>7, <1>8, <1>9

LEMMA FrameOwned ==
    ASSUME OwnedIInv, NEW w \in Windows, Frame(w)
    PROVE  OwnedIInv'
<1>. USE CaptureAssumption DEF OwnedIInv, Frame, calls, clock, ports, windows, budget
<1>a. port[w] \in Conns /\ page[w] \in Meetings /\ conns[port[w]].queue \in Seq(Meetings)
      /\ conns[port[w]].append \in AppendType
  BY DEF WindowType, Captures, ConnsType, ConnType
<1>b. Touched(port[w], Append(conns[port[w]].queue, page[w]), conns[port[w]].append,
              conns[port[w]].accepting)
  <2>1. conns' = [conns EXCEPT ![port[w]].queue = Append(conns[port[w]].queue, page[w])]
    BY <1>a DEF ConnsType, ConnType
  <2>2. Append(conns[port[w]].queue, page[w]) \in Seq(Meetings)
    BY <1>a, AppendProperties
  <2>. QED  BY <1>a, <2>1, <2>2, QueueingConns
<1>c. /\ Len(Append(conns[port[w]].queue, page[w])) = Len(conns[port[w]].queue) + 1
      /\ Len(conns[port[w]].queue) \in Nat
  BY <1>a, AppendProperties
<1>1. SnapType'  BY DEF SnapType, Lifecycles, ActiveLifecycles
<1>2. ClockType'  BY DEF ClockType
<1>3. TableType'
  BY DEF TableType, SnapType, Lifecycles, ActiveLifecycles, FinalizerType
<1>4. FinalizerType'  BY DEF FinalizerType, SnapType, Lifecycles, ActiveLifecycles
<1>5. ConnsType'  BY <1>b DEF ConnsType, Touched
<1>6. RoomInv'
  <2>. DEFINE n == Len(conns[port[w]].queue)
  <2>1. conns[port[w]].append = NoAppend => n < MaxPending
    BY DEF HasRoom, Pending
  <2>2. conns[port[w]].append # NoAppend => n + 1 < MaxPending
    BY DEF HasRoom, Pending
  <2>3. n \in Nat /\ Len(Append(conns[port[w]].queue, page[w])) = n + 1
    BY <1>c
  <2>. HIDE DEF n
  <2>4. Len(Append(conns[port[w]].queue, page[w])) <= MaxPending
        /\ (conns[port[w]].append # NoAppend =>
              Len(Append(conns[port[w]].queue, page[w])) + 1 <= MaxPending)
    BY <2>1, <2>2, <2>3
  <2>. QED  BY <1>b, <2>4, TouchedRoom
<1>7. WindowType'  BY DEF WindowType
<1>8. CountType'  BY DEF CountType
<1>9. Owned'
  BY DEF Owned, SnapType, Lifecycles, ActiveLifecycles, TableType, FinalizerType
<1>. QED  BY <1>1, <1>2, <1>3, <1>4, <1>5, <1>6, <1>7, <1>8, <1>9

LEMMA AppendAudioOwned ==
    ASSUME OwnedIInv, NEW c \in Conns, AppendAudio(c)
    PROVE  OwnedIInv'
<1>. USE CaptureAssumption DEF OwnedIInv, AppendAudio, calls, clock, ports, windows,
      budget
<1>. DEFINE x == IF Taken(c) /\ store[Head(conns[c].queue)] = "open"
                 THEN [stage |-> "write", meeting |-> Head(conns[c].queue),
                       activates |-> snap.lifecycle = "starting"]
                 ELSE NoAppend
<1>a. /\ conns[c].queue \in Seq(Meetings) /\ conns[c].queue # <<>>
      /\ Head(conns[c].queue) \in Meetings /\ Tail(conns[c].queue) \in Seq(Meetings)
      /\ Len(Tail(conns[c].queue)) + 1 = Len(conns[c].queue)
  BY DEF ConnsType, ConnType
<1>b. x \in AppendType
  BY <1>a DEF AppendType, NoAppend
<1>c. Touched(c, Tail(conns[c].queue), x, conns[c].accepting)
  <2>1. conns' = [conns EXCEPT ![c].queue = Tail(conns[c].queue), ![c].append = x]
    BY DEF ConnsType, ConnType
  <2>. QED  BY <1>a, <1>b, <2>1, TakingConns
<1>. HIDE DEF x
<1>d. snap' \in {snap, [snap EXCEPT !.lifecycle = "error", !.assets = None, !.pause = FALSE]}
  OBVIOUS
<1>1. SnapType'  BY <1>d, ZenonT(40) DEF SnapType, Lifecycles, ActiveLifecycles
<1>2. ClockType'  BY ClearKeeps DEF ClockType
<1>3. TableType'
  BY DEF TableType, SnapType, Lifecycles, ActiveLifecycles, FinalizerType
<1>4. FinalizerType'  BY DEF FinalizerType, SnapType, Lifecycles, ActiveLifecycles
<1>5. ConnsType'  BY <1>c DEF ConnsType, Touched
<1>6. RoomInv'
  <2>1. Len(Tail(conns[c].queue)) + 1 <= MaxPending /\ Len(Tail(conns[c].queue)) <= MaxPending
    <3>1. Len(Tail(conns[c].queue)) \in Nat /\ Len(conns[c].queue) <= MaxPending
      BY <1>a DEF RoomInv
    <3>. QED  BY <1>a, <3>1
  <2>2. RoomInv
    OBVIOUS
  <2>. QED  BY ONLY <1>c, <2>1, <2>2, TouchedRoom
<1>7. WindowType'  BY DEF WindowType
<1>8. CountType'  BY DEF CountType
<1>9. Owned'
  <2>1. snap'.owner = snap.owner /\ snap'.meeting = snap.meeting
    BY <1>d DEF SnapType
  <2>. QED  BY <2>1 DEF Owned
<1>. QED  BY <1>1, <1>2, <1>3, <1>4, <1>5, <1>6, <1>7, <1>8, <1>9

LEMMA AppendResolvesOwned ==
    ASSUME OwnedIInv, NEW c \in Conns, AppendResolves(c)
    PROVE  OwnedIInv'
<1>. USE CaptureAssumption DEF OwnedIInv, AppendResolves, calls, clock, ports, windows,
      budget
<1>a. Touched(c, conns[c].queue, NoAppend, conns[c].accepting)
  BY AppendingConns, NoAppendType
<1>1. SnapType'  BY DEF SnapType, Lifecycles, ActiveLifecycles
<1>2. ClockType'
  <2>1. CASE conns[c].append.activates
    BY <2>1 DEF ClockType, StartTimer
  <2>2. CASE ~conns[c].append.activates
    BY <2>2 DEF ClockType
  <2>. QED  BY <2>1, <2>2
<1>3. TableType'
  BY DEF TableType, SnapType, Lifecycles, ActiveLifecycles, FinalizerType
<1>4. FinalizerType'  BY DEF FinalizerType, SnapType, Lifecycles, ActiveLifecycles
<1>5. ConnsType'  BY <1>a DEF ConnsType, Touched
<1>6. RoomInv'  BY <1>a, TouchedRoom DEF RoomInv
<1>7. WindowType'  BY DEF WindowType
<1>8. CountType'  BY DEF CountType
<1>9. Owned'
  BY DEF Owned, SnapType, Lifecycles, ActiveLifecycles, TableType, FinalizerType
<1>. QED  BY <1>1, <1>2, <1>3, <1>4, <1>5, <1>6, <1>7, <1>8, <1>9

LEMMA AppendRejectsOwned ==
    ASSUME OwnedIInv, NEW c \in Conns, AppendRejects(c)
    PROVE  OwnedIInv'
<1>. USE CaptureAssumption DEF OwnedIInv, AppendRejects, NoFinalizer, calls, clock,
      ports, windows, budget
<1>. DEFINE m == conns[c].append.meeting
            opened == store[m] = "open"
            x == IF opened THEN [conns[c].append EXCEPT !.stage = "finalize"] ELSE NoAppend
<1>a. conns[c].append \in AppendType /\ conns[c].queue \in Seq(Meetings)
  BY DEF ConnsType, ConnType
<1>b. x \in AppendType
  BY <1>a, NoAppendType DEF AppendType
<1>c. Touched(c, conns[c].queue, x, conns[c].accepting)
  <2>1. conns' = [conns EXCEPT ![c].append = x]
    BY DEF ConnsType, ConnType
  <2>. QED  BY <1>b, <2>1, AppendingConns
<1>. HIDE DEF x
<1>1. SnapType'  BY DEF SnapType, Lifecycles, ActiveLifecycles
<1>2. ClockType'  BY ClearKeeps DEF ClockType
<1>3. TableType'
  BY DEF TableType, SnapType, Lifecycles, ActiveLifecycles, FinalizerType
<1>4. FinalizerType'  BY ZenonT(40) DEF FinalizerType, SnapType, Lifecycles, ActiveLifecycles
<1>5. ConnsType'  BY <1>c DEF ConnsType, Touched
<1>6. RoomInv'
  <2>1. conns[c].append # NoAppend
    BY DEF NoAppend
  <2>. QED  BY <1>c, <2>1, TouchedRoom DEF RoomInv
<1>7. WindowType'  BY DEF WindowType
<1>8. CountType'  BY DEF CountType
<1>9. Owned'
  BY DEF Owned, SnapType, Lifecycles, ActiveLifecycles, TableType, FinalizerType
<1>. QED  BY <1>1, <1>2, <1>3, <1>4, <1>5, <1>6, <1>7, <1>8, <1>9

LEMMA PauseRequestOwned ==
    ASSUME OwnedIInv, NEW w \in Windows, PauseRequest(w)
    PROVE  OwnedIInv'
<1>. USE CaptureAssumption DEF OwnedIInv, PauseRequest, Request, Waiting, StopAccepting,
      Accepting, calls, clock, ports, windows, budget
<1>a. Touched(current[w], conns[current[w]].queue, conns[current[w]].append, FALSE)
  BY AcceptingConns DEF WindowType, TableType
<1>1. SnapType'  BY DEF SnapType, Lifecycles, ActiveLifecycles
<1>2. ClockType'  BY DEF ClockType
<1>3. TableType'
  BY DEF TableType, SnapType, Lifecycles, ActiveLifecycles, FinalizerType
<1>4. FinalizerType'  BY DEF FinalizerType, SnapType, Lifecycles, ActiveLifecycles
<1>5. ConnsType'  BY <1>a DEF ConnsType, Touched
<1>6. RoomInv'  BY <1>a, TouchedRoom DEF RoomInv
<1>7. WindowType'  BY DEF WindowType
<1>8. CountType'  BY DEF CountType
<1>9. Owned'
  BY DEF Owned, SnapType, Lifecycles, ActiveLifecycles, TableType, FinalizerType
<1>. QED  BY <1>1, <1>2, <1>3, <1>4, <1>5, <1>6, <1>7, <1>8, <1>9

LEMMA StopRequestOwned ==
    ASSUME OwnedIInv, NEW w \in Windows, StopRequest(w)
    PROVE  OwnedIInv'
<1>. USE CaptureAssumption DEF OwnedIInv, StopRequest, Request, Waiting, StopAccepting,
      Accepting, calls, clock, ports, windows, budget
<1>a. Touched(current[w], conns[current[w]].queue, conns[current[w]].append, FALSE)
  BY AcceptingConns DEF WindowType, TableType
<1>1. SnapType'  BY DEF SnapType, Lifecycles, ActiveLifecycles
<1>2. ClockType'  BY DEF ClockType
<1>3. TableType'
  BY DEF TableType, SnapType, Lifecycles, ActiveLifecycles, FinalizerType
<1>4. FinalizerType'  BY DEF FinalizerType, SnapType, Lifecycles, ActiveLifecycles
<1>5. ConnsType'  BY <1>a DEF ConnsType, Touched
<1>6. RoomInv'  BY <1>a, TouchedRoom DEF RoomInv
<1>7. WindowType'  BY DEF WindowType
<1>8. CountType'  BY DEF CountType
<1>9. Owned'
  BY DEF Owned, SnapType, Lifecycles, ActiveLifecycles, TableType, FinalizerType
<1>. QED  BY <1>1, <1>2, <1>3, <1>4, <1>5, <1>6, <1>7, <1>8, <1>9

LEMMA PauseOwned ==
    ASSUME OwnedIInv, NEW h \in waits, Pause(h)
    PROVE  OwnedIInv'
<1>. USE CaptureAssumption DEF OwnedIInv, Pause, calls, clock, ports, windows, budget
<1>1. SnapType'  BY DEF SnapType, Lifecycles, ActiveLifecycles
<1>2. ClockType'  BY DEF ClockType
<1>3. TableType'
  BY DEF TableType, SnapType, Lifecycles, ActiveLifecycles, FinalizerType
<1>4. FinalizerType'  BY DEF FinalizerType, SnapType, Lifecycles, ActiveLifecycles
<1>5. ConnsType'  BY DEF ConnsType, WindowType, TableType, FinalizerType
<1>6. RoomInv'  BY DEF RoomInv, ConnsType
<1>7. WindowType'  BY DEF WindowType
<1>8. CountType'  BY DEF CountType
<1>9. Owned'
  BY DEF Owned, SnapType, Lifecycles, ActiveLifecycles, TableType, FinalizerType
<1>. QED  BY <1>1, <1>2, <1>3, <1>4, <1>5, <1>6, <1>7, <1>8, <1>9

LEMMA ResumeOwned ==
    ASSUME OwnedIInv, NEW w \in Windows, Resume(w)
    PROVE  OwnedIInv'
<1>. USE CaptureAssumption DEF OwnedIInv, Resume, Reopened, Accepting, calls, clock,
      ports, windows, budget
<1>a. Touched(current[w], conns[current[w]].queue, conns[current[w]].append, TRUE)
  BY AcceptingConns DEF WindowType, TableType
<1>1. SnapType'  BY DEF SnapType, Lifecycles, ActiveLifecycles
<1>2. ClockType'  BY DEF ClockType
<1>3. TableType'
  BY DEF TableType, SnapType, Lifecycles, ActiveLifecycles, FinalizerType
<1>4. FinalizerType'  BY DEF FinalizerType, SnapType, Lifecycles, ActiveLifecycles
<1>5. ConnsType'  BY <1>a DEF ConnsType, Touched
<1>6. RoomInv'  BY <1>a, TouchedRoom DEF RoomInv
<1>7. WindowType'  BY DEF WindowType
<1>8. CountType'  BY DEF CountType
<1>9. Owned'
  BY DEF Owned, SnapType, Lifecycles, ActiveLifecycles, TableType, FinalizerType
<1>. QED  BY <1>1, <1>2, <1>3, <1>4, <1>5, <1>6, <1>7, <1>8, <1>9

LEMMA StopOwned ==
    ASSUME OwnedIInv, NEW h \in waits, Stop(h)
    PROVE  OwnedIInv'
<1>. USE CaptureAssumption DEF OwnedIInv, Stop, Finalize, calls, clock, ports, windows,
      budget
<1>a. snap' \in {snap, [snap EXCEPT !.pause = FALSE, !.lifecycle = "stopping"],
                 [snap EXCEPT !.pause = FALSE, !.lifecycle = "error"]}
  OBVIOUS
<1>b. FinalizerType'
  <2>1. CASE finalizer' = finalizer
    BY <2>1 DEF FinalizerType
  <2>2. CASE finalizer' # finalizer
    <3>1. PICK r \in [by : Conns \union {None, "stop"}, to : {"none", "complete", "interrupted"},
                      detached : BOOLEAN, release : Windows \union {None}] :
            /\ r.by = "stop" => r.to # "none"
            /\ finalizer' = [finalizer EXCEPT ![snap.meeting] = r]
      BY <2>2 DEF FinalizerType, WindowType
    <3>. QED  BY <3>1 DEF FinalizerType
  <2>. QED  BY <2>1, <2>2
<1>1. SnapType'  BY <1>a, ZenonT(40) DEF SnapType, Lifecycles, ActiveLifecycles
<1>2. ClockType'  BY ClearKeeps DEF ClockType
<1>3. TableType'
  BY DEF TableType, SnapType, Lifecycles, ActiveLifecycles, FinalizerType
<1>4. FinalizerType'  BY <1>b DEF FinalizerType
<1>5. ConnsType'  BY DEF ConnsType, WindowType, TableType, FinalizerType
<1>6. RoomInv'  BY DEF RoomInv, ConnsType
<1>7. WindowType'  BY DEF WindowType
<1>8. CountType'  BY DEF CountType
<1>9. Owned'
  BY <1>a, ZenonT(90) DEF Owned, SnapType, Lifecycles, ActiveLifecycles, TableType, FinalizerType
<1>. QED  BY <1>1, <1>2, <1>3, <1>4, <1>5, <1>6, <1>7, <1>8, <1>9

LEMMA FinalizeResolvesOwned ==
    ASSUME OwnedIInv, NEW m \in Meetings, FinalizeResolves(m)
    PROVE  OwnedIInv'
<1>. USE CaptureAssumption DEF OwnedIInv, FinalizeResolves, Settles, Settled,
      ShownAssets, Unowned, Forgotten, NoFinalizer, calls, clock, ports, windows, budget
<1>. DEFINE f == finalizer[m]
<1>a. /\ f.by \in Conns => Touched(f.by, conns[f.by].queue, NoAppend, conns[f.by].accepting)
      /\ f.by \notin Conns => Touched(None, <<>>, NoAppend, FALSE)
  <2>1. ASSUME f.by \in Conns
        PROVE  Touched(f.by, conns[f.by].queue, NoAppend, conns[f.by].accepting)
    BY <2>1, AppendingConns, NoAppendType
  <2>2. ASSUME f.by \notin Conns PROVE Touched(None, <<>>, NoAppend, FALSE)
    BY <2>2 DEF Touched, ConnsType
  <2>. QED  BY <2>1, <2>2
<1>1. SnapType'  BY ZenonT(40) DEF SnapType, Lifecycles, ActiveLifecycles, FinalizerType
<1>2. ClockType'  BY ClearKeeps DEF ClockType
<1>3. TableType'
  BY DEF TableType, SnapType, Lifecycles, ActiveLifecycles, FinalizerType
<1>4. FinalizerType'  BY DEF FinalizerType, SnapType, Lifecycles, ActiveLifecycles
<1>5. ConnsType'  BY <1>a DEF ConnsType, Touched
<1>6. RoomInv'  BY <1>a, TouchedRoom, CaptureAssumption DEF RoomInv
<1>7. WindowType'  BY DEF WindowType
<1>8. CountType'  BY DEF CountType
<1>9. Owned'
  BY DEF Owned, SnapType, Lifecycles, ActiveLifecycles, TableType, FinalizerType
<1>. QED  BY <1>1, <1>2, <1>3, <1>4, <1>5, <1>6, <1>7, <1>8, <1>9

LEMMA FinalizeRejectsOwned ==
    ASSUME OwnedIInv, NEW m \in Meetings, FinalizeRejects(m)
    PROVE  OwnedIInv'
<1>. USE CaptureAssumption DEF OwnedIInv, FinalizeRejects, Settles, Settled, Unowned,
      Forgotten, NoFinalizer, calls, clock, ports, windows, budget
<1>. DEFINE f == finalizer[m]
<1>a. /\ f.by \in Conns => Touched(f.by, conns[f.by].queue, NoAppend, conns[f.by].accepting)
      /\ f.by \notin Conns => Touched(None, <<>>, NoAppend, FALSE)
  <2>1. ASSUME f.by \in Conns
        PROVE  Touched(f.by, conns[f.by].queue, NoAppend, conns[f.by].accepting)
    BY <2>1, AppendingConns, NoAppendType
  <2>2. ASSUME f.by \notin Conns PROVE Touched(None, <<>>, NoAppend, FALSE)
    BY <2>2, ZenonT(40) DEF Touched, ConnsType
  <2>. QED  BY <2>1, <2>2
<1>1. SnapType'
  <2>0. SnapType
    OBVIOUS
  <2>1. PICK shown \in {m, None} : Settled(m, shown, "error")
    OBVIOUS
  <2>2. CASE snap' = [[snap EXCEPT !.assets = shown, !.lifecycle = "error"] EXCEPT !.owner = None]
    BY ONLY <2>0, <2>2 DEF SnapType, Lifecycles
  <2>3. CASE snap' = [[snap EXCEPT !.assets = shown, !.lifecycle = "error"]
                        EXCEPT !.owner = snap.owner]
    BY ONLY <2>0, <2>3 DEF SnapType, Lifecycles
  <2>. QED  BY <2>1, <2>2, <2>3 DEF SnapType
<1>2. ClockType'  BY ClearKeeps DEF ClockType
<1>3. TableType'
  BY DEF TableType, SnapType, Lifecycles, ActiveLifecycles, FinalizerType
<1>4. FinalizerType'  BY DEF FinalizerType, SnapType, Lifecycles, ActiveLifecycles
<1>5. ConnsType'  BY <1>a DEF ConnsType, Touched
<1>6. RoomInv'  BY <1>a, TouchedRoom, CaptureAssumption DEF RoomInv
<1>7. WindowType'  BY DEF WindowType
<1>8. CountType'  BY DEF CountType
<1>9. Owned'
  BY DEF Owned, SnapType, Lifecycles, ActiveLifecycles, TableType, FinalizerType
<1>. QED  BY <1>1, <1>2, <1>3, <1>4, <1>5, <1>6, <1>7, <1>8, <1>9

LEMMA CloseOwned ==
    ASSUME OwnedIInv, NEW w \in Windows, Close(w)
    PROVE  OwnedIInv'
<1>. USE CaptureAssumption DEF OwnedIInv, Close, Leave, Request, Waiting, StopAccepting,
      Accepting, PortClosed, calls, clock, ports, windows, budget
<1>a. /\ w \in released => Touched(None, <<>>, NoAppend, FALSE)
      /\ w \notin released => Touched(current[w], conns[current[w]].queue,
                                      conns[current[w]].append, FALSE)
  <2>1. ASSUME w \in released PROVE Touched(None, <<>>, NoAppend, FALSE)
    BY <2>1 DEF Touched, ConnsType
  <2>2. ASSUME w \notin released
        PROVE  Touched(current[w], conns[current[w]].queue, conns[current[w]].append, FALSE)
    BY <2>2, AcceptingConns DEF WindowType
  <2>. QED  BY <2>1, <2>2
<1>1. SnapType'  BY DEF SnapType, Lifecycles, ActiveLifecycles
<1>2. ClockType'  BY DEF ClockType
<1>3. TableType'
  BY DEF TableType, SnapType, Lifecycles, ActiveLifecycles, FinalizerType
<1>4. FinalizerType'  BY DEF FinalizerType, SnapType, Lifecycles, ActiveLifecycles
<1>5. ConnsType'  BY <1>a DEF ConnsType, Touched
<1>6. RoomInv'  BY <1>a, TouchedRoom, CaptureAssumption DEF RoomInv
<1>7. WindowType'  BY DEF WindowType
<1>8. CountType'  BY DEF CountType
<1>9. Owned'
  BY DEF Owned, SnapType, Lifecycles, ActiveLifecycles, TableType, FinalizerType
<1>. QED  BY <1>1, <1>2, <1>3, <1>4, <1>5, <1>6, <1>7, <1>8, <1>9

LEMMA ReloadOwned ==
    ASSUME OwnedIInv, NEW w \in Windows, Reload(w)
    PROVE  OwnedIInv'
<1>. USE CaptureAssumption DEF OwnedIInv, Reload, Leave, Request, Waiting,
      StopAccepting, Accepting, PortClosed, calls, clock, ports, windows, budget
<1>a. /\ w \in released => Touched(None, <<>>, NoAppend, FALSE)
      /\ w \notin released => Touched(current[w], conns[current[w]].queue,
                                      conns[current[w]].append, FALSE)
  <2>1. ASSUME w \in released PROVE Touched(None, <<>>, NoAppend, FALSE)
    BY <2>1 DEF Touched, ConnsType
  <2>2. ASSUME w \notin released
        PROVE  Touched(current[w], conns[current[w]].queue, conns[current[w]].append, FALSE)
    BY <2>2, AcceptingConns DEF WindowType
  <2>. QED  BY <2>1, <2>2
<1>1. SnapType'  BY DEF SnapType, Lifecycles, ActiveLifecycles
<1>2. ClockType'  BY DEF ClockType
<1>3. TableType'
  BY DEF TableType, SnapType, Lifecycles, ActiveLifecycles, FinalizerType
<1>4. FinalizerType'  BY DEF FinalizerType, SnapType, Lifecycles, ActiveLifecycles
<1>5. ConnsType'  BY <1>a DEF ConnsType, Touched
<1>6. RoomInv'  BY <1>a, TouchedRoom, CaptureAssumption DEF RoomInv
<1>7. WindowType'  BY DEF WindowType
<1>8. CountType'  BY DEF CountType
<1>9. Owned'
  BY DEF Owned, SnapType, Lifecycles, ActiveLifecycles, TableType, FinalizerType
<1>. QED  BY <1>1, <1>2, <1>3, <1>4, <1>5, <1>6, <1>7, <1>8, <1>9

LEMMA OwnerDestroyedOwned ==
    ASSUME OwnedIInv, NEW h \in waits, OwnerDestroyed(h)
    PROVE  OwnedIInv'
<1>. USE CaptureAssumption DEF OwnedIInv, OwnerDestroyed, Abandoned, Finalize, Unowned,
      Forgotten, calls, clock, ports, windows, budget
<1>a. h.window \in Windows
  BY DEF WindowType
<1>b. \E l \in Lifecycles, p \in BOOLEAN, o \in {snap.owner, None} :
        /\ snap' = [lifecycle |-> l, meeting |-> snap.meeting, owner |-> o,
                    assets |-> snap.assets, recovered |-> snap.recovered, pause |-> p]
        /\ \/ meetingOwners' = meetingOwners /\ o = snap.owner
           \/ /\ meetingOwners' = Forgotten(h.window)
              /\ o = IF snap.owner = h.window THEN None ELSE snap.owner
  <2>1. CASE Abandoned(h.window) /\ store[snap.meeting] = "open"
    <3>1. /\ snap' = [lifecycle |-> "stopping", meeting |-> snap.meeting, owner |-> snap.owner,
                      assets |-> snap.assets, recovered |-> snap.recovered, pause |-> FALSE]
          /\ meetingOwners' = meetingOwners
      BY <2>1, ZenonT(90) DEF SnapType
    <3>. QED  BY <3>1 DEF Lifecycles, ActiveLifecycles
  <2>2. CASE Abandoned(h.window) /\ store[snap.meeting] # "open"
    <3>1. /\ snap' = [lifecycle |-> "error", meeting |-> snap.meeting, owner |-> None,
                      assets |-> snap.assets, recovered |-> snap.recovered, pause |-> FALSE]
          /\ meetingOwners' = Forgotten(h.window) /\ snap.owner = h.window
      BY <1>a, <2>2, ZenonT(90) DEF SnapType
    <3>. QED  BY <3>1 DEF Lifecycles
  <2>3. CASE ~Abandoned(h.window)
    <3>1. /\ snap' = [lifecycle |-> snap.lifecycle, meeting |-> snap.meeting,
                      owner |-> IF snap.owner = h.window THEN None ELSE snap.owner,
                      assets |-> snap.assets, recovered |-> snap.recovered, pause |-> snap.pause]
          /\ meetingOwners' = Forgotten(h.window)
      BY <1>a, <2>3 DEF SnapType
    <3>2. snap.lifecycle \in Lifecycles /\ snap.pause \in BOOLEAN
      BY DEF SnapType
    <3>. QED  BY <3>1, <3>2
  <2>. QED  BY <2>1, <2>2, <2>3
<1>c. FinalizerType'
  <2>1. CASE finalizer' = finalizer
    BY <2>1 DEF FinalizerType
  <2>2. CASE finalizer' # finalizer
    <3>1. PICK r \in [by : Conns \union {None, "stop"}, to : {"none", "complete", "interrupted"},
                      detached : BOOLEAN, release : Windows \union {None}] :
            /\ r.by = "stop" => r.to # "none"
            /\ finalizer' = [finalizer EXCEPT ![snap.meeting] = r]
      BY <2>2 DEF FinalizerType, WindowType
    <3>. QED  BY <3>1 DEF FinalizerType
  <2>. QED  BY <2>1, <2>2
<1>1. SnapType'
  BY <1>b DEF SnapType
<1>2. ClockType'  BY ClearKeeps DEF ClockType
<1>3. TableType'
  BY DEF TableType, SnapType, Lifecycles, ActiveLifecycles, FinalizerType
<1>4. FinalizerType'  BY <1>c DEF FinalizerType
<1>5. ConnsType'  BY DEF ConnsType, WindowType, TableType, FinalizerType
<1>6. RoomInv'  BY DEF RoomInv, ConnsType
<1>7. WindowType'  BY DEF WindowType
<1>8. CountType'  BY DEF CountType
<1>9. Owned'
  <2>1. PICK o \in {snap.owner, None} :
          /\ snap'.owner = o /\ snap'.meeting = snap.meeting
          /\ \/ meetingOwners' = meetingOwners /\ o = snap.owner
             \/ /\ meetingOwners' = Forgotten(h.window)
                /\ o = IF snap.owner = h.window THEN None ELSE snap.owner
    BY <1>b
  <2>2. CASE o = None
    BY <2>1, <2>2 DEF Owned
  <2>3. CASE o # None
    BY <2>1, <2>3 DEF Owned, TableType, SnapType
  <2>. QED  BY <2>2, <2>3
<1>. QED  BY <1>1, <1>2, <1>3, <1>4, <1>5, <1>6, <1>7, <1>8, <1>9

LEMMA AcknowledgeRequestOwned ==
    ASSUME OwnedIInv, NEW w \in Windows, NEW m \in Meetings, AcknowledgeRequest(w, m)
    PROVE  OwnedIInv'
<1>. USE CaptureAssumption DEF OwnedIInv, AcknowledgeRequest, MayOwn, Adopted, calls,
      clock, ports, windows, budget
<1>1. SnapType'  BY DEF SnapType, Lifecycles, ActiveLifecycles
<1>2. ClockType'  BY DEF ClockType
<1>3. TableType'
  BY DEF TableType, SnapType, Lifecycles, ActiveLifecycles, FinalizerType
<1>4. FinalizerType'  BY DEF FinalizerType, SnapType, Lifecycles, ActiveLifecycles
<1>5. ConnsType'  BY DEF ConnsType, WindowType, TableType, FinalizerType
<1>6. RoomInv'  BY DEF RoomInv, ConnsType
<1>7. WindowType'  BY DEF WindowType
<1>8. CountType'  BY DEF CountType
<1>9. Owned'
  BY DEF Owned, SnapType, Lifecycles, ActiveLifecycles, TableType, FinalizerType
<1>. QED  BY <1>1, <1>2, <1>3, <1>4, <1>5, <1>6, <1>7, <1>8, <1>9

LEMMA AcknowledgeOwned ==
    ASSUME OwnedIInv, NEW m \in Meetings, Acknowledge(m)
    PROVE  OwnedIInv'
<1>. USE CaptureAssumption DEF OwnedIInv, Acknowledge, Finished, Reset, InitialSnapshot,
      calls, clock, ports, windows, budget
<1>a. \/ snap' = snap /\ meetingOwners' = meetingOwners
      \/ snap' = InitialSnapshot(snap.recovered \ {m})
      \/ /\ snap' = [snap EXCEPT !.recovered = @ \ {m}] /\ ~Finished(m)
         /\ meetingOwners' \in {IF snap.meeting = m /\ IsActive THEN meetingOwners
                                ELSE [meetingOwners EXCEPT ![m] = None]}
  OBVIOUS
<1>1. SnapType'
  <2>1. CASE snap' = snap
    BY <2>1 DEF SnapType
  <2>2. CASE snap' = InitialSnapshot(snap.recovered \ {m})
    BY <2>2 DEF SnapType, Lifecycles
  <2>3. CASE snap' = [snap EXCEPT !.recovered = @ \ {m}]
    BY <2>3 DEF SnapType
  <2>. QED  BY <1>a, <2>1, <2>2, <2>3
<1>2. ClockType'  BY ClearKeeps DEF ClockType
<1>3. TableType'
  BY DEF TableType, SnapType, Lifecycles, ActiveLifecycles, FinalizerType
<1>4. FinalizerType'
  BY DetachKeeps DEF FinalizerType, SnapType, Lifecycles, ActiveLifecycles
<1>5. ConnsType'  BY DEF ConnsType, WindowType, TableType, FinalizerType
<1>6. RoomInv'  BY DEF RoomInv, ConnsType
<1>7. WindowType'  BY DEF WindowType
<1>8. CountType'  BY DEF CountType
<1>9. Owned'
  <2>1. CASE snap' = snap /\ meetingOwners' = meetingOwners
    BY <2>1 DEF Owned
  <2>2. CASE snap' = InitialSnapshot(snap.recovered \ {m})
    BY <2>2 DEF Owned
  <2>3. CASE /\ snap' = [snap EXCEPT !.recovered = @ \ {m}] /\ ~Finished(m)
             /\ meetingOwners' \in {IF snap.meeting = m /\ IsActive THEN meetingOwners
                                    ELSE [meetingOwners EXCEPT ![m] = None]}
    BY <2>3 DEF Owned, SnapType, TableType
  <2>. QED  BY <1>a, <2>1, <2>2, <2>3
<1>. QED  BY <1>1, <1>2, <1>3, <1>4, <1>5, <1>6, <1>7, <1>8, <1>9

LEMMA DeleteRequestOwned ==
    ASSUME OwnedIInv, NEW w \in Windows, NEW m \in Meetings, DeleteRequest(w, m)
    PROVE  OwnedIInv'
<1>. USE CaptureAssumption DEF OwnedIInv, DeleteRequest, MayOwn, Adopted, calls, clock,
      ports, windows, budget
<1>1. SnapType'  BY DEF SnapType, Lifecycles, ActiveLifecycles
<1>2. ClockType'  BY DEF ClockType
<1>3. TableType'
  BY DEF TableType, SnapType, Lifecycles, ActiveLifecycles, FinalizerType
<1>4. FinalizerType'  BY DEF FinalizerType, SnapType, Lifecycles, ActiveLifecycles
<1>5. ConnsType'  BY DEF ConnsType, WindowType, TableType, FinalizerType
<1>6. RoomInv'  BY DEF RoomInv, ConnsType
<1>7. WindowType'  BY DEF WindowType
<1>8. CountType'  BY DEF CountType
<1>9. Owned'
  BY DEF Owned, SnapType, Lifecycles, ActiveLifecycles, TableType, FinalizerType
<1>. QED  BY <1>1, <1>2, <1>3, <1>4, <1>5, <1>6, <1>7, <1>8, <1>9

LEMMA DeleteOwned ==
    ASSUME OwnedIInv, NEW m \in Meetings, Delete(m)
    PROVE  OwnedIInv'
<1>. USE CaptureAssumption DEF OwnedIInv, Delete, Finished, Reset, InitialSnapshot,
      calls, clock, ports, windows, budget
<1>a. \/ snap' = snap /\ meetingOwners' = meetingOwners
      \/ snap' = InitialSnapshot(snap.recovered \ {m})
  OBVIOUS
<1>1. SnapType'
  <2>1. CASE snap' = snap
    BY <2>1 DEF SnapType
  <2>2. CASE snap' = InitialSnapshot(snap.recovered \ {m})
    BY <2>2 DEF SnapType, Lifecycles
  <2>. QED  BY <1>a, <2>1, <2>2
<1>2. ClockType'  BY ClearKeeps DEF ClockType
<1>3. TableType'
  BY DEF TableType, SnapType, Lifecycles, ActiveLifecycles, FinalizerType
<1>4. FinalizerType'
  BY DetachKeeps DEF FinalizerType, SnapType, Lifecycles, ActiveLifecycles
<1>5. ConnsType'  BY DEF ConnsType, WindowType, TableType, FinalizerType
<1>6. RoomInv'  BY DEF RoomInv, ConnsType
<1>7. WindowType'  BY DEF WindowType
<1>8. CountType'  BY DEF CountType
<1>9. Owned'
  <2>1. CASE snap' = snap /\ meetingOwners' = meetingOwners
    BY <2>1 DEF Owned
  <2>2. CASE snap' = InitialSnapshot(snap.recovered \ {m})
    BY <2>2 DEF Owned
  <2>. QED  BY <1>a, <2>1, <2>2
<1>. QED  BY <1>1, <1>2, <1>3, <1>4, <1>5, <1>6, <1>7, <1>8, <1>9

LEMMA StartCalm ==
    ASSUME CaptureIInv, Undisturbed, OwnedIInv', NEW w \in Windows, NEW m \in Meetings, Start(w, m)
    PROVE  CaptureIInv'
<1>. USE CaptureAssumption DEF CaptureIInv, OwnedIInv, Start, InitialSnapshot, MayOwn,
      MayStart, calls, clock, ports, windows, budget
<1>a. \A c \in Conns : Drained(c)
  <2>1. \A c \in Conns : conns[c].append = NoAppend
    BY OneAppend DEF IsActive, ActiveLifecycles
  <2>. QED  BY <2>1 DEF Quiet, Drained
<1>b. \A h \in waits : h.kind = "release" /\ h.window \in gone
  <2>1. \A h \in waits : DrainDone(h)
    BY <1>a DEF DrainDone, WindowType
  <2>. QED  BY <2>1 DEF Quiet, WaitInv
<1>c. \A n \in Meetings : /\ store[n] \notin {"open", "finalizing"}
                          /\ starting[n] = None /\ finalizer[n].by = None
  <2>1. \A n \in Meetings : store[n] # "open" /\ starting[n] = None
    BY DEF StoreInv, IsActive, ActiveLifecycles
  <2>2. ASSUME NEW n \in Meetings, store[n] = "finalizing" PROVE FALSE
    <3>1. finalizer[n].by \in Conns /\ conns[finalizer[n].by].append.stage = "finalize"
      BY <2>2 DEF StoreInv, IsActive, ActiveLifecycles
    <3>. QED  BY <1>a, <3>1 DEF Drained, NoAppend
  <2>. QED  BY <2>1, <2>2 DEF StoreInv
<1>d. finalizer' = finalizer
  BY <1>c DEF Detach, FinalizerType
<1>e. /\ snap'.lifecycle = "starting" /\ snap'.meeting = m /\ snap'.owner = w
      /\ \A c \in Conns : Drained(c)'
  BY <1>a DEF Drained
<1>1. CalmInv'  BY <1>d DEF CalmInv
<1>2. ConnInv'  BY DEF ConnInv, WindowType, TableType
<1>3. QueueInv'
  BY <1>e DEF QueueInv
<1>4. WaitInv'
  <2>1. \A h \in waits' : /\ h.kind = "release" => h.window \in gone'
                          /\ h.conn # None => conns'[h.conn].window = h.window
                          /\ h.window \in gone' /\ h.kind = "release"
    BY <1>b DEF WaitInv
  <2>. QED  BY <1>e, <2>1 DEF WaitInv
<1>5. AppendInv'
  BY <1>e DEF AppendInv, Drained
<1>6. StoreInv'
  <2>1. \A n \in Meetings : starting'[n] # None => n = m
    BY <1>c DEF TableType
  <2>2. starting'[m] = w /\ page'[w] = m /\ \A h \in waits' : h.window # w
    BY <1>b DEF TableType, WindowType
  <2>. QED  BY <1>c, <1>d, <1>e, <2>1, <2>2 DEF StoreInv, IsActive
<1>7. TimerStops'
  BY DEF TimerStops, SnapType, Lifecycles, ActiveLifecycles, ClockType, ClearTimers
<1>8. SealedAudioIsShown'
  BY DEF SealedAudioIsShown, IsActive, ActiveLifecycles, SnapType, Lifecycles,
    TableType, StoreInv
<1>9. ListenInv'
  BY DEF ListenInv, SnapType, Lifecycles, ActiveLifecycles, WindowType, ConnInv
<1>. QED  BY <1>1, <1>2, <1>3, <1>4, <1>5, <1>6, <1>7, <1>8, <1>9

LEMMA StartResolvesCalm ==
    ASSUME CaptureIInv, Undisturbed, OwnedIInv', NEW m \in Meetings, StartResolves(m)
    PROVE  CaptureIInv'
<1>. USE CaptureAssumption DEF CaptureIInv, OwnedIInv, StartResolves, Accepting, calls,
      clock, ports, windows, budget
<1>a. Touched(current[starting[m]], conns[current[starting[m]]].queue, conns[current[starting[m]]].append, TRUE)
  BY AcceptingConns, ZenonT(40) DEF WindowType, TableType
<1>1. CalmInv'  BY DEF CalmInv, FinalizerType
<1>2. ConnInv'  BY <1>a DEF ConnInv, WindowType, TableType, Touched
<1>3. QueueInv'  BY <1>a, SMTT(30) DEF QueueInv, Drained, ConnInv, WindowType, Touched
<1>4. WaitInv'  BY <1>a DEF WaitInv, Drained, ConnInv, QueueInv, WindowType, Touched
<1>5. AppendInv'
  <2>1. \A c \in Conns : conns[c].append = NoAppend
    BY OneAppend, SMTT(30) DEF StoreInv
  <2>. QED  BY <1>a, <2>1 DEF AppendInv, Touched
<1>6. StoreInv'
  BY <1>a DEF StoreInv, SnapType, Lifecycles, ActiveLifecycles, TableType,
    FinalizerType, WindowType, AppendInv, Touched
<1>7. TimerStops'  BY DEF TimerStops, SnapType, Lifecycles, ActiveLifecycles, ClockType
<1>8. SealedAudioIsShown'
  BY DEF SealedAudioIsShown, IsActive, ActiveLifecycles, SnapType, Lifecycles,
    TableType, StoreInv
<1>9. ListenInv'
  BY <1>a DEF ListenInv, SnapType, Lifecycles, ActiveLifecycles, WindowType, ConnInv,
    Touched
<1>. QED  BY <1>1, <1>2, <1>3, <1>4, <1>5, <1>6, <1>7, <1>8, <1>9

LEMMA StartRejectsCalm ==
    ASSUME CaptureIInv, Undisturbed, OwnedIInv', NEW m \in Meetings, StartRejects(m)
    PROVE  CaptureIInv'
<1>. USE CaptureAssumption DEF CaptureIInv, OwnedIInv, StartRejects, calls, clock,
      ports, windows, budget
<1>1. CalmInv'  BY DEF CalmInv, FinalizerType
<1>2. ConnInv'  BY DEF ConnInv, WindowType, TableType
<1>3. QueueInv'  BY DEF QueueInv, Drained, ConnInv, WindowType
<1>4. WaitInv'  BY DEF WaitInv, Drained, ConnInv, QueueInv, WindowType
<1>5. AppendInv'
  <2>1. \A c \in Conns : conns[c].append = NoAppend
    BY OneAppend DEF StoreInv
  <2>. QED  BY <2>1 DEF AppendInv
<1>6. StoreInv'
  BY DEF StoreInv, SnapType, Lifecycles, ActiveLifecycles, TableType, FinalizerType,
    WindowType, AppendInv
<1>7. TimerStops'
  BY DEF TimerStops, SnapType, Lifecycles, ActiveLifecycles, ClockType, ClearTimers
<1>8. SealedAudioIsShown'
  BY DEF SealedAudioIsShown, IsActive, ActiveLifecycles, SnapType, Lifecycles,
    TableType, StoreInv
<1>9. ListenInv'
  BY DEF ListenInv, SnapType, Lifecycles, ActiveLifecycles, WindowType, ConnInv
<1>. QED  BY <1>1, <1>2, <1>3, <1>4, <1>5, <1>6, <1>7, <1>8, <1>9

LEMMA OpenPortCalm ==
    ASSUME CaptureIInv, Undisturbed, OwnedIInv', NEW w \in Windows, NEW c \in Conns, OpenPort(w, c)
    PROVE  CaptureIInv'
<1>. USE CaptureAssumption DEF CaptureIInv, OwnedIInv, OpenPort, Unused, calls, clock,
      ports, windows, budget
<1>. DEFINE Opened(b) == [window |-> w, meeting |-> page[w], accepting |-> b, queue |-> <<>>,
                         append |-> NoAppend]
            Live == snap.owner = w /\ snap.lifecycle \in {"starting", "recording"}
<1>a. conns' = [conns EXCEPT ![c] = [Unused EXCEPT !.window = w, !.meeting = page[w],
                                                   !.accepting = Live]]
  BY Zenon
<1>b. PICK b \in BOOLEAN : b = Live
  OBVIOUS
<1>. HIDE DEF Live
<1>c. conns' = [conns EXCEPT ![c] = [Unused EXCEPT !.window = w, !.meeting = page[w],
                                                   !.accepting = b]]
  BY ONLY <1>a, <1>b, Zenon
<1>d. PICK r : r = [Unused EXCEPT !.window = w, !.meeting = page[w], !.accepting = b]
  OBVIOUS
<1>g. r = Opened(b)
  BY <1>d DEF Opened, Unused
<1>e. conns' = [conns EXCEPT ![c] = Opened(b)]
  BY ONLY <1>c, <1>d, <1>g
<1>f. Opened(b) \in ConnType
  BY NoAppendType DEF ConnType, WindowType
<1>h. /\ page[w] \in Meetings /\ store[page[w]] # "none" /\ w \notin gone
      /\ \A d \in Conns : conns[d].meeting # page[w]
  BY DEF Captures, WindowType, ConnInv
<1>i. /\ \A d \in Conns : d # c => conns'[d] = conns[d]
      /\ conns'[c].window = w /\ conns'[c].meeting = page[w] /\ conns'[c].accepting = b
      /\ conns'[c].queue = <<>> /\ conns'[c].append = NoAppend
  <2>1. conns \in [Conns -> ConnType]
    BY DEF ConnsType
  <2>2. conns'[c] = Opened(b) /\ \A d \in Conns : d # c => conns'[d] = conns[d]
    BY ONLY <1>e, <2>1
  <2>. QED  BY ONLY <2>2
<1>j. /\ Drained(c) /\ \A v \in Windows : current[v] # c /\ port[v] # c
      /\ \A h \in waits : h.conn # c
  BY DEF Free
<1>k. \A h \in waits : h.window # w
  <2>1. SUFFICES ASSUME NEW h \in waits, h.window = w PROVE FALSE
    OBVIOUS
  <2>2. h.conn \in Conns /\ ~Drained(h.conn) /\ conns[h.conn].window = w
    BY <1>h, <2>1 DEF WaitInv, Quiet, DrainDone, WindowType
  <2>. QED  BY <1>h, <2>2 DEF QueueInv
<1>1. CalmInv'  BY DEF CalmInv, FinalizerType
<1>2. ConnInv'
  <2>1. \A d \in Conns : conns'[d].meeting # None => store'[conns'[d].meeting] # "none"
    BY <1>h, <1>i DEF ConnInv
  <2>2. \A d, e \in Conns : conns'[d].meeting # None /\ conns'[d].meeting = conns'[e].meeting
          => d = e
    BY <1>h, <1>i DEF ConnInv
  <2>3. ASSUME NEW d \in Conns, NEW v \in Windows, conns'[d].meeting # None,
               conns'[d].meeting = page'[v]
        PROVE  port'[v] = d /\ conns'[d].window = v
    <3>1. CASE d = c
      <4>1. v = w
        BY <1>h, <1>i, <2>3, <3>1 DEF ConnInv
      <4>. QED  BY <1>i, <3>1, <4>1 DEF WindowType
    <3>2. CASE d # c
      <4>1. port[v] = d /\ conns[d].window = v /\ v # w
        BY <1>h, <1>i, <2>3, <3>2 DEF ConnInv
      <4>. QED  BY <1>i, <3>2, <4>1 DEF WindowType
    <3>. QED  BY <3>1, <3>2
  <2>4. \A v, u \in Windows : page'[v] # None /\ page'[v] = page'[u] => v = u
    BY DEF ConnInv
  <2>5. \A v \in gone' : port'[v] = None /\ page'[v] = None
    BY <1>h DEF ConnInv, WindowType
  <2>6. \A v \in Windows : /\ port'[v] # None => port'[v] = current'[v]
                           /\ current'[v] # None => conns'[current'[v]].window = v
    BY <1>i, <1>j DEF ConnInv, WindowType
  <2>. QED  BY <2>1, <2>2, <2>3, <2>4, <2>5, <2>6 DEF ConnInv
<1>3. QueueInv'  BY DEF QueueInv, Drained, ConnInv, WindowType
<1>4. WaitInv'
  <2>1. \A d \in Conns : ~Drained(d)' => d # c /\ ~Drained(d) /\ conns'[d] = conns[d]
    BY <1>i DEF Drained
  <2>2. \A h \in waits : h.window # w /\ h.conn # c /\ h.window \in Windows
                         /\ h.conn \in Conns \union {None}
    BY <1>j, <1>k DEF WindowType
  <2>3. \A h \in waits : h.window \notin gone => h.conn = current'[h.window]
    BY <2>2 DEF WaitInv, WindowType
  <2>. QED  BY <1>i, <2>1, <2>2, <2>3 DEF WaitInv
<1>5. AppendInv'
  BY DEF AppendInv, SnapType, Lifecycles, ActiveLifecycles, QueueInv, Drained
<1>6. StoreInv'
  <2>1. \A n \in Meetings : finalizer[n].by \in Conns
          /\ conns[finalizer[n].by].append.stage = "finalize"
             => conns'[finalizer[n].by].append.stage = "finalize"
    BY <1>i, <1>j DEF Drained, NoAppend
  <2>. QED  BY <2>1 DEF StoreInv, IsActive
<1>7. TimerStops'  BY DEF TimerStops, SnapType, Lifecycles, ActiveLifecycles, ClockType
<1>8. SealedAudioIsShown'
  BY DEF SealedAudioIsShown, IsActive, ActiveLifecycles, SnapType, Lifecycles,
    TableType, StoreInv
<1>9. ListenInv'
  <2>1. SUFFICES ASSUME NEW v \in Windows, snap.owner = v, port'[v] # None,
                        snap.lifecycle \in {"starting", "recording"},
                        conns'[port'[v]].meeting = snap.meeting,
                        \A h \in waits : h.window # v
                 PROVE  conns'[port'[v]].accepting
    BY DEF ListenInv
  <2>2. CASE v = w
    <3>1. port'[v] = c /\ Live
      BY <2>1, <2>2 DEF WindowType, Live
    <3>. QED  BY <1>b, <1>i, <3>1
  <2>3. CASE v # w
    <3>1. port'[v] = port[v] /\ port[v] \in Conns /\ port[v] # c
      BY <1>j, <2>1, <2>3 DEF WindowType
    <3>. QED  BY <1>i, <2>1, <3>1 DEF ListenInv
  <2>. QED  BY <2>2, <2>3
<1>. QED  BY <1>1, <1>2, <1>3, <1>4, <1>5, <1>6, <1>7, <1>8, <1>9

LEMMA FrameCalm ==
    ASSUME CaptureIInv, Undisturbed, OwnedIInv', NEW w \in Windows, Frame(w)
    PROVE  CaptureIInv'
<1>. USE CaptureAssumption DEF CaptureIInv, OwnedIInv, Frame, calls, clock, ports,
      windows, budget
<1>a. port[w] \in Conns /\ page[w] \in Meetings /\ conns[port[w]].queue \in Seq(Meetings)
      /\ conns[port[w]].append \in AppendType
  BY DEF WindowType, Captures, ConnsType, ConnType
<1>b. Touched(port[w], Append(conns[port[w]].queue, page[w]), conns[port[w]].append,
              conns[port[w]].accepting)
  <2>1. conns' = [conns EXCEPT ![port[w]].queue = Append(conns[port[w]].queue, page[w])]
    BY <1>a DEF ConnsType, ConnType
  <2>2. Append(conns[port[w]].queue, page[w]) \in Seq(Meetings)
    BY <1>a, AppendProperties
  <2>. QED  BY <1>a, <2>1, <2>2, QueueingConns
<1>c. /\ Len(Append(conns[port[w]].queue, page[w])) = Len(conns[port[w]].queue) + 1
      /\ Len(conns[port[w]].queue) \in Nat
  BY <1>a, AppendProperties
<1>1. CalmInv'  BY DEF CalmInv, FinalizerType
<1>2. ConnInv'  BY <1>a, <1>b DEF ConnInv, WindowType, TableType, Touched
<1>3. QueueInv'  BY <1>a, <1>b, SMTT(30) DEF QueueInv, Drained, ConnInv, WindowType, Touched
<1>4. WaitInv'
  BY <1>a, <1>b DEF WaitInv, Drained, ConnInv, QueueInv, WindowType, Touched
<1>5. AppendInv'
  BY <1>a, <1>b DEF AppendInv, SnapType, Lifecycles, ActiveLifecycles, QueueInv,
    Drained, Touched
<1>6. StoreInv'
  <2>1. \A d \in Conns : conns'[d].append = conns[d].append
    BY <1>b DEF Touched
  <2>2. StoreInv
    OBVIOUS
  <2>3. /\ waits' = waits /\ gone' = gone /\ page' = page /\ store' = store /\ snap' = snap
        /\ starting' = starting /\ finalizer' = finalizer /\ stopPromise' = stopPromise
    OBVIOUS
  <2>. QED  BY ONLY <2>1, <2>2, <2>3 DEF StoreInv, IsActive
<1>7. TimerStops'  BY DEF TimerStops, SnapType, Lifecycles, ActiveLifecycles, ClockType
<1>8. SealedAudioIsShown'
  BY DEF SealedAudioIsShown, IsActive, ActiveLifecycles, SnapType, Lifecycles,
    TableType, StoreInv
<1>9. ListenInv'
  BY <1>a, <1>b DEF ListenInv, SnapType, Lifecycles, ActiveLifecycles, WindowType,
    ConnInv, Touched
<1>. QED  BY <1>1, <1>2, <1>3, <1>4, <1>5, <1>6, <1>7, <1>8, <1>9

LEMMA AppendAudioCalm ==
    ASSUME CaptureIInv, Undisturbed, OwnedIInv', NEW c \in Conns, AppendAudio(c)
    PROVE  CaptureIInv'
<1>. USE CaptureAssumption DEF CaptureIInv, OwnedIInv, AppendAudio, calls, clock, ports,
      windows, budget
<1>. DEFINE x == IF Taken(c) /\ store[Head(conns[c].queue)] = "open"
                 THEN [stage |-> "write", meeting |-> Head(conns[c].queue),
                       activates |-> snap.lifecycle = "starting"]
                 ELSE NoAppend
<1>a. /\ conns[c].queue \in Seq(Meetings) /\ conns[c].queue # <<>>
      /\ Head(conns[c].queue) \in Meetings /\ Tail(conns[c].queue) \in Seq(Meetings)
      /\ Len(Tail(conns[c].queue)) + 1 = Len(conns[c].queue)
  BY DEF ConnsType, ConnType
<1>b. x \in AppendType
  BY <1>a DEF AppendType, NoAppend
<1>c. Touched(c, Tail(conns[c].queue), x, conns[c].accepting)
  <2>1. conns' = [conns EXCEPT ![c].queue = Tail(conns[c].queue), ![c].append = x]
    BY DEF ConnsType, ConnType
  <2>. QED  BY <1>a, <1>b, <2>1, TakingConns
<1>. HIDE DEF x
<1>d. snap' \in {snap, [snap EXCEPT !.lifecycle = "error", !.assets = None, !.pause = FALSE]}
  OBVIOUS
<1>e. /\ ~Drained(c) /\ conns[c].meeting # None
      /\ \A i \in 1..Len(conns[c].queue) : conns[c].queue[i] = conns[c].meeting
      /\ Head(conns[c].queue) = conns[c].meeting
  BY <1>a, SMTT(30) DEF Drained, QueueInv
<1>f. Taken(c) => store[Head(conns[c].queue)] = "open"
  <2>1. SUFFICES ASSUME Taken(c), store[conns[c].meeting] # "open" PROVE FALSE
    BY <1>e
  <2>2. snap.meeting = conns[c].meeting /\ snap.meeting \in Meetings
        /\ snap.lifecycle \in {"starting", "recording"}
    BY <1>a, <1>e, <2>1 DEF Taken
  <2>3. store[snap.meeting] = "finalizing"
    BY <1>e, <2>1, <2>2 DEF StoreInv, IsActive, ActiveLifecycles, ConnInv
  <2>4. PICK d \in Conns : conns[d].append.stage = "finalize"
    BY <2>2, <2>3 DEF StoreInv
  <2>5. conns[d].append # NoAppend
    BY <2>4 DEF NoAppend
  <2>6. conns[d].meeting = snap.meeting
    BY <2>5, OneAppend
  <2>7. d = c
    BY <1>e, <2>2, <2>6 DEF ConnInv
  <2>. QED  BY <2>5, <2>7
<1>g. snap' = snap /\ timers' = timers /\ timer' = timer
  BY <1>f
<1>h. \A d \in Conns : ~Drained(d)' => ~Drained(d)
  BY <1>a, <1>c, <1>e DEF Drained, Touched
<1>1. CalmInv'  BY SMTT(30) DEF CalmInv, FinalizerType
<1>2. ConnInv'  BY <1>a, <1>c DEF ConnInv, WindowType, TableType, Touched
<1>3. QueueInv'
  <2>1. \A i \in 1..Len(Tail(conns[c].queue)) :
          i + 1 \in 1..Len(conns[c].queue) /\ Tail(conns[c].queue)[i] = conns[c].queue[i + 1]
    BY ONLY <1>a, HeadTailProperties
  <2>2. \A i \in 1..Len(Tail(conns[c].queue)) : Tail(conns[c].queue)[i] = conns[c].meeting
    BY ONLY <1>e, <2>1
  <2>. QED  BY <1>c, <1>h, <2>2 DEF QueueInv, Touched
<1>4. WaitInv'
  <2>1. \A d \in Conns : conns'[d].window = conns[d].window
    BY <1>c DEF Touched
  <2>2. WaitInv /\ WindowType
    OBVIOUS
  <2>3. waits' = waits /\ gone' = gone /\ current' = current
    BY SMTT(30)
  <2>. QED  BY ONLY <1>g, <1>h, <2>1, <2>2, <2>3 DEF WaitInv, WindowType
<1>5. AppendInv'
  <2>1. SUFFICES ASSUME NEW d \in Conns, conns'[d].append # NoAppend
                 PROVE  /\ conns'[d].append.meeting = conns'[d].meeting
                        /\ snap'.meeting = conns'[d].meeting /\ snap'.owner = conns'[d].window
                        /\ snap'.lifecycle = IF conns'[d].append.activates THEN "starting"
                                             ELSE "recording"
                        /\ \/ conns'[d].append.stage = "write" /\ store'[snap'.meeting] = "open"
                           \/ /\ conns'[d].append.stage = "finalize"
                              /\ store'[snap'.meeting] = "finalizing"
                              /\ finalizer'[snap'.meeting].by = d
    BY DEF AppendInv
  <2>2. CASE d # c
    BY <1>c, <1>g, <2>1, <2>2 DEF AppendInv, Touched
  <2>3. CASE d = c
    <3>1. x # NoAppend /\ conns'[c].append = x
      BY <1>c, <2>1, <2>3 DEF Touched
    <3>2. /\ Taken(c) /\ store[conns[c].meeting] = "open"
          /\ x = [stage |-> "write", meeting |-> conns[c].meeting,
                  activates |-> snap.lifecycle = "starting"]
      BY <1>e, <3>1 DEF x
    <3>3. /\ snap.meeting = conns[c].meeting /\ snap.owner = conns[c].window
          /\ snap.lifecycle \in {"starting", "recording"}
      BY <1>e, <3>2 DEF Taken
    <3>4. x.stage = "write" /\ x.meeting = conns[c].meeting
          /\ (x.activates <=> snap.lifecycle = "starting")
      BY <3>2
    <3>. QED  BY <1>c, <1>g, <2>3, <3>1, <3>2, <3>3, <3>4 DEF Touched
  <2>. QED  BY <2>2, <2>3, SMTT(30)
<1>6. StoreInv'
  <2>1. \A d \in Conns : conns[d].append.stage = "finalize" => conns'[d].append.stage = "finalize"
    BY <1>c DEF Touched, NoAppend
  <2>2. StoreInv
    OBVIOUS
  <2>3. /\ waits' = waits /\ gone' = gone /\ page' = page /\ store' = store
        /\ starting' = starting /\ finalizer' = finalizer /\ stopPromise' = stopPromise
    OBVIOUS
  <2>. QED  BY ONLY <1>g, <2>1, <2>2, <2>3 DEF StoreInv, IsActive
<1>7. TimerStops'
  BY <1>g DEF TimerStops
<1>8. SealedAudioIsShown'
  BY <1>g DEF SealedAudioIsShown, IsActive
<1>9. ListenInv'
  BY <1>c, <1>g DEF ListenInv, Touched, WindowType
<1>. QED  BY <1>1, <1>2, <1>3, <1>4, <1>5, <1>6, <1>7, <1>8, <1>9

LEMMA AppendResolvesCalm ==
    ASSUME CaptureIInv, Undisturbed, OwnedIInv', NEW c \in Conns, AppendResolves(c)
    PROVE  CaptureIInv'
<1>. USE CaptureAssumption DEF CaptureIInv, OwnedIInv, AppendResolves, calls, clock,
      ports, windows, budget
<1>a. Touched(c, conns[c].queue, NoAppend, conns[c].accepting)
  BY AppendingConns, NoAppendType
<1>b. /\ conns[c].append # NoAppend /\ \A d \in Conns : conns'[d].append = NoAppend
      /\ snap.lifecycle = IF conns[c].append.activates THEN "starting" ELSE "recording"
      /\ store[snap.meeting] = "open" /\ snap.meeting \in Meetings
  <2>1. conns[c].append # NoAppend
    BY DEF NoAppend
  <2>. QED  BY <1>a, <2>1, OneAppend DEF Touched, AppendInv
<1>c. /\ snap'.lifecycle = "recording" /\ snap'.meeting = snap.meeting
      /\ snap'.owner = snap.owner /\ snap'.assets = snap.assets
  BY <1>b DEF SnapType
<1>d. \A d \in Conns : ~Drained(d)' => ~Drained(d)
  BY <1>a DEF Drained, Touched
<1>1. CalmInv'  BY DEF CalmInv, FinalizerType
<1>2. ConnInv'  BY <1>a DEF ConnInv, WindowType, TableType, Touched
<1>3. QueueInv'  BY <1>a DEF QueueInv, Drained, ConnInv, WindowType, Touched
<1>4. WaitInv'
  <2>1. \A d \in Conns : conns'[d].window = conns[d].window
    BY <1>a DEF Touched
  <2>. QED  BY <1>c, <1>d, <2>1 DEF WaitInv, WindowType
<1>5. AppendInv'
  BY <1>b DEF AppendInv
<1>6. StoreInv'
  <2>1. \A n \in Meetings : store[n] # "finalizing" /\ starting[n] = None
    BY <1>b DEF StoreInv
  <2>. QED  BY <1>b, <1>c, <2>1 DEF StoreInv, IsActive, ActiveLifecycles
<1>7. TimerStops'
  <2>1. CASE conns[c].append.activates
    <3>1. timer = FALSE /\ timers = 0
      BY <1>b, <2>1 DEF TimerStops, ClockType
    <3>. QED  BY <1>c, <2>1, <3>1 DEF TimerStops, StartTimer
  <2>2. CASE ~conns[c].append.activates
    BY <1>c, <2>2 DEF TimerStops
  <2>. QED  BY <2>1, <2>2
<1>8. SealedAudioIsShown'
  BY DEF SealedAudioIsShown, IsActive, ActiveLifecycles, SnapType, Lifecycles,
    TableType, StoreInv
<1>9. ListenInv'
  <2>1. \A d \in Conns : /\ conns'[d].meeting = conns[d].meeting
                         /\ conns'[d].accepting = conns[d].accepting
    BY <1>a DEF Touched
  <2>2. snap.lifecycle \in {"starting", "recording"}
    BY <1>b
  <2>. QED  BY <1>c, <2>1, <2>2 DEF ListenInv, WindowType
<1>. QED  BY <1>1, <1>2, <1>3, <1>4, <1>5, <1>6, <1>7, <1>8, <1>9

LEMMA AppendRejectsCalm ==
    ASSUME CaptureIInv, Undisturbed, OwnedIInv', NEW c \in Conns, AppendRejects(c)
    PROVE  CaptureIInv'
<1>. USE CaptureAssumption DEF CaptureIInv, OwnedIInv, AppendRejects, NoFinalizer,
      calls, clock, ports, windows, budget
<1>. DEFINE m == conns[c].append.meeting
            opened == store[m] = "open"
            x == IF opened THEN [conns[c].append EXCEPT !.stage = "finalize"] ELSE NoAppend
<1>a. conns[c].append \in AppendType /\ conns[c].queue \in Seq(Meetings)
  BY DEF ConnsType, ConnType
<1>b. x \in AppendType
  BY <1>a, NoAppendType DEF AppendType
<1>c. Touched(c, conns[c].queue, x, conns[c].accepting)
  <2>1. conns' = [conns EXCEPT ![c].append = x]
    BY DEF ConnsType, ConnType
  <2>. QED  BY <1>b, <2>1, AppendingConns
<1>. HIDE DEF x
<1>d. /\ conns[c].append # NoAppend /\ \A d \in Conns : conns[d].append # NoAppend => d = c
      /\ m = snap.meeting /\ m = conns[c].meeting /\ m \in Meetings /\ opened
      /\ snap.owner = conns[c].window
      /\ snap.lifecycle = IF conns[c].append.activates THEN "starting" ELSE "recording"
  <2>1. conns[c].append # NoAppend
    BY DEF NoAppend
  <2>. QED  BY <2>1, OneAppend DEF AppendInv
<1>e. /\ conns'[c].append.stage = "finalize" /\ conns'[c].append.meeting = m
      /\ conns'[c].append.activates = conns[c].append.activates
      /\ \A d \in Conns : d # c => conns'[d].append = NoAppend
      /\ \A d \in Conns : ~Drained(d)' => ~Drained(d)
  <2>1. x = [conns[c].append EXCEPT !.stage = "finalize"]
    BY <1>d DEF x
  <2>2. x.stage = "finalize" /\ x.meeting = m /\ x.activates = conns[c].append.activates
    BY <1>a, <2>1 DEF AppendType
  <2>. QED  BY <1>c, <1>d, <2>2 DEF Touched, Drained
<1>f. /\ snap'.lifecycle = snap.lifecycle /\ snap'.meeting = snap.meeting
      /\ snap'.owner = snap.owner /\ snap'.assets = snap.assets
  <2>1. opened
    BY <1>d
  <2>2. snap' = [snap EXCEPT !.pause = FALSE, !.lifecycle = snap.lifecycle,
                             !.assets = snap.assets]
    BY <2>1 DEF SnapType
  <2>3. SnapType
    OBVIOUS
  <2>. QED  BY ONLY <2>2, <2>3 DEF SnapType
<1>h. /\ store'[m] = "finalizing" /\ finalizer'[m].by = c /\ finalizer'[m].detached = FALSE
      /\ \A n \in Meetings : n # m => store'[n] = store[n] /\ finalizer'[n] = finalizer[n]
  <2>1. /\ store' = [store EXCEPT ![m] = "finalizing"]
        /\ finalizer' = [finalizer EXCEPT ![m] = [NoFinalizer EXCEPT !.by = c]]
    BY <1>d
  <2>2. TableType /\ FinalizerType /\ m \in Meetings
    BY <1>d
  <2>. QED  BY ONLY <2>1, <2>2 DEF TableType, FinalizerType, NoFinalizer
<1>g. /\ waits' = waits /\ gone' = gone /\ page' = page /\ current' = current
      /\ starting' = starting /\ stopPromise' = stopPromise
      /\ \A d \in Conns : conns'[d].window = conns[d].window /\ conns'[d].meeting = conns[d].meeting
                          /\ conns'[d].queue = conns[d].queue
  BY <1>c, SMTT(30) DEF Touched
<1>1. CalmInv'
  <2>1. \A n \in Meetings : finalizer'[n].detached = FALSE
    BY <1>h, SMTT(30) DEF CalmInv
  <2>. QED  BY <2>1 DEF CalmInv
<1>2. ConnInv'  BY <1>a, <1>c, SMTT(30) DEF ConnInv, WindowType, TableType, Touched
<1>3. QueueInv'
  BY <1>e, <1>g, SMTT(30) DEF QueueInv
<1>4. WaitInv'
  BY <1>e, <1>f, <1>g DEF WaitInv, WindowType
<1>5. AppendInv'
  <2>1. \A d \in Conns : conns'[d].append # NoAppend => d = c
    BY <1>e
  <2>2. snap'.lifecycle = IF conns'[c].append.activates THEN "starting" ELSE "recording"
    BY ONLY <1>d, <1>e, <1>f
  <2>3. /\ conns'[c].append.meeting = conns'[c].meeting /\ snap'.meeting = conns'[c].meeting
        /\ snap'.owner = conns'[c].window /\ conns'[c].append.stage = "finalize"
        /\ store'[snap'.meeting] = "finalizing" /\ finalizer'[snap'.meeting].by = c
    BY ONLY <1>d, <1>e, <1>f, <1>g, <1>h
  <2>. QED  BY ONLY <2>1, <2>2, <2>3 DEF AppendInv
<1>6. StoreInv'
  <2>1. StoreInv
    OBVIOUS
  <2>2. \A n \in Meetings : n # m => store[n] \notin {"open", "finalizing"}
    BY <1>d DEF StoreInv
  <2>3. \A n \in Meetings : starting[n] = None
    BY <1>d DEF StoreInv
  <2>. HIDE DEF m, opened
  <2>4. \A n \in Meetings : n # m => store'[n] \notin {"open", "finalizing"}
    BY ONLY <1>h, <2>2
  <2>5. \A n \in Meetings : finalizer'[n].by # None => store'[n] = "finalizing"
    BY ONLY <1>h, <2>1 DEF StoreInv
  <2>6. snap'.meeting = m /\ store'[m] = "finalizing" /\ finalizer'[m].by = c
        /\ conns'[c].append.stage = "finalize"
    BY ONLY <1>d, <1>e, <1>f, <1>h
  <2>. QED  BY ONLY <1>f, <1>g, <2>1, <2>3, <2>4, <2>5, <2>6 DEF StoreInv, IsActive
<1>7. TimerStops'
  BY DEF TimerStops, SnapType, Lifecycles, ActiveLifecycles, ClockType, ClearTimers
<1>8. SealedAudioIsShown'
  <2>1. snap'.lifecycle \in ActiveLifecycles
    BY <1>d, <1>f, SMTT(30) DEF ActiveLifecycles
  <2>. QED  BY <2>1 DEF SealedAudioIsShown, IsActive
<1>9. ListenInv'
  <2>1. \A d \in Conns : conns'[d].accepting = conns[d].accepting
    BY <1>c DEF Touched
  <2>2. ListenInv /\ WindowType /\ port' = port
    OBVIOUS
  <2>. QED  BY ONLY <1>f, <1>g, <2>1, <2>2 DEF ListenInv, WindowType
<1>. QED  BY <1>1, <1>2, <1>3, <1>4, <1>5, <1>6, <1>7, <1>8, <1>9

LEMMA PauseRequestCalm ==
    ASSUME CaptureIInv, Undisturbed, OwnedIInv', NEW w \in Windows, PauseRequest(w)
    PROVE  CaptureIInv'
<1>. USE CaptureAssumption DEF CaptureIInv, OwnedIInv, PauseRequest, Request, Waiting,
      StopAccepting, Accepting, calls, clock, ports, windows, budget
<1>a. Touched(current[w], conns[current[w]].queue, conns[current[w]].append, FALSE)
  BY AcceptingConns DEF WindowType, TableType
<1>b. /\ current[w] \in Conns /\ conns[current[w]].window = w /\ port[w] = current[w]
      /\ w \notin gone
  BY ConnectedIsCurrent DEF Connected, Captures
<1>c. /\ waits' = waits \union {Waiting("pause", w)} /\ gone' = gone /\ current' = current
      /\ snap' = snap /\ Waiting("pause", w).kind = "pause" /\ Waiting("pause", w).window = w
      /\ Waiting("pause", w).conn = current[w]
  OBVIOUS
<1>d. \A d \in Conns : /\ conns'[d].window = conns[d].window
                       /\ ~Drained(d)' => ~Drained(d)
  BY <1>a DEF Touched, Drained
<1>e. \A d \in Conns : ~Drained(d) /\ conns[d].window = w => current[w] = d
  BY <1>b, FramesAreCurrent
<1>1. CalmInv'  BY DEF CalmInv, FinalizerType
<1>2. ConnInv'  BY <1>a DEF ConnInv, WindowType, TableType, Touched
<1>3. QueueInv'  BY <1>a DEF QueueInv, Drained, ConnInv, WindowType, Touched
<1>4. WaitInv'
  <2>1. WaitInv /\ WindowType /\ current[w] # None
    BY <1>b
  <2>2. ASSUME NEW g \in waits'
        PROVE  /\ g.kind = "release" => g.window \in gone'
               /\ g.conn # None => conns'[g.conn].window = g.window
               /\ g.window \notin gone' => g.conn # None /\ g.conn = current'[g.window]
               /\ g.kind = "pause" /\ g.window = snap'.owner => snap'.lifecycle # "starting"
               /\ \A c \in Conns : ~Drained(c)' /\ conns'[c].window = g.window => g.conn = c
    <3>1. CASE g \in waits
      BY ONLY <1>c, <1>d, <2>1, <3>1 DEF WaitInv, WindowType
    <3>2. CASE g = Waiting("pause", w)
      <4>1. g.kind = "pause" /\ g.window = w /\ g.conn = current[w] /\ snap.lifecycle = "recording"
        BY <1>c, <3>2
      <4>. QED  BY ONLY <1>b, <1>c, <1>d, <1>e, <2>1, <4>1
    <3>. QED  BY <1>c, <2>2, <3>1, <3>2
  <2>. QED  BY ONLY <2>2 DEF WaitInv
<1>5. AppendInv'
  BY <1>a DEF AppendInv, SnapType, Lifecycles, ActiveLifecycles, QueueInv, Drained,
    Touched
<1>6. StoreInv'
  <2>1. \A n \in Meetings : starting[n] # w
    BY <1>b DEF StoreInv, Connected, Captures, WindowType
  <2>2. \A d \in Conns : conns'[d].append = conns[d].append
    BY <1>a DEF Touched
  <2>3. StoreInv /\ FinalizerType
    OBVIOUS
  <2>4. /\ page' = page /\ store' = store /\ starting' = starting /\ finalizer' = finalizer
        /\ stopPromise' = stopPromise
    OBVIOUS
  <2>. QED  BY ONLY <1>c, <2>1, <2>2, <2>3, <2>4 DEF StoreInv, IsActive
<1>7. TimerStops'  BY DEF TimerStops, SnapType, Lifecycles, ActiveLifecycles, ClockType
<1>8. SealedAudioIsShown'
  BY DEF SealedAudioIsShown, IsActive, ActiveLifecycles, SnapType, Lifecycles,
    TableType, StoreInv
<1>9. ListenInv'
  <2>1. \A v \in Windows : v # w /\ port[v] # None => port[v] # current[w] /\ port[v] \in Conns
    BY OwnConnection DEF WindowType
  <2>2. \A d \in Conns : d # current[w] => /\ conns'[d].accepting = conns[d].accepting
                                           /\ conns'[d].meeting = conns[d].meeting
    BY <1>a DEF Touched
  <2>3. ListenInv /\ port' = port
    OBVIOUS
  <2>. QED  BY ONLY <1>c, <2>1, <2>2, <2>3 DEF ListenInv
<1>. QED  BY <1>1, <1>2, <1>3, <1>4, <1>5, <1>6, <1>7, <1>8, <1>9

LEMMA StopRequestCalm ==
    ASSUME CaptureIInv, Undisturbed, OwnedIInv', NEW w \in Windows, StopRequest(w)
    PROVE  CaptureIInv'
<1>. USE CaptureAssumption DEF CaptureIInv, OwnedIInv, StopRequest, Request, Waiting,
      StopAccepting, Accepting, calls, clock, ports, windows, budget
<1>a. Touched(current[w], conns[current[w]].queue, conns[current[w]].append, FALSE)
  BY AcceptingConns DEF WindowType, TableType
<1>b. /\ current[w] \in Conns /\ conns[current[w]].window = w /\ port[w] = current[w]
      /\ w \notin gone
  BY ConnectedIsCurrent DEF Connected, Captures
<1>c. /\ waits' = waits \union {Waiting("stop", w)} /\ gone' = gone /\ current' = current
      /\ snap' = snap /\ Waiting("stop", w).kind = "stop" /\ Waiting("stop", w).window = w
      /\ Waiting("stop", w).conn = current[w]
  OBVIOUS
<1>d. \A d \in Conns : /\ conns'[d].window = conns[d].window
                       /\ ~Drained(d)' => ~Drained(d)
  BY <1>a DEF Touched, Drained
<1>e. \A d \in Conns : ~Drained(d) /\ conns[d].window = w => current[w] = d
  BY <1>b, FramesAreCurrent
<1>1. CalmInv'  BY DEF CalmInv, FinalizerType
<1>2. ConnInv'  BY <1>a DEF ConnInv, WindowType, TableType, Touched
<1>3. QueueInv'  BY <1>a DEF QueueInv, Drained, ConnInv, WindowType, Touched
<1>4. WaitInv'
  <2>1. WaitInv /\ WindowType /\ current[w] # None
    BY <1>b
  <2>2. ASSUME NEW g \in waits'
        PROVE  /\ g.kind = "release" => g.window \in gone'
               /\ g.conn # None => conns'[g.conn].window = g.window
               /\ g.window \notin gone' => g.conn # None /\ g.conn = current'[g.window]
               /\ g.kind = "pause" /\ g.window = snap'.owner => snap'.lifecycle # "starting"
               /\ \A c \in Conns : ~Drained(c)' /\ conns'[c].window = g.window => g.conn = c
    <3>1. CASE g \in waits
      BY ONLY <1>c, <1>d, <2>1, <3>1 DEF WaitInv, WindowType
    <3>2. CASE g = Waiting("stop", w)
      <4>1. g.kind = "stop" /\ g.window = w /\ g.conn = current[w]
        BY <1>c, <3>2
      <4>. QED  BY ONLY <1>b, <1>c, <1>d, <1>e, <2>1, <4>1
    <3>. QED  BY <1>c, <2>2, <3>1, <3>2
  <2>. QED  BY ONLY <2>2 DEF WaitInv
<1>5. AppendInv'
  BY <1>a DEF AppendInv, SnapType, Lifecycles, ActiveLifecycles, QueueInv, Drained,
    Touched
<1>6. StoreInv'
  <2>1. \A n \in Meetings : starting[n] # w
    BY <1>b DEF StoreInv, Connected, Captures, WindowType
  <2>2. \A d \in Conns : conns'[d].append = conns[d].append
    BY <1>a DEF Touched
  <2>3. StoreInv /\ FinalizerType
    OBVIOUS
  <2>4. /\ page' = page /\ store' = store /\ starting' = starting /\ finalizer' = finalizer
        /\ stopPromise' = stopPromise
    OBVIOUS
  <2>. QED  BY ONLY <1>c, <2>1, <2>2, <2>3, <2>4 DEF StoreInv, IsActive
<1>7. TimerStops'  BY DEF TimerStops, SnapType, Lifecycles, ActiveLifecycles, ClockType
<1>8. SealedAudioIsShown'
  BY DEF SealedAudioIsShown, IsActive, ActiveLifecycles, SnapType, Lifecycles,
    TableType, StoreInv
<1>9. ListenInv'
  <2>1. \A v \in Windows : v # w /\ port[v] # None => port[v] # current[w] /\ port[v] \in Conns
    BY OwnConnection DEF WindowType
  <2>2. \A d \in Conns : d # current[w] => /\ conns'[d].accepting = conns[d].accepting
                                           /\ conns'[d].meeting = conns[d].meeting
    BY <1>a DEF Touched
  <2>3. ListenInv /\ port' = port
    OBVIOUS
  <2>. QED  BY ONLY <1>c, <2>1, <2>2, <2>3 DEF ListenInv
<1>. QED  BY <1>1, <1>2, <1>3, <1>4, <1>5, <1>6, <1>7, <1>8, <1>9

LEMMA PauseCalm ==
    ASSUME CaptureIInv, Undisturbed, OwnedIInv', NEW h \in waits, Pause(h)
    PROVE  CaptureIInv'
<1>. USE CaptureAssumption DEF CaptureIInv, OwnedIInv, Pause, calls, clock, ports,
      windows, budget
<1>a. \/ snap' = snap /\ ~(snap.owner = h.window /\ snap.lifecycle = "recording")
      \/ /\ snap' = [snap EXCEPT !.lifecycle = "paused", !.pause = TRUE]
         /\ snap.owner = h.window /\ snap.lifecycle = "recording"
  OBVIOUS
<1>1. CalmInv'  BY DEF CalmInv, FinalizerType
<1>2. ConnInv'  BY DEF ConnInv, WindowType, TableType
<1>3. QueueInv'  BY DEF QueueInv, Drained, ConnInv, WindowType
<1>4. WaitInv'  BY DEF WaitInv, Drained, ConnInv, QueueInv, WindowType
<1>5. AppendInv'
  <2>1. CASE snap' = snap
    BY <2>1, ZenonT(40) DEF AppendInv
  <2>2. CASE snap.owner = h.window
    BY <2>2, OwnerIdle DEF AppendInv
  <2>. QED  BY <1>a, <2>1, <2>2
<1>6. StoreInv'
  <2>1. CASE snap' = snap
    <3>1. StoreInv /\ waits' \subseteq waits
      OBVIOUS
    <3>2. /\ page' = page /\ store' = store /\ starting' = starting /\ finalizer' = finalizer
          /\ stopPromise' = stopPromise /\ gone' = gone /\ conns' = conns
      OBVIOUS
    <3>. QED  BY ONLY <2>1, <3>1, <3>2 DEF StoreInv, IsActive
  <2>2. CASE /\ snap' = [snap EXCEPT !.lifecycle = "paused", !.pause = TRUE]
             /\ snap.owner = h.window /\ snap.lifecycle = "recording"
    <3>1. snap'.lifecycle = "paused" /\ snap'.meeting = snap.meeting
      BY <2>2 DEF SnapType
    <3>2. \A n \in Meetings : starting[n] = None
      BY <2>2 DEF StoreInv
    <3>. QED  BY <2>2, <3>1, <3>2 DEF StoreInv, IsActive, ActiveLifecycles
  <2>. QED  BY <1>a, <2>1, <2>2
<1>7. TimerStops'  BY DEF TimerStops, SnapType, Lifecycles, ActiveLifecycles, ClockType
<1>8. SealedAudioIsShown'
  BY DEF SealedAudioIsShown, IsActive, ActiveLifecycles, SnapType, Lifecycles,
    TableType, StoreInv
<1>9. ListenInv'
  <2>1. CASE snap' = snap /\ ~(snap.owner = h.window /\ snap.lifecycle = "recording")
    BY <2>1 DEF ListenInv, WaitInv
  <2>2. CASE snap' = [snap EXCEPT !.lifecycle = "paused", !.pause = TRUE]
    <3>1. snap'.lifecycle = "paused"
      BY <2>2 DEF SnapType
    <3>. QED  BY <3>1 DEF ListenInv
  <2>. QED  BY <1>a, <2>1, <2>2
<1>. QED  BY <1>1, <1>2, <1>3, <1>4, <1>5, <1>6, <1>7, <1>8, <1>9

LEMMA ResumeCalm ==
    ASSUME CaptureIInv, Undisturbed, OwnedIInv', NEW w \in Windows, Resume(w)
    PROVE  CaptureIInv'
<1>. USE CaptureAssumption DEF CaptureIInv, OwnedIInv, Resume, Reopened, Accepting,
      calls, clock, ports, windows, budget
<1>a. Touched(current[w], conns[current[w]].queue, conns[current[w]].append, TRUE)
  BY AcceptingConns DEF WindowType, TableType
<1>1. CalmInv'  BY DEF CalmInv, FinalizerType
<1>2. ConnInv'  BY <1>a DEF ConnInv, WindowType, TableType, Touched
<1>3. QueueInv'  BY <1>a DEF QueueInv, Drained, ConnInv, WindowType, Touched
<1>4. WaitInv'  BY <1>a DEF WaitInv, Drained, ConnInv, QueueInv, WindowType, Touched
<1>5. AppendInv'
  BY <1>a DEF AppendInv, SnapType, Lifecycles, ActiveLifecycles, QueueInv, Drained,
    Touched
<1>6. StoreInv'
  <2>1. \A d \in Conns : conns'[d].append = conns[d].append
    BY <1>a DEF Touched
  <2>2. StoreInv /\ snap.lifecycle \in {"recording", "paused"}
    OBVIOUS
  <2>3. /\ waits' = waits /\ gone' = gone /\ page' = page /\ store' = store
        /\ starting' = starting /\ finalizer' = finalizer /\ stopPromise' = stopPromise
    OBVIOUS
  <2>4. snap'.lifecycle = "recording" /\ snap'.meeting = snap.meeting /\ snap'.owner = snap.owner
    BY DEF SnapType
  <2>. QED  BY ONLY <2>1, <2>2, <2>3, <2>4 DEF StoreInv, IsActive, ActiveLifecycles
<1>7. TimerStops'  BY DEF TimerStops, SnapType, Lifecycles, ActiveLifecycles, ClockType
<1>8. SealedAudioIsShown'
  BY DEF SealedAudioIsShown, IsActive, ActiveLifecycles, SnapType, Lifecycles,
    TableType, StoreInv
<1>9. ListenInv'
  BY <1>a DEF ListenInv, SnapType, Lifecycles, ActiveLifecycles, WindowType, ConnInv,
    Touched
<1>. QED  BY <1>1, <1>2, <1>3, <1>4, <1>5, <1>6, <1>7, <1>8, <1>9

LEMMA StopCalm ==
    ASSUME CaptureIInv, Undisturbed, OwnedIInv', NEW h \in waits, Stop(h)
    PROVE  CaptureIInv'
<1>. USE CaptureAssumption DEF CaptureIInv, OwnedIInv, Stop, Finalize, calls, clock,
      ports, windows, budget
<1>. DEFINE Ends == snap.owner = h.window /\ stopPromise = "none" /\ IsActive
            Idle == /\ \A c \in Conns : conns[c].append = NoAppend
                    /\ \A n \in Meetings : store[n] # "finalizing" /\ starting[n] = None
                    /\ snap.meeting \in Meetings
                    /\ snap'.meeting = snap.meeting /\ snap'.owner = snap.owner
            Same == /\ snap' = snap /\ stopPromise' = stopPromise /\ store' = store
                    /\ finalizer' = finalizer /\ timers' = timers /\ timer' = timer
            Stops == /\ store[snap.meeting] = "open" /\ snap'.lifecycle = "stopping"
                     /\ stopPromise' = "pending"
                     /\ store' = [store EXCEPT ![snap.meeting] = "finalizing"]
                     /\ finalizer' = [finalizer EXCEPT ![snap.meeting] = [by |-> "stop",
                          to |-> "complete", detached |-> FALSE, release |-> None]]
            Fails == /\ store[snap.meeting] = "none" /\ snap'.lifecycle = "error"
                     /\ stopPromise' = "settled" /\ store' = store /\ finalizer' = finalizer
<1>a. \/ Same /\ ~Ends
      \/ Finalize("complete", None) /\ Ends
  OBVIOUS
<1>b. ASSUME Finalize("complete", None), Ends PROVE Idle /\ (Stops \/ Fails)
  <2>1. /\ \A c \in Conns : conns[c].append = NoAppend
        /\ snap.meeting \in Meetings /\ store[snap.meeting] \in {"none", "open"}
        /\ \A n \in Meetings : store[n] # "finalizing"
    BY <1>b, OwnerIdle
  <2>2. \A n \in Meetings : starting[n] = None
    BY <1>b DEF StoreInv
  <2>3. snap'.meeting = snap.meeting /\ snap'.owner = snap.owner
    BY <1>b DEF SnapType
  <2>4. CASE store[snap.meeting] = "open"
    <3>1. Stops
      BY <1>b, <2>4 DEF SnapType
    <3>. QED  BY <2>1, <2>2, <2>3, <3>1
  <2>5. CASE store[snap.meeting] = "none"
    <3>1. Fails
      BY <1>b, <2>1, <2>5 DEF SnapType, TableType, FinalizerType
    <3>. QED  BY <2>1, <2>2, <2>3, <3>1
  <2>. QED  BY <2>1, <2>4, <2>5
<1>c. (Same /\ ~Ends) \/ (Idle /\ Stops) \/ (Idle /\ Fails)
  BY <1>a, <1>b
<1>d. /\ waits' = waits \ {h} /\ conns' = conns /\ page' = page /\ gone' = gone
      /\ current' = current /\ port' = port /\ starting' = starting
  OBVIOUS
<1>e. /\ TableType /\ FinalizerType /\ StoreInv /\ ConnInv /\ WaitInv /\ WindowType
      /\ ConnsType /\ AppendInv /\ SnapType /\ ListenInv /\ SealedAudioIsShown
  OBVIOUS
<1>1. CalmInv'  BY DEF CalmInv, FinalizerType
<1>2. ConnInv'
  <2>1. \A n \in Meetings : store[n] # "none" => store'[n] # "none"
    BY ONLY <1>c, <1>e DEF TableType
  <2>2. \A c \in Conns : conns[c].meeting # None => conns[c].meeting \in Meetings
    BY ONLY <1>e DEF ConnsType, ConnType
  <2>. QED  BY ONLY <1>d, <1>e, <2>1, <2>2 DEF ConnInv
<1>3. QueueInv'  BY DEF QueueInv, Drained, ConnInv, WindowType
<1>4. WaitInv'
  <2>1. snap'.lifecycle = "starting" => snap' = snap
    BY <1>c
  <2>2. \A c \in Conns : Drained(c)' = Drained(c)
    BY <1>d DEF Drained
  <2>. QED  BY ONLY <1>d, <1>e, <2>1, <2>2 DEF WaitInv
<1>5. AppendInv'
  <2>1. CASE Same
    BY ONLY <1>d, <1>e, <2>1 DEF AppendInv
  <2>2. CASE Idle
    BY ONLY <1>d, <2>2 DEF AppendInv
  <2>. QED  BY <1>c, <2>1, <2>2
<1>6. StoreInv'
  <2>1. CASE Same
    BY ONLY <1>d, <1>e, <2>1 DEF StoreInv, IsActive
  <2>2. CASE Idle /\ Stops
    <3>1. /\ store'[snap.meeting] = "finalizing" /\ finalizer'[snap.meeting].by = "stop"
          /\ \A n \in Meetings : n # snap.meeting => store'[n] = store[n]
                                                     /\ finalizer'[n] = finalizer[n]
      BY ONLY <1>e, <2>2 DEF TableType, FinalizerType
    <3>. QED  BY ONLY <1>d, <1>e, <2>2, <3>1 DEF StoreInv, IsActive
  <2>3. CASE Idle /\ Fails
    BY ONLY <1>d, <1>e, <2>3 DEF StoreInv, IsActive, ActiveLifecycles
  <2>. QED  BY <1>c, <2>1, <2>2, <2>3
<1>7. TimerStops'
  BY DEF TimerStops, SnapType, Lifecycles, ActiveLifecycles, ClockType, ClearTimers
<1>8. SealedAudioIsShown'
  <2>1. CASE Same
    BY <2>1 DEF SealedAudioIsShown, IsActive
  <2>2. CASE Idle /\ Stops
    BY ONLY <2>2 DEF SealedAudioIsShown, IsActive, ActiveLifecycles
  <2>3. CASE Idle /\ Fails
    BY ONLY <2>3 DEF SealedAudioIsShown
  <2>. QED  BY <1>c, <2>1, <2>2, <2>3
<1>9. ListenInv'
  <2>1. CASE Same /\ ~Ends
    <3>1. snap.lifecycle \in {"starting", "recording"} => snap.owner # h.window
      BY <2>1 DEF StoreInv, IsActive, ActiveLifecycles
    <3>. QED  BY ONLY <1>d, <1>e, <2>1, <3>1 DEF ListenInv
  <2>2. CASE snap'.lifecycle \in {"stopping", "error"}
    BY ONLY <2>2 DEF ListenInv
  <2>. QED  BY <1>c, <2>1, <2>2
<1>. QED  BY <1>1, <1>2, <1>3, <1>4, <1>5, <1>6, <1>7, <1>8, <1>9

LEMMA FinalizeResolvesCalm ==
    ASSUME CaptureIInv, Undisturbed, OwnedIInv', NEW m \in Meetings, FinalizeResolves(m)
    PROVE  CaptureIInv'
<1>. USE CaptureAssumption DEF CaptureIInv, OwnedIInv, FinalizeResolves, Settles,
      Settled, ShownAssets, Unowned, Forgotten, NoFinalizer, calls, clock, ports,
      windows, budget
<1>. DEFINE f == finalizer[m]
<1>a. /\ f.by \in Conns => Touched(f.by, conns[f.by].queue, NoAppend, conns[f.by].accepting)
      /\ f.by \notin Conns => Touched(None, <<>>, NoAppend, FALSE)
  <2>1. ASSUME f.by \in Conns
        PROVE  Touched(f.by, conns[f.by].queue, NoAppend, conns[f.by].accepting)
    BY <2>1, AppendingConns, NoAppendType
  <2>2. ASSUME f.by \notin Conns PROVE Touched(None, <<>>, NoAppend, FALSE)
    BY <2>2 DEF Touched, ConnsType
  <2>. QED  BY <2>1, <2>2
<1>b. /\ store[m] = "finalizing" /\ snap.meeting = m
      /\ \/ snap.lifecycle = "stopping" /\ f.by = "stop"
         \/ f.by \in Conns /\ conns[f.by].append.stage = "finalize"
  BY DEF StoreInv
<1>c. \A d \in Conns : conns'[d].append = NoAppend
  <2>1. CASE f.by \in Conns /\ conns[f.by].append.stage = "finalize"
    <3>1. conns[f.by].append # NoAppend
      BY <2>1 DEF NoAppend
    <3>. QED  BY <1>a, <2>1, <3>1, OneAppend DEF Touched
  <2>2. CASE snap.lifecycle = "stopping" /\ f.by = "stop"
    <3>1. \A d \in Conns : conns[d].append = NoAppend
      BY <2>2, OneAppend
    <3>. QED  BY <1>a, <2>2, <3>1 DEF Touched
  <2>. QED  BY <1>b, <2>1, <2>2, SMTT(30)
<1>d. /\ snap'.lifecycle \in {"complete", "interrupted", "error"} /\ snap'.meeting = m
      /\ snap'.owner \in {snap.owner, None} /\ snap'.assets = m
  <2>1. ShownAssets(m) = m /\ (IF f.by = "stop" THEN f.to ELSE "error")
                                \in {"complete", "interrupted", "error"}
    BY DEF CalmInv, FinalizerType
  <2>2. PICK l : l = IF f.by = "stop" THEN f.to ELSE "error"
    OBVIOUS
  <2>3. snap' = Unowned([snap EXCEPT !.assets = m, !.lifecycle = l], f.release)
    BY <2>1, <2>2
  <2>4. SnapType
    OBVIOUS
  <2>. QED  BY ONLY <1>b, <2>1, <2>2, <2>3, <2>4 DEF Unowned, SnapType
<1>e. /\ store'[m] = "sealed" /\ finalizer'[m] = NoFinalizer
      /\ \A n \in Meetings : n # m => store'[n] = store[n] /\ finalizer'[n] = finalizer[n]
  BY DEF TableType, FinalizerType
<1>f. /\ waits' = waits /\ gone' = gone /\ current' = current /\ page' = page /\ port' = port
      /\ starting' = starting
      /\ \A d \in Conns : /\ conns'[d].window = conns[d].window
                          /\ conns'[d].meeting = conns[d].meeting
                          /\ Drained(d) => Drained(d)'
  BY <1>a DEF Touched, Drained
<1>g. /\ StoreInv /\ WaitInv /\ WindowType /\ TableType /\ ConnsType /\ ConnInv
  OBVIOUS
<1>1. CalmInv'  BY DEF CalmInv, FinalizerType
<1>2. ConnInv'
  <2>1. \A n \in Meetings : store[n] # "none" => store'[n] # "none"
    BY ONLY <1>b, <1>e
  <2>2. \A c \in Conns : conns[c].meeting # None => conns[c].meeting \in Meetings
    BY ONLY <1>g DEF ConnsType, ConnType
  <2>3. \A w \in Windows : current[w] # None => current[w] \in Conns
    BY ONLY <1>g, SMTT(30) DEF WindowType
  <2>. QED  BY ONLY <1>f, <1>g, <2>1, <2>2, <2>3 DEF ConnInv
<1>3. QueueInv'  BY <1>a DEF QueueInv, Drained, ConnInv, WindowType, Touched
<1>4. WaitInv'
  <2>. QED  BY ONLY <1>d, <1>f, <1>g DEF WaitInv, WindowType
<1>5. AppendInv'
  BY ONLY <1>c DEF AppendInv
<1>6. StoreInv'
  <2>1. \A n \in Meetings : starting[n] = None
    BY ONLY <1>b, <1>g DEF StoreInv
  <2>2. \A n \in Meetings : n # m => store[n] \notin {"open", "finalizing"}
    BY ONLY <1>b, <1>g DEF StoreInv
  <2>3. \A n \in Meetings : store'[n] \notin {"open", "finalizing"} /\ finalizer'[n].by = None
    BY ONLY <1>e, <1>g, <2>2 DEF StoreInv, NoFinalizer
  <2>. QED  BY ONLY <1>d, <1>f, <2>1, <2>3 DEF StoreInv, IsActive, ActiveLifecycles
<1>7. TimerStops'
  <2>1. CASE f.by = "stop"
    <3>1. timer = FALSE /\ timers' = timers /\ timer' = timer
      BY <1>b, <2>1 DEF TimerStops, FinalizerType, ClockType
    <3>. QED  BY <3>1 DEF TimerStops
  <2>2. CASE f.by # "stop"
    BY <2>2 DEF ClearTimers, TimerStops, ClockType
  <2>. QED  BY <2>1, <2>2
<1>8. SealedAudioIsShown'
  BY ONLY <1>d DEF SealedAudioIsShown
<1>9. ListenInv'
  BY ONLY <1>d DEF ListenInv
<1>. QED  BY <1>1, <1>2, <1>3, <1>4, <1>5, <1>6, <1>7, <1>8, <1>9

LEMMA FinalizeRejectsCalm ==
    ASSUME CaptureIInv, Undisturbed, OwnedIInv', NEW m \in Meetings, FinalizeRejects(m)
    PROVE  CaptureIInv'
<1>. USE CaptureAssumption DEF CaptureIInv, OwnedIInv, FinalizeRejects, Settles,
      Settled, Unowned, Forgotten, NoFinalizer, calls, clock, ports, windows, budget
<1>. DEFINE f == finalizer[m]
<1>a. /\ f.by \in Conns => Touched(f.by, conns[f.by].queue, NoAppend, conns[f.by].accepting)
      /\ f.by \notin Conns => Touched(None, <<>>, NoAppend, FALSE)
  <2>1. ASSUME f.by \in Conns
        PROVE  Touched(f.by, conns[f.by].queue, NoAppend, conns[f.by].accepting)
    BY <2>1, AppendingConns, NoAppendType
  <2>2. ASSUME f.by \notin Conns PROVE Touched(None, <<>>, NoAppend, FALSE)
    BY <2>2 DEF Touched, ConnsType
  <2>. QED  BY <2>1, <2>2
<1>b. /\ store[m] = "finalizing" /\ snap.meeting = m
      /\ \/ snap.lifecycle = "stopping" /\ f.by = "stop"
         \/ f.by \in Conns /\ conns[f.by].append.stage = "finalize"
  BY DEF StoreInv
<1>c. \A d \in Conns : conns'[d].append = NoAppend
  <2>1. CASE f.by \in Conns /\ conns[f.by].append.stage = "finalize"
    <3>1. conns[f.by].append # NoAppend
      BY <2>1 DEF NoAppend
    <3>. QED  BY <1>a, <2>1, <3>1, OneAppend DEF Touched
  <2>2. CASE snap.lifecycle = "stopping" /\ f.by = "stop"
    <3>1. \A d \in Conns : conns[d].append = NoAppend
      BY <2>2, OneAppend
    <3>. QED  BY <1>a, <2>2, <3>1 DEF Touched
  <2>. QED  BY <1>b, <2>1, <2>2
<1>d. /\ snap'.lifecycle \in {"complete", "interrupted", "error"} /\ snap'.meeting = m
      /\ snap'.owner \in {snap.owner, None}
  <2>1. PICK shown \in {m, None} : Settled(m, shown, "error")
    OBVIOUS
  <2>3. snap' = Unowned([snap EXCEPT !.assets = shown, !.lifecycle = "error"], f.release)
    BY <2>1
  <2>4. SnapType
    OBVIOUS
  <2>. QED  BY ONLY <1>b, <2>3, <2>4 DEF Unowned, SnapType
<1>e. /\ store'[m] = "broken" /\ finalizer'[m] = NoFinalizer
      /\ \A n \in Meetings : n # m => store'[n] = store[n] /\ finalizer'[n] = finalizer[n]
  BY SMTT(30) DEF TableType, FinalizerType
<1>f. /\ waits' = waits /\ gone' = gone /\ current' = current /\ page' = page /\ port' = port
      /\ starting' = starting
      /\ \A d \in Conns : /\ conns'[d].window = conns[d].window
                          /\ conns'[d].meeting = conns[d].meeting
                          /\ Drained(d) => Drained(d)'
  BY <1>a DEF Touched, Drained
<1>g. /\ StoreInv /\ WaitInv /\ WindowType /\ TableType /\ ConnsType /\ ConnInv
  OBVIOUS
<1>1. CalmInv'  BY DEF CalmInv, FinalizerType
<1>2. ConnInv'
  <2>1. \A n \in Meetings : store[n] # "none" => store'[n] # "none"
    BY ONLY <1>b, <1>e, SMTT(30)
  <2>2. \A c \in Conns : conns[c].meeting # None => conns[c].meeting \in Meetings
    BY ONLY <1>g DEF ConnsType, ConnType
  <2>3. \A w \in Windows : current[w] # None => current[w] \in Conns
    BY ONLY <1>g DEF WindowType
  <2>. QED  BY ONLY <1>f, <1>g, <2>1, <2>2, <2>3 DEF ConnInv
<1>3. QueueInv'  BY <1>a DEF QueueInv, Drained, ConnInv, WindowType, Touched
<1>4. WaitInv'
  <2>. QED  BY ONLY <1>d, <1>f, <1>g DEF WaitInv, WindowType
<1>5. AppendInv'
  BY ONLY <1>c DEF AppendInv
<1>6. StoreInv'
  <2>1. \A n \in Meetings : starting[n] = None
    BY ONLY <1>b, <1>g DEF StoreInv
  <2>2. \A n \in Meetings : n # m => store[n] \notin {"open", "finalizing"}
    BY ONLY <1>b, <1>g DEF StoreInv
  <2>3. \A n \in Meetings : store'[n] \notin {"open", "finalizing"} /\ finalizer'[n].by = None
    BY ONLY <1>e, <1>g, <2>2 DEF StoreInv, NoFinalizer
  <2>. QED  BY ONLY <1>d, <1>f, <2>1, <2>3 DEF StoreInv, IsActive, ActiveLifecycles
<1>7. TimerStops'
  BY DEF ClearTimers, TimerStops, ClockType
<1>8. SealedAudioIsShown'
  BY ONLY <1>d, <1>e DEF SealedAudioIsShown
<1>9. ListenInv'
  BY ONLY <1>d DEF ListenInv
<1>. QED  BY <1>1, <1>2, <1>3, <1>4, <1>5, <1>6, <1>7, <1>8, <1>9

LEMMA CloseCalm ==
    ASSUME CaptureIInv, Undisturbed, OwnedIInv', NEW w \in Windows, Close(w)
    PROVE  CaptureIInv'
<1>. USE CaptureAssumption DEF CaptureIInv, OwnedIInv, Close, Leave, Request, Waiting,
      StopAccepting, Accepting, PortClosed, calls, clock, ports, windows, budget
<1>a. /\ w \in released => Touched(None, <<>>, NoAppend, FALSE)
      /\ w \notin released => Touched(current[w], conns[current[w]].queue,
                                      conns[current[w]].append, FALSE)
  <2>1. ASSUME w \in released PROVE Touched(None, <<>>, NoAppend, FALSE)
    BY <2>1 DEF Touched, ConnsType
  <2>2. ASSUME w \notin released
        PROVE  Touched(current[w], conns[current[w]].queue, conns[current[w]].append, FALSE)
    BY <2>2, AcceptingConns DEF WindowType
  <2>. QED  BY <2>1, <2>2
<1>b. /\ \A v \in Windows : page'[v] = (IF v = w THEN None ELSE page[v])
                              /\ port'[v] = (IF v = w THEN None ELSE port[v])
      /\ \A v \in Windows : v # w => current'[v] = current[v]
      /\ current'[w] \in {current[w], None} /\ gone' = gone \union {w} /\ w \notin gone
  BY DEF WindowType
<1>c. /\ snap' = snap /\ store' = store /\ finalizer' = finalizer /\ starting' = starting
      /\ stopPromise' = stopPromise
      /\ \A d \in Conns : /\ conns'[d].window = conns[d].window
                          /\ conns'[d].meeting = conns[d].meeting
                          /\ conns'[d].append = conns[d].append
                          /\ conns'[d].queue = conns[d].queue
                          /\ d # current[w] => conns'[d].accepting = conns[d].accepting
  BY <1>a, ZenonT(40) DEF Touched
<1>d. waits' \in {waits, waits \union {Waiting("release", w)}}
  OBVIOUS
<1>e. /\ StoreInv /\ WaitInv /\ WindowType /\ TableType /\ ConnsType /\ ConnInv /\ QueueInv
      /\ AppendInv /\ ListenInv
  OBVIOUS
<1>f. \A n \in Meetings : starting[n] # w
  BY DEF Undisturbed
<1>g. /\ Waiting("release", w).kind = "release" /\ Waiting("release", w).window = w
      /\ Waiting("release", w).conn = current[w]
  OBVIOUS
<1>h. \A d \in Conns : /\ Drained(d)' = Drained(d)
                       /\ ~Drained(d) /\ conns[d].window = w => current[w] = d
  BY <1>b, <1>c, FramesAreCurrent DEF Drained
<1>1. CalmInv'  BY DEF CalmInv, FinalizerType
<1>2. ConnInv'
  <2>1. \A v \in Windows : current[v] # None => current[v] \in Conns
    BY ONLY <1>e DEF WindowType
  <2>2. \A v \in Windows : /\ port'[v] # None => port'[v] = current'[v]
                           /\ current'[v] # None => conns'[current'[v]].window = v
    BY ONLY <1>b, <1>c, <1>e, <2>1 DEF ConnInv
  <2>3. \A v \in gone' : port'[v] = None /\ page'[v] = None
    BY <1>b DEF ConnInv, WindowType
  <2>4. \A u, v \in Windows : page'[u] # None /\ page'[u] = page'[v] => u = v
    BY ONLY <1>b, <1>e DEF ConnInv
  <2>5. \A c \in Conns, v \in Windows : conns'[c].meeting # None /\ conns'[c].meeting = page'[v] =>
          port'[v] = c /\ conns'[c].window = v
    BY ONLY <1>b, <1>c, <1>e DEF ConnInv
  <2>. QED  BY ONLY <1>c, <1>e, <2>2, <2>3, <2>4, <2>5 DEF ConnInv
<1>3. QueueInv'
  <2>1. \A d \in Conns : conns[d].window # None => conns[d].window \in Windows
    BY ONLY <1>e DEF ConnsType, ConnType
  <2>. QED  BY ONLY <1>b, <1>c, <1>e, <1>h, <2>1 DEF QueueInv
<1>4. WaitInv'
  <2>2. ASSUME NEW g \in waits'
        PROVE  /\ g.kind = "release" => g.window \in gone'
               /\ g.conn # None => conns'[g.conn].window = g.window
               /\ g.window \notin gone' => g.conn # None /\ g.conn = current'[g.window]
               /\ g.kind = "pause" /\ g.window = snap'.owner => snap'.lifecycle # "starting"
               /\ \A c \in Conns : ~Drained(c)' /\ conns'[c].window = g.window => g.conn = c
    <3>1. CASE g \in waits
      BY ONLY <1>b, <1>c, <1>e, <1>h, <3>1 DEF WaitInv, WindowType
    <3>2. CASE g = Waiting("release", w)
      <4>1. g.kind = "release" /\ g.window = w /\ g.conn = current[w] /\ w \in gone'
        BY <1>b, <1>g, <3>2
      <4>2. current[w] # None => current[w] \in Conns /\ conns[current[w]].window = w
        BY <1>e DEF ConnInv, WindowType
      <4>. QED  BY ONLY <1>c, <1>h, <4>1, <4>2
    <3>. QED  BY <1>d, <2>2, <3>1, <3>2
  <2>. QED  BY ONLY <2>2 DEF WaitInv
<1>5. AppendInv'
  BY ONLY <1>c, <1>e DEF AppendInv
<1>6. StoreInv'
  <2>1. \A n \in Meetings : starting[n] # None => starting[n] \in Windows
    BY ONLY <1>e DEF TableType
  <2>2. ASSUME NEW n \in Meetings, starting[n] # None
        PROVE  /\ starting[n] \notin gone' /\ page'[starting[n]] = n
               /\ \A g \in waits' : g.window # starting[n]
    BY ONLY <1>b, <1>d, <1>e, <1>f, <1>g, <2>1, <2>2 DEF StoreInv
  <2>. QED  BY ONLY <1>c, <1>e, <2>2 DEF StoreInv, IsActive
<1>7. TimerStops'  BY DEF TimerStops, SnapType, Lifecycles, ActiveLifecycles, ClockType
<1>8. SealedAudioIsShown'
  BY DEF SealedAudioIsShown, IsActive, ActiveLifecycles, SnapType, Lifecycles,
    TableType, StoreInv
<1>9. ListenInv'
  <2>1. \A v \in Windows : v # w /\ port[v] # None => port[v] # current[w] /\ port[v] \in Conns
    BY OwnConnection DEF WindowType
  <2>2. waits \subseteq waits'
    BY <1>d
  <2>. QED  BY ONLY <1>b, <1>c, <1>e, <2>1, <2>2 DEF ListenInv
<1>. QED  BY <1>1, <1>2, <1>3, <1>4, <1>5, <1>6, <1>7, <1>8, <1>9

LEMMA OwnerDestroyedCalm ==
    ASSUME CaptureIInv, Undisturbed, OwnedIInv', NEW h \in waits, OwnerDestroyed(h)
    PROVE  CaptureIInv'
<1>. USE CaptureAssumption DEF CaptureIInv, OwnedIInv, OwnerDestroyed, Abandoned,
      Finalize, Unowned, Forgotten, calls, clock, ports, windows, budget
<1>. DEFINE w == h.window
            Idle == /\ \A c \in Conns : conns[c].append = NoAppend
                    /\ \A n \in Meetings : store[n] # "finalizing" /\ starting[n] = None
                    /\ snap.meeting \in Meetings /\ snap'.meeting = snap.meeting
            Drops == /\ store' = store /\ finalizer' = finalizer /\ stopPromise' = stopPromise
                     /\ timers' = timers /\ timer' = timer
                     /\ snap'.lifecycle = snap.lifecycle /\ snap'.meeting = snap.meeting
                     /\ snap'.assets = snap.assets
                     /\ snap'.owner = IF snap.owner = w THEN None ELSE snap.owner
            Stops == /\ store[snap.meeting] = "open" /\ snap'.lifecycle = "stopping"
                     /\ stopPromise' = "pending"
                     /\ store' = [store EXCEPT ![snap.meeting] = "finalizing"]
                     /\ finalizer' = [finalizer EXCEPT ![snap.meeting] = [by |-> "stop",
                          to |-> "interrupted", detached |-> FALSE, release |-> w]]
            Fails == /\ store[snap.meeting] = "none" /\ snap'.lifecycle = "error"
                     /\ stopPromise' = "settled" /\ store' = store /\ finalizer' = finalizer
<1>a. w \in Windows /\ w \in gone /\ w # None
  BY CaptureAssumption DEF WindowType, WaitInv
<1>b. ASSUME Abandoned(w) PROVE Idle /\ (Stops \/ Fails)
  <2>1. /\ \A c \in Conns : conns[c].append = NoAppend
        /\ snap.meeting \in Meetings /\ store[snap.meeting] \in {"none", "open"}
        /\ \A n \in Meetings : store[n] # "finalizing"
    BY <1>b, OwnerIdle
  <2>2. \A n \in Meetings : starting[n] = None
    BY <1>a, <1>b DEF StoreInv
  <2>3. CASE store[snap.meeting] = "open"
    <3>1. Stops /\ snap'.meeting = snap.meeting
      BY <1>b, <2>3 DEF SnapType
    <3>. QED  BY <2>1, <2>2, <3>1
  <2>4. CASE store[snap.meeting] = "none"
    <3>1. Fails /\ snap'.meeting = snap.meeting
      BY <1>b, <2>1, <2>4, ZenonT(40) DEF SnapType
    <3>. QED  BY <2>1, <2>2, <3>1
  <2>. QED  BY <2>1, <2>3, <2>4
<1>c. ASSUME ~Abandoned(w) PROVE Drops
  BY <1>a, <1>c DEF SnapType
<1>d. Drops \/ (Idle /\ Stops) \/ (Idle /\ Fails)
  BY <1>b, <1>c
<1>e. /\ waits' = waits \ {h} /\ conns' = conns /\ page' = page /\ gone' = gone
      /\ port' = port /\ starting' = starting
      /\ \A v \in Windows : current'[v] = IF v = w THEN None ELSE current[v]
  BY DEF WindowType
<1>f. /\ TableType /\ FinalizerType /\ StoreInv /\ ConnInv /\ WaitInv /\ WindowType
      /\ ConnsType /\ AppendInv /\ SnapType /\ ListenInv /\ SealedAudioIsShown
  OBVIOUS
<1>1. CalmInv'  BY DEF CalmInv, FinalizerType
<1>2. ConnInv'
  <2>1. \A n \in Meetings : store[n] # "none" => store'[n] # "none"
    BY ONLY <1>d, <1>f DEF TableType
  <2>2. \A c \in Conns : conns[c].meeting # None => conns[c].meeting \in Meetings
    BY ONLY <1>f DEF ConnsType, ConnType
  <2>. HIDE DEF w
  <2>. QED  BY ONLY <1>a, <1>e, <1>f, <2>1, <2>2 DEF ConnInv
<1>3. QueueInv'  BY DEF QueueInv, Drained, ConnInv, WindowType
<1>4. WaitInv'
  <2>1. snap'.lifecycle = "starting" =>
          snap'.owner \in {snap.owner, None} /\ snap.lifecycle = "starting"
    BY <1>d
  <2>2. \A c \in Conns : Drained(c)' = Drained(c)
    BY <1>e DEF Drained
  <2>3. \A g \in waits : g.window \in Windows /\ g.window # None
    BY CaptureAssumption DEF WindowType
  <2>. HIDE DEF w
  <2>. QED  BY ONLY <1>a, <1>e, <1>f, <2>1, <2>2, <2>3 DEF WaitInv
<1>5. AppendInv'
  <2>1. CASE Drops /\ snap.owner # w
    BY ONLY <1>e, <1>f, <2>1 DEF AppendInv
  <2>2. CASE snap.owner = w
    <3>1. \A c \in Conns : conns[c].append = NoAppend
      BY <2>2, OwnerIdle
    <3>. QED  BY ONLY <1>e, <3>1 DEF AppendInv
  <2>3. CASE Idle
    BY ONLY <1>e, <2>3 DEF AppendInv
  <2>. QED  BY <1>d, <2>1, <2>2, <2>3
<1>6. StoreInv'
  <2>1. CASE Drops
    <3>1. \A n \in Meetings : starting[n] # None => snap.owner # w
      BY <1>a DEF StoreInv
    <3>. HIDE DEF w
    <3>. QED  BY ONLY <1>e, <1>f, <2>1, <3>1 DEF StoreInv, IsActive
  <2>2. CASE Idle /\ Stops
    <3>1. /\ store'[snap.meeting] = "finalizing" /\ finalizer'[snap.meeting].by = "stop"
          /\ \A n \in Meetings : n # snap.meeting => store'[n] = store[n]
                                                     /\ finalizer'[n] = finalizer[n]
      BY ONLY <1>f, <2>2 DEF TableType, FinalizerType
    <3>. QED  BY ONLY <1>e, <1>f, <2>2, <3>1 DEF StoreInv, IsActive
  <2>3. CASE Idle /\ Fails
    BY ONLY <1>e, <1>f, <2>3 DEF StoreInv, IsActive, ActiveLifecycles
  <2>. QED  BY <1>d, <2>1, <2>2, <2>3
<1>7. TimerStops'
  BY DEF TimerStops, SnapType, Lifecycles, ActiveLifecycles, ClockType, ClearTimers
<1>8. SealedAudioIsShown'
  <2>1. CASE Drops
    BY ONLY <1>f, <2>1 DEF SealedAudioIsShown, IsActive
  <2>2. CASE Idle /\ Stops
    BY ONLY <2>2 DEF SealedAudioIsShown, IsActive, ActiveLifecycles
  <2>3. CASE Idle /\ Fails
    BY ONLY <2>3 DEF SealedAudioIsShown
  <2>. QED  BY <1>d, <2>1, <2>2, <2>3
<1>9. ListenInv'
  <2>1. CASE Drops
    <3>1. \A v \in Windows : snap'.owner = v => snap.owner = v /\ v # w
      BY ONLY <2>1, CaptureAssumption
    <3>2. \A v \in Windows : v # h.window /\ (\A g \in waits' : g.window # v)
            => \A g \in waits : g.window # v
      BY ONLY <1>e
    <3>. QED  BY ONLY <1>e, <1>f, <2>1, <3>1, <3>2 DEF ListenInv
  <2>2. CASE snap'.lifecycle \in {"stopping", "error"}
    BY ONLY <2>2 DEF ListenInv
  <2>. QED  BY <1>d, <2>1, <2>2
<1>. QED  BY <1>1, <1>2, <1>3, <1>4, <1>5, <1>6, <1>7, <1>8, <1>9

-----------------------------------------------------------------------------
(* The theorems.                                                            *)

LEMMA InitOwned == ASSUME Init PROVE OwnedIInv
<1>. USE CaptureAssumption DEF Init, InitialSnapshot, NoFinalizer
<1>1. SnapType
  <2>1. CASE snap = InitialSnapshot({})
    BY <2>1 DEF SnapType, Lifecycles
  <2>2. ASSUME NEW m \in Recovered,
               snap = [InitialSnapshot(Recovered) EXCEPT !.lifecycle = "interrupted",
                                                         !.meeting = m, !.assets = m]
        PROVE  SnapType
    BY <2>2 DEF SnapType, Lifecycles
  <2>. QED  BY <2>1, <2>2
<1>2. ClockType /\ TableType /\ WindowType /\ CountType
  BY DEF ClockType, TableType, WindowType, CountType
<1>3. FinalizerType
  BY DEF FinalizerType
<1>4. ConnsType
  <2>1. <<>> \in Seq(Meetings)
    BY EmptySeq
  <2>2. Unused \in ConnType
    BY <2>1, NoAppendType DEF Unused, ConnType
  <2>. QED  BY <2>2 DEF ConnsType
<1>5. RoomInv
  <2>1. \A c \in Conns : conns[c].queue = <<>> /\ conns[c].append = NoAppend
    BY DEF Unused
  <2>2. Len(<<>>) <= MaxPending
    BY ONLY CaptureAssumption
  <2>. QED  BY ONLY <2>1, <2>2 DEF RoomInv
<1>6. snap.owner = None
  <2>1. CASE snap = InitialSnapshot({})
    BY <2>1
  <2>2. ASSUME NEW m \in Recovered,
               snap = [InitialSnapshot(Recovered) EXCEPT !.lifecycle = "interrupted",
                                                         !.meeting = m, !.assets = m]
        PROVE  snap.owner = None
    BY <2>2
  <2>. QED  BY <2>1, <2>2
<1>7. Owned
  BY <1>6 DEF Owned
<1>. QED  BY <1>1, <1>2, <1>3, <1>4, <1>5, <1>7 DEF OwnedIInv

LEMMA StutterOwned == ASSUME OwnedIInv, UNCHANGED vars PROVE OwnedIInv'
  BY DEF OwnedIInv, SnapType, ClockType, TableType, FinalizerType, ConnsType, RoomInv, WindowType,
     CountType, Owned, vars, calls, clock, ports, windows, budget

LEMMA NextOwned == ASSUME OwnedIInv, [Next]_vars PROVE OwnedIInv'
<1>1. ASSUME NEW w \in Windows, NEW m \in Meetings,
             Start(w, m) \/ AcknowledgeRequest(w, m) \/ DeleteRequest(w, m)
      PROVE  OwnedIInv'
  BY <1>1, StartOwned, AcknowledgeRequestOwned, DeleteRequestOwned
<1>2. ASSUME NEW m \in Meetings, StartResolves(m) \/ StartRejects(m) \/ FinalizeResolves(m)
                                 \/ FinalizeRejects(m) \/ Acknowledge(m) \/ Delete(m)
      PROVE  OwnedIInv'
  BY <1>2, StartResolvesOwned, StartRejectsOwned, FinalizeResolvesOwned, FinalizeRejectsOwned,
     AcknowledgeOwned, DeleteOwned
<1>3. ASSUME NEW w \in Windows, NEW c \in Conns, OpenPort(w, c) PROVE OwnedIInv'
  BY <1>3, OpenPortOwned
<1>4. ASSUME NEW c \in Conns, AppendAudio(c) \/ AppendResolves(c) \/ AppendRejects(c)
      PROVE  OwnedIInv'
  BY <1>4, AppendAudioOwned, AppendResolvesOwned, AppendRejectsOwned
<1>5. ASSUME NEW w \in Windows, Frame(w) \/ PauseRequest(w) \/ Resume(w) \/ StopRequest(w)
                                \/ ClosePort(w) \/ Close(w) \/ Reload(w)
      PROVE  OwnedIInv'
  BY <1>5, FrameOwned, PauseRequestOwned, ResumeOwned, StopRequestOwned, ClosePortOwned,
     CloseOwned, ReloadOwned
<1>6. ASSUME NEW h \in waits, Pause(h) \/ Stop(h) \/ OwnerDestroyed(h) PROVE OwnedIInv'
  BY <1>6, PauseOwned, StopOwned, OwnerDestroyedOwned
<1>. QED  BY <1>1, <1>2, <1>3, <1>4, <1>5, <1>6, StutterOwned DEF Next

\* In every environment (ports given up, page loads, deletions, recovered meetings,
\* failing calls of the audio store) the state has its type and the table of
\* meeting owners names the owner of the snapshot.
THEOREM OwnedInvariant == Spec => []OwnedIInv
  BY InitOwned, NextOwned, PTL DEF Spec

\* An active capture belongs to the window meetingOwners names, so that no other
\* window passes assertMeetingOwner for it, in every environment.
THEOREM OwnershipIsExclusive == Spec => []OwnershipExclusive
<1>1. OwnedIInv => OwnershipExclusive
  BY DEF OwnedIInv, Owned, OwnershipExclusive
<1>. QED  BY <1>1, OwnedInvariant, PTL

LEMMA InitCalm == ASSUME Undisturbed, Init PROVE CaptureIInv
<1>1. OwnedIInv
  BY InitOwned
<1>2. snap = InitialSnapshot({})
  BY DEF Init, Undisturbed
<1>3. /\ snap.lifecycle = "idle" /\ snap.meeting = None /\ snap.owner = None
      /\ \A c \in Conns : conns[c].meeting = None /\ conns[c].append = NoAppend
                          /\ conns[c].queue = <<>>
  BY <1>2 DEF Init, InitialSnapshot, Unused
<1>4. CalmInv /\ TimerStops
  BY DEF Init, NoFinalizer, CalmInv, TimerStops
<1>5. ConnInv /\ QueueInv /\ WaitInv
  BY <1>3 DEF Init, ConnInv, QueueInv, WaitInv, Drained
<1>6. AppendInv /\ SealedAudioIsShown /\ ListenInv
  BY <1>3 DEF AppendInv, SealedAudioIsShown, ListenInv
<1>7. \A m \in Meetings : starting[m] = None /\ store[m] = "none" /\ finalizer[m].by = None
  BY DEF Init, NoFinalizer, Undisturbed
<1>8. StoreInv
  BY <1>3, <1>7 DEF StoreInv, IsActive, ActiveLifecycles
<1>. QED  BY <1>1, <1>4, <1>5, <1>6, <1>8 DEF CaptureIInv

LEMMA StutterCalm == ASSUME CaptureIInv, OwnedIInv', UNCHANGED vars PROVE CaptureIInv'
<1>. USE DEF vars, calls, clock, ports, windows, budget
<1>1. CalmInv' /\ ConnInv' /\ QueueInv' /\ WaitInv'
  BY DEF CaptureIInv, CalmInv, ConnInv, QueueInv, WaitInv, Drained
<1>2. AppendInv' /\ StoreInv' /\ TimerStops'
  BY DEF CaptureIInv, AppendInv, StoreInv, TimerStops, IsActive
<1>3. SealedAudioIsShown' /\ ListenInv'
  BY DEF CaptureIInv, SealedAudioIsShown, ListenInv, IsActive
<1>. QED  BY <1>1, <1>2, <1>3 DEF CaptureIInv

\* Undisturbed windows neither give up a port nor load a page, delete or acknowledge.
LEMMA Unreachable ==
    ASSUME CaptureIInv, Undisturbed, NEW w \in Windows, NEW m \in Meetings
    PROVE  /\ ~AcknowledgeRequest(w, m) /\ ~DeleteRequest(w, m) /\ ~Acknowledge(m) /\ ~Delete(m)
           /\ ~ClosePort(w) /\ ~Reload(w)
<1>1. ~ClosePort(w) /\ ~Reload(w)
  BY DEF CaptureIInv, OwnedIInv, CountType, Undisturbed, ClosePort, Reload
<1>2. ~AcknowledgeRequest(w, m) /\ ~Acknowledge(m)
  BY DEF CaptureIInv, OwnedIInv, SnapType, CalmInv, Undisturbed, AcknowledgeRequest, Acknowledge
<1>3. ~DeleteRequest(w, m) /\ ~Delete(m)
  BY DEF CaptureIInv, CalmInv, Undisturbed, DeleteRequest, Delete
<1>. QED  BY <1>1, <1>2, <1>3

LEMMA NextCalm == ASSUME Undisturbed, CaptureIInv, [Next]_vars PROVE CaptureIInv'
<1>0. OwnedIInv'
  BY NextOwned DEF CaptureIInv
<1>1. ASSUME NEW w \in Windows, NEW m \in Meetings,
             Start(w, m) \/ AcknowledgeRequest(w, m) \/ DeleteRequest(w, m)
      PROVE  CaptureIInv'
  BY <1>0, <1>1, StartCalm, Unreachable
<1>2. ASSUME NEW m \in Meetings, StartResolves(m) \/ StartRejects(m) \/ FinalizeResolves(m)
                                 \/ FinalizeRejects(m) \/ Acknowledge(m) \/ Delete(m)
      PROVE  CaptureIInv'
  <2>1. ~Acknowledge(m) /\ ~Delete(m)
    BY DEF CaptureIInv, CalmInv, Acknowledge, Delete
  <2>. QED  BY <1>0, <1>2, <2>1, StartResolvesCalm, StartRejectsCalm, FinalizeResolvesCalm,
               FinalizeRejectsCalm
<1>3. ASSUME NEW w \in Windows, NEW c \in Conns, OpenPort(w, c) PROVE CaptureIInv'
  BY <1>0, <1>3, OpenPortCalm
<1>4. ASSUME NEW c \in Conns, AppendAudio(c) \/ AppendResolves(c) \/ AppendRejects(c)
      PROVE  CaptureIInv'
  BY <1>0, <1>4, AppendAudioCalm, AppendResolvesCalm, AppendRejectsCalm
<1>5. ASSUME NEW w \in Windows, Frame(w) \/ PauseRequest(w) \/ Resume(w) \/ StopRequest(w)
                                \/ ClosePort(w) \/ Close(w) \/ Reload(w)
      PROVE  CaptureIInv'
  <2>1. ~ClosePort(w) /\ ~Reload(w)
    BY DEF CaptureIInv, OwnedIInv, CountType, Undisturbed, ClosePort, Reload
  <2>. QED  BY <1>0, <1>5, <2>1, FrameCalm, PauseRequestCalm, ResumeCalm, StopRequestCalm, CloseCalm
<1>6. ASSUME NEW h \in waits, Pause(h) \/ Stop(h) \/ OwnerDestroyed(h) PROVE CaptureIInv'
  BY <1>0, <1>6, PauseCalm, StopCalm, OwnerDestroyedCalm
<1>. QED  BY <1>0, <1>1, <1>2, <1>3, <1>4, <1>5, <1>6, StutterCalm DEF Next

\* The inductive invariant of a capture whose windows keep their port and page.
THEOREM CaptureInvariant ==
    ASSUME Undisturbed
    PROVE  Spec => []CaptureIInv
  BY InitCalm, NextCalm, PTL DEF Spec

\* The audio store holds open the meeting of the active capture only, no interval
\* timer outlives the recording, an ended capture shows its sealed audio, and a
\* recording window's connection listens, whatever the interleaving of frames,
\* requests, failing calls and closing windows.
THEOREM CaptureIsConsistent ==
    ASSUME Undisturbed
    PROVE  Spec => []CaptureInv
<1>1. ASSUME CaptureIInv PROVE CaptureInv
  <2>. USE <1>1 DEF CaptureIInv, OwnedIInv
  <2>1. \A c \in Conns : Pending(c) <= MaxPending
    <3>1. \A c \in Conns : Len(conns[c].queue) \in Nat
      BY DEF ConnsType, ConnType
    <3>2. ASSUME NEW c \in Conns PROVE Pending(c) <= MaxPending
      <4>1. CASE conns[c].append = NoAppend
        BY <3>1, <4>1 DEF RoomInv, Pending
      <4>2. CASE conns[c].append # NoAppend
        BY <3>1, <4>2 DEF RoomInv, Pending
      <4>. QED  BY <4>1, <4>2
    <3>. QED  BY <3>2
  <2>2. CaptureTypeOK
    BY <2>1 DEF CaptureTypeOK, SnapType, ClockType, TableType, FinalizerType, WindowType, CountType
  <2>3. OpenAudioIsCaptured
    BY DEF StoreInv, OpenAudioIsCaptured, IsActive, ActiveLifecycles
  <2>4. RecordingListens
    BY DEF ListenInv, RecordingListens
  <2>. QED  BY <2>2, <2>3, <2>4 DEF CaptureInv
<1>. QED  BY <1>1, CaptureInvariant, PTL

\* A late frame, a pending start, a pause or a resume never takes a capture out of
\* stopping: it ends as complete, interrupted or in error.
THEOREM StoppingEnds ==
    ASSUME Undisturbed
    PROVE  Spec => StoppingIsFinal
<1>1. ASSUME CaptureIInv, CaptureIInv', [Next]_vars, snap.lifecycle = "stopping"
      PROVE  snap'.lifecycle \in {"stopping", "complete", "interrupted", "error"}
  <2>. DEFINE Ended == snap'.lifecycle \in {"stopping", "complete", "interrupted", "error"}
  <2>. USE <1>1 DEF CaptureIInv, OwnedIInv
  <2>1. ASSUME NEW w \in Windows, NEW m \in Meetings,
               Start(w, m) \/ AcknowledgeRequest(w, m) \/ DeleteRequest(w, m)
        PROVE  Ended
    BY <2>1, Unreachable DEF Start, MayStart, IsActive, ActiveLifecycles
  <2>2. ASSUME NEW m \in Meetings, StartResolves(m) \/ StartRejects(m) PROVE Ended
    BY <2>2 DEF StartResolves, StartRejects, SnapType
  <2>3. ASSUME NEW m \in Meetings, FinalizeResolves(m) PROVE Ended
    <3>1. PICK l : l = IF finalizer[m].by = "stop" THEN finalizer[m].to ELSE "error"
      OBVIOUS
    <3>2. l \in {"complete", "interrupted", "error"}
      BY <3>1 DEF FinalizerType
    <3>3. \E a : snap' = Unowned([snap EXCEPT !.assets = a, !.lifecycle = l], finalizer[m].release)
      BY <2>3, <3>1 DEF FinalizeResolves, Settled
    <3>4. SnapType
      OBVIOUS
    <3>. QED  BY ONLY <3>2, <3>3, <3>4 DEF Unowned, SnapType
  <2>4. ASSUME NEW m \in Meetings, FinalizeRejects(m) PROVE Ended
    <3>1. \E a : snap' = Unowned([snap EXCEPT !.assets = a, !.lifecycle = "error"],
                                 finalizer[m].release)
      BY <2>4 DEF FinalizeRejects, Settled
    <3>2. SnapType
      OBVIOUS
    <3>. QED  BY ONLY <3>1, <3>2 DEF Unowned, SnapType
  <2>5. ASSUME NEW m \in Meetings, Acknowledge(m) \/ Delete(m) PROVE Ended
    BY <2>5 DEF CalmInv, Acknowledge, Delete
  <2>6. ASSUME NEW c \in Conns, AppendAudio(c) \/ AppendResolves(c) \/ AppendRejects(c)
        PROVE  Ended
    <3>1. ~AppendResolves(c) /\ ~AppendRejects(c)
      BY OneAppend DEF AppendResolves, AppendRejects, NoAppend
    <3>2. ~Taken(c)
      BY DEF Taken
    <3>. QED  BY <2>6, <3>1, <3>2 DEF AppendAudio
  <2>7. ASSUME NEW w \in Windows, Frame(w) \/ PauseRequest(w) \/ Resume(w) \/ StopRequest(w)
                                  \/ ClosePort(w) \/ Close(w) \/ Reload(w)
        PROVE  Ended
    BY <2>7 DEF Frame, PauseRequest, Resume, StopRequest, ClosePort, Close, Reload, Leave
  <2>8. ASSUME NEW h \in waits, Pause(h) \/ Stop(h) PROVE Ended
    <3>1. CASE snap' = snap
      BY <3>1
    <3>2. CASE snap' # snap
      <4>1. Finalize("complete", None)
        BY <2>8, <3>2 DEF Pause, Stop
      <4>. QED  BY <4>1 DEF Finalize, SnapType
    <3>. QED  BY <3>1, <3>2
  <2>9. ASSUME NEW h \in waits, OwnerDestroyed(h) PROVE Ended
    <3>1. ~Abandoned(h.window)
      BY DEF Abandoned, StoreInv
    <3>. QED  BY <2>9, <3>1 DEF OwnerDestroyed, Unowned, SnapType
  <2>10. ASSUME NEW w \in Windows, NEW c \in Conns, OpenPort(w, c) PROVE Ended
    BY <2>10 DEF OpenPort
  <2>11. CASE UNCHANGED vars
    BY <2>11 DEF vars
  <2>. QED  BY <2>1, <2>2, <2>3, <2>4, <2>5, <2>6, <2>7, <2>8, <2>9, <2>10, <2>11 DEF Next
<1>2. ASSUME CaptureIInv, CaptureIInv', [Next]_vars
      PROVE  [snap.lifecycle = "stopping" =>
                snap'.lifecycle \in {"stopping", "complete", "interrupted", "error"}]_vars
  BY <1>1, <1>2
<1>. QED  BY <1>2, CaptureInvariant, PTL DEF Spec, StoppingIsFinal
=============================================================================
