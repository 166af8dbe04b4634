------------------------- MODULE AudioAssetJournal -------------------------
(***************************************************************************)
(* The audio files of one live meeting: AudioAssetWriter.ts.  A meeting's   *)
(* directory holds one WAV per source, written as `<source>.wav.part` and   *)
(* renamed to `<source>.wav` when it is sealed, the manifest `.assets.json`, *)
(* and two marker files: `.recording` while capture runs, `.pending-acp`    *)
(* until the meeting store has acknowledged the sealed assets.  The process *)
(* may crash between any two file operations; `initialize` then repairs the *)
(* directory.  Meetings have separate directories and never share a file,   *)
(* so one directory is modelled.                                            *)
(*                                                                         *)
(* A file is the number of its data bytes and the length its WAV header     *)
(* claims.  An asset's identity and checksum are its source and its bytes.  *)
(* A crash ends the process and keeps what was written to files.            *)
(***************************************************************************)
EXTENDS Integers

CONSTANTS Sources,        \* the source kinds
          Required,       \* the sources every recording has
          FrameBytes,     \* the sizes a frame (silence gap included) can have
          MaxBytes,       \* MAX_WAV_DATA_BYTES
          MaxCrashes,     \* bound: process crashes
          MaxFaults,      \* bound: failing file operations
          Legacy          \* the directory may predate `.pending-acp` markers

BytesPerSample == 2

ASSUME JournalAssumption ==
    /\ Required \subseteq Sources /\ Required # {}
    /\ \A s, t \in Sources \ Required : s = t     \* system audio is the only optional one
    /\ MaxBytes \in Nat
    /\ MaxCrashes \in Nat
    /\ MaxFaults \in Nat
    /\ Legacy \in BOOLEAN
    /\ FrameBytes \subseteq {n \in Nat \ {0} : n % BytesPerSample = 0}

VARIABLES
    recordingMarker, pendingMarker,   \* the two marker files
    part, wav,                        \* the files of each source
    manifest,                         \* .assets.json: source |-> asset
    migrated,                         \* .acp-handoff-v1 of the audio root
    proc,                             \* the process: down, recovering, up
    rec,                              \* recoverInterruptedAssets in progress
    session,                          \* openMeetings and the start/finalize calls around it
    todo,                             \* sources startMeeting has yet to open
    opening,                          \* the source whose part it just created
    open,                             \* the open assets of the meeting
    position, written,                \* bytes accepted, bytes written, per source
    broken,                           \* sources whose write queue rejected
    frames,                           \* appendFrame calls that have not settled
    fin, finStatus,                   \* finalizeOpenAsset per source, requested status
    cache,                            \* finalizedAssets of the meeting
    deleting,                         \* deleteMeetingAssets in progress
    surfaced,                         \* what this process told the renderer to hand over
    crashes, faults,
    durable,                          \* history: bytes whose append resolved
    offers,                           \* history: asset sets given to the renderer
    handed,                           \* history: assets the store acknowledged
    settled,                          \* history: an acknowledgement emptied the backlog
    deleted                           \* history: deletion was requested

files   == <<recordingMarker, pendingMarker, part, wav, manifest, migrated>>
opens   == <<session, todo, opening, open>>
queue   == <<position, written, broken, frames>>
ends    == <<fin, finStatus>>
memory  == <<rec, opens, queue, ends, cache, deleting, surfaced>>
budget  == <<crashes, faults>>
history == <<durable, offers, handed, settled, deleted>>
vars    == <<files, proc, memory, budget, history>>

Absent   == [data |-> 0, hdr |-> -2]       \* no such file
NoHeader == -1
NoAsset  == [bytes |-> -1, status |-> "none"]
Empty    == [s \in Sources |-> NoAsset]    \* no manifest, or one without assets

File   == {Absent} \union [data : 0..MaxBytes, hdr : NoHeader..MaxBytes]
Asset  == [bytes : 0..MaxBytes, status : {"finalized", "interrupted"}]
Assets == [Sources -> Asset \union {NoAsset}]
Ids    == Sources \X (0..MaxBytes)         \* an asset id with a checksum

Named(assets) == {s \in Sources : assets[s] # NoAsset}

Interrupted(assets) ==
    [s \in Sources |-> IF s \in Named(assets)
                       THEN [bytes |-> assets[s].bytes, status |-> "interrupted"] ELSE NoAsset]

\* cacheAssets: the entries of `assets` replace those of `older`.
Merge(assets, older) ==
    [s \in Sources |-> IF s \in Named(assets) THEN assets[s] ELSE older[s]]

\* What the renderer persists and acknowledges of assets: ids and checksums.
Identity(assets) == {<<s, assets[s].bytes>> : s \in Named(assets)}

Parts == {s \in Sources : part[s] # Absent}
Wavs  == {s \in Sources : wav[s] # Absent}

DirectoryEmpty ==
    ~recordingMarker /\ ~pendingMarker /\ Parts = {} /\ Wavs = {} /\ manifest = Empty

\* The directory itself is gone once its deletion emptied it.
NoDirectory == deleted /\ DirectoryEmpty

\* The capture snapshot shows the renderer assets to hand over.
Surface(ids) == surfaced' = ids /\ offers' = IF ids = {} THEN offers ELSE offers \union {ids}

NoRecovery == [stage |-> "none", parts |-> {}, listed |-> {}, assets |-> Empty]

----------------------------------------------------------------------------
(* Initial states: an empty root, or one left by a version without handoff  *)
(* markers, whose finalized manifest the first launch migrates.             *)

InitMemory ==
    /\ proc = "down" /\ rec = NoRecovery /\ session = "none"
    /\ todo = {} /\ opening = {} /\ open = {} /\ broken = {} /\ frames = {}
    /\ position = [s \in Sources |-> 0] /\ written = [s \in Sources |-> 0]
    /\ fin = [s \in Sources |-> "none"] /\ finStatus = "finalized"
    /\ cache = Empty /\ deleting = FALSE /\ surfaced = {}

Init ==
    /\ InitMemory
    /\ recordingMarker = FALSE /\ pendingMarker = FALSE /\ migrated = FALSE
    /\ part = [s \in Sources |-> Absent]
    /\ \/ wav = [s \in Sources |-> Absent] /\ manifest = Empty
       \/ \E b \in FrameBytes :
             /\ Legacy /\ b <= MaxBytes
             /\ wav = [s \in Sources |-> [data |-> b, hdr |-> b]]
             /\ manifest = [s \in Sources |-> [bytes |-> b, status |-> "finalized"]]
    /\ crashes = 0 /\ faults = 0
    /\ durable = [s \in Sources |-> 0]
    /\ offers = {} /\ handed = {} /\ settled = FALSE /\ deleted = FALSE

----------------------------------------------------------------------------
(* initialize                                                               *)

\* Fault: a handoff that is still pending is not offered again.
OffersOnlyLegacyFault == manifest # Empty /\ ~migrated
\* A directory that needs no repair is offered while its handoff is pending,
\* and once by the launch that migrates it.
StillPending == manifest # Empty /\ (pendingMarker \/ ~migrated)

\* The listing of the directory, the manifest, and whether it needs repair.
Launch ==
    /\ proc = "down"
    /\ proc' = "recovering"
    /\ cache' = manifest                                         \* loadManifest caches
    /\ IF ~recordingMarker /\ Parts = {}
       THEN /\ pendingMarker' = (pendingMarker \/ StillPending)  \* ensurePendingAcpMarker
            /\ Surface(IF StillPending THEN Identity(manifest) ELSE {})
            /\ rec' = [NoRecovery EXCEPT !.stage = "migrate"]
       ELSE /\ rec' = [stage |-> "parts", parts |-> Parts, listed |-> Wavs,
                       assets |-> Interrupted(manifest)]
            /\ UNCHANGED <<pendingMarker, surfaced, offers>>
    /\ UNCHANGED <<recordingMarker, part, wav, manifest, migrated, opens, queue,
                   ends, deleting, budget, durable, handed, settled, deleted>>

\* recoverPartAsset drops an incomplete sample and rewrites the header ...
RecoverPartData(s) ==
    /\ rec.stage = "parts" /\ s \in rec.parts /\ wav[s] = Absent
    /\ part[s].hdr # part[s].data \/ part[s].data % BytesPerSample # 0
    /\ LET whole == part[s].data - (part[s].data % BytesPerSample)
       IN  part' = [part EXCEPT ![s] = [data |-> whole, hdr |-> whole]]
    /\ UNCHANGED <<recordingMarker, pendingMarker, wav, manifest, migrated, proc,
                   rec, opens, queue, ends, cache, deleting, surfaced, budget, history>>

\* ... then renames the file; a part whose WAV exists is removed instead.
RecoverPart(s) ==
    /\ rec.stage = "parts" /\ s \in rec.parts
    /\ wav[s] = Absent => part[s].hdr = part[s].data /\ part[s].data % BytesPerSample = 0
    /\ part' = [part EXCEPT ![s] = Absent]
    /\ IF wav[s] = Absent
       THEN /\ wav' = [wav EXCEPT ![s] = part[s]]
            /\ rec' = [rec EXCEPT !.parts = @ \ {s},
                  !.assets[s] = [bytes |-> part[s].data, status |-> "interrupted"]]
       ELSE wav' = wav /\ rec' = [rec EXCEPT !.parts = @ \ {s}]
    /\ UNCHANGED <<recordingMarker, pendingMarker, manifest, migrated, proc, opens,
                   queue, ends, cache, deleting, surfaced, budget, history>>

\* Sealed files the manifest does not name are read back; an unreadable one
\* makes initialize throw, and the application does not start.
RecoverManifest ==
    /\ rec.stage = "parts" /\ rec.parts = {}
    /\ LET missing == rec.listed \ Named(rec.assets)
       IN  IF \E s \in missing : wav[s].hdr # wav[s].data
           THEN proc' = "refused" /\ UNCHANGED <<manifest, rec>>
           ELSE /\ rec' = [rec EXCEPT !.stage = "mark",
                      !.assets = [s \in Sources |->
                          IF s \in missing
                          THEN [bytes |-> wav[s].data, status |-> "interrupted"]
                          ELSE rec.assets[s]]]
                /\ manifest' = rec'.assets                       \* persistManifest
                /\ UNCHANGED proc
    /\ UNCHANGED <<recordingMarker, pendingMarker, part, wav, migrated, opens,
                   queue, ends, cache, deleting, surfaced, budget, history>>

\* markPendingAcpHandoff renames `.recording`, or creates the pending marker.
RecoverMark ==
    /\ rec.stage = "mark"
    /\ recordingMarker' = FALSE /\ pendingMarker' = TRUE
    /\ cache' = Merge(rec.assets, cache)
    /\ Surface(Identity(rec.assets))
    /\ rec' = [NoRecovery EXCEPT !.stage = "migrate"]
    /\ UNCHANGED <<part, wav, manifest, migrated, proc, opens, queue, ends, deleting,
                   budget, durable, handed, settled, deleted>>

\* completeLegacyHandoffMigration, after which initialize returns.
RecoverDone ==
    /\ rec.stage = "migrate"
    /\ migrated' = TRUE
    /\ proc' = "up"
    /\ rec' = NoRecovery
    /\ UNCHANGED <<recordingMarker, pendingMarker, part, wav, manifest, opens,
                   queue, ends, cache, deleting, surfaced, budget, history>>

----------------------------------------------------------------------------
(* startMeeting                                                             *)

\* Fault: sealed sources are sealed again.
NotYetSealedFault(S) == TRUE
NotYetSealed(S) == S \intersect Wavs = {}

\* No WAV of the requested sources may exist, and the marker is created with
\* `wx`: it must not exist either.
StartMeeting(S) ==
    /\ proc = "up" /\ session = "none" /\ ~deleted
    /\ NotYetSealed(S)
    /\ ~recordingMarker
    /\ recordingMarker' = TRUE
    /\ session' = "starting" /\ todo' = S /\ open' = {}
    /\ UNCHANGED <<pendingMarker, part, wav, manifest, migrated, proc, rec, opening,
                   queue, ends, cache, deleting, surfaced, budget, history>>

\* One source after the other, the required ones first: the part is created
\* with `wx+`, then its header is written.
NextToOpen == IF todo \intersect Required # {} THEN todo \intersect Required ELSE todo

StartPart(s) ==
    /\ session = "starting" /\ s \in NextToOpen /\ ~NoDirectory
    /\ opening = {} /\ part[s] = Absent
    /\ part' = [part EXCEPT ![s] = [data |-> 0, hdr |-> NoHeader]]
    /\ opening' = {s}
    /\ UNCHANGED <<recordingMarker, pendingMarker, wav, manifest, migrated, proc,
                   rec, session, todo, open, queue, ends, cache, deleting, surfaced, budget,
                   history>>

StartHeader(s) ==
    /\ session = "starting" /\ s \in opening
    /\ part' = IF part[s] = Absent THEN part ELSE [part EXCEPT ![s].hdr = 0]
    /\ opening' = {} /\ todo' = todo \ {s} /\ open' = open \union {s}
    /\ UNCHANGED <<recordingMarker, pendingMarker, wav, manifest, migrated, proc,
                   rec, session, queue, ends, cache, deleting, surfaced, budget, history>>

StartDone ==
    /\ session = "starting" /\ todo = {}
    /\ session' = "open"
    /\ position' = [s \in Sources |-> 0] /\ written' = [s \in Sources |-> 0]
    /\ broken' = {}
    /\ UNCHANGED <<files, proc, rec, todo, opening, open, frames, ends, cache, deleting,
                   surfaced, budget, history>>

\* A source that cannot be opened: its own part is removed, then the parts
\* opened before it, and the marker last.
StartFailed(s) ==
    /\ session = "starting" /\ s \in NextToOpen /\ opening \subseteq {s}
    /\ \/ faults < MaxFaults /\ faults' = faults + 1
       \/ opening = {} /\ (NoDirectory \/ part[s] # Absent) /\ UNCHANGED faults
    /\ part' = IF s \in opening THEN [part EXCEPT ![s] = Absent] ELSE part
    /\ session' = "cleanup" /\ todo' = {} /\ opening' = {}
    /\ UNCHANGED <<recordingMarker, pendingMarker, wav, manifest, migrated, proc,
                   rec, open, queue, ends, cache, deleting, surfaced, crashes, history>>

\* Promise.allSettled: a part that cannot be removed is left behind.
StartCleanupPart(s) ==
    /\ session = "cleanup" /\ s \in open
    /\ \/ part' = [part EXCEPT ![s] = Absent] /\ UNCHANGED faults
       \/ faults < MaxFaults /\ faults' = faults + 1 /\ UNCHANGED part
    /\ open' = open \ {s}
    /\ UNCHANGED <<recordingMarker, pendingMarker, wav, manifest, migrated, proc,
                   rec, session, todo, opening, queue, ends, cache, deleting, surfaced,
                   crashes, history>>

StartCleanupMarker ==
    /\ session = "cleanup" /\ open = {}
    /\ recordingMarker' = FALSE
    /\ session' = "none"
    /\ UNCHANGED <<pendingMarker, part, wav, manifest, migrated, proc, rec, todo,
                   opening, open, queue, ends, cache, deleting, surfaced, budget, history>>

----------------------------------------------------------------------------
(* appendFrame: the positions advance at once, the writes are queued.       *)

Fits(s, n) == position[s] + n <= MaxBytes

\* A source at the size limit makes the call throw after it queued the
\* writes of the sources it had already visited.
AppendFrame(F, n) ==
    /\ session = "open" /\ F \subseteq open /\ F # {}
    /\ LET fits == {s \in F : Fits(s, n)}
       IN  \E A \in SUBSET fits :
             /\ A = F \/ fits # F
             /\ position' = [s \in Sources |-> IF s \in A THEN position[s] + n ELSE position[s]]
             /\ frames' = IF A = F
                          THEN frames \union {[s \in Sources |-> IF s \in F THEN position'[s] ELSE 0]}
                          ELSE frames
    /\ UNCHANGED <<files, proc, rec, opens, written, broken, ends, cache, deleting, surfaced,
                   budget, history>>

Writing(s) == session \in {"open", "finalizing"} /\ s \in open /\ written[s] < position[s]
              /\ s \notin broken

\* writeSilence and writeAll: a call may write any number of bytes.
Write(s) ==
    /\ Writing(s)
    /\ written' = [written EXCEPT ![s] = @ + 1]
    /\ part' = IF part[s] = Absent THEN part ELSE [part EXCEPT ![s].data = written[s] + 1]
    /\ UNCHANGED <<recordingMarker, pendingMarker, wav, manifest, migrated, proc,
                   rec, opens, position, broken, frames, ends, cache, deleting, surfaced,
                   budget, history>>

\* The rejected promise is the head of the chain for every later write.
WriteFails(s) ==
    /\ Writing(s)
    /\ faults < MaxFaults /\ faults' = faults + 1
    /\ broken' = broken \union {s}
    /\ UNCHANGED <<files, proc, rec, opens, position, written, frames, ends, cache,
                   deleting, surfaced, crashes, history>>

\* Fault: Promise.race instead of Promise.all.
AllWrittenFault(f) == \E s \in Sources : f[s] > 0 /\ written[s] >= f[s]
\* Promise.all of the writes the frame queued.
AllWritten(f) == \A s \in Sources : written[s] >= f[s]

AppendSettles(f) ==
    /\ f \in frames
    /\ \/ /\ AllWritten(f)
          /\ durable' = [s \in Sources |->
                           IF f[s] > durable[s] THEN f[s] ELSE durable[s]]
       \/ (\E s \in broken : written[s] < f[s]) /\ UNCHANGED durable
    /\ frames' = frames \ {f}
    /\ UNCHANGED <<files, proc, rec, opens, position, written, broken, ends, cache,
                   deleting, surfaced, budget, offers, handed, settled, deleted>>

----------------------------------------------------------------------------
(* finalizeMeeting                                                          *)

FinalizeMeeting(status) ==
    /\ session = "open"
    /\ session' = "finalizing"
    /\ fin' = [s \in Sources |-> IF s \in open THEN "queue" ELSE "none"]
    /\ finStatus' = status
    /\ UNCHANGED <<files, proc, rec, todo, opening, open, queue, cache, deleting, surfaced,
                   budget, history>>

SealedHeader(s) == position[s]

\* finalizeOpenAsset: once the queue is drained, the header and sync ...
FinalizeHeader(s) ==
    /\ session = "finalizing" /\ fin[s] = "queue"
    /\ s \notin broken /\ written[s] = position[s]
    /\ part' = IF part[s] = Absent THEN part ELSE [part EXCEPT ![s].hdr = SealedHeader(s)]
    /\ fin' = [fin EXCEPT ![s] = "header"]
    /\ UNCHANGED <<recordingMarker, pendingMarker, wav, manifest, migrated, proc,
                   rec, opens, queue, finStatus, cache, deleting, surfaced, budget, history>>

\* ... then the rename.
FinalizeRename(s) ==
    /\ session = "finalizing" /\ fin[s] = "header" /\ part[s] # Absent
    /\ wav' = [wav EXCEPT ![s] = part[s]] /\ part' = [part EXCEPT ![s] = Absent]
    /\ fin' = [fin EXCEPT ![s] = "sealed"]
    /\ UNCHANGED <<recordingMarker, pendingMarker, manifest, migrated, proc, rec,
                   opens, queue, finStatus, cache, deleting, surfaced, budget, history>>

FinalizeAssetFails(s) ==
    /\ session = "finalizing"
    /\ \/ fin[s] = "queue" /\ s \in broken /\ UNCHANGED faults
       \/ fin[s] = "header" /\ part[s] = Absent /\ UNCHANGED faults
       \/ fin[s] \in {"queue", "header"} /\ faults < MaxFaults /\ faults' = faults + 1
    /\ fin' = [fin EXCEPT ![s] = "failed"]
    /\ broken' = broken \union {s}
    /\ UNCHANGED <<files, proc, rec, opens, position, written, frames, finStatus,
                   cache, deleting, surfaced, crashes, history>>

\* The assets finalizeMeeting exposes, in its result or in its error.
Exposed ==
    LET failed == \E s \in open : fin[s] = "failed"
    IN  [s \in Sources |->
            IF s \in open /\ fin[s] = "sealed"
            THEN [bytes |-> position[s], status |-> IF failed THEN "interrupted" ELSE finStatus]
            ELSE NoAsset]

AllSettled == session = "finalizing" /\ \A s \in open : fin[s] \in {"sealed", "failed"}

FinalizeReturns ==
    /\ cache' = Merge(Exposed, cache)
    /\ Surface(Identity(Exposed))
    /\ session' = "none"

FinalizeManifest ==
    /\ AllSettled /\ ~NoDirectory
    /\ manifest' = Exposed
    /\ IF \E s \in open : fin[s] = "failed"
       THEN FinalizeReturns                      \* throws; `.recording` stays
       ELSE session' = "marking" /\ UNCHANGED <<cache, surfaced, offers>>
    /\ UNCHANGED <<recordingMarker, pendingMarker, part, wav, migrated, proc, rec,
                   todo, opening, open, queue, ends, deleting, budget, durable, handed,
                   settled, deleted>>

FinalizeMark ==
    /\ session = "marking" /\ ~NoDirectory
    /\ recordingMarker' = FALSE /\ pendingMarker' = TRUE
    /\ FinalizeReturns
    /\ UNCHANGED <<part, wav, manifest, migrated, proc, rec, todo, opening, open,
                   queue, ends, deleting, budget, durable, handed, settled, deleted>>

\* The manifest or the marker cannot be written: AudioFinalizeError.
FinalizeMetadataFails ==
    /\ AllSettled \/ session = "marking"
    /\ \/ faults < MaxFaults /\ faults' = faults + 1
       \/ NoDirectory /\ UNCHANGED faults
    /\ FinalizeReturns
    /\ UNCHANGED <<files, proc, rec, todo, opening, open, queue, ends, deleting, crashes,
                   durable, handed, settled, deleted>>

----------------------------------------------------------------------------
(* acknowledgeAudioAssetsPersisted, resolveFinalizedAsset and               *)
(* deleteMeetingAssets: requests of the renderer.                           *)

LoadManifest == IF cache # Empty THEN cache ELSE manifest

\* Fault: the acknowledgement may name only some of the manifest's files.
AcknowledgesManifestFault(A) == A \subseteq Identity(LoadManifest)
\* The acknowledged assets are the manifest's, by name and digest.
AcknowledgesManifest(A) == Identity(LoadManifest) = A

\* The renderer acknowledges an asset set it was offered, at any later time.
Acknowledge(A) ==
    /\ proc = "up" /\ session # "open"
    /\ A \in offers
    /\ AcknowledgesManifest(A)
    /\ cache' = LoadManifest
    /\ pendingMarker' = FALSE
    /\ handed' = handed \union A
    /\ settled' = (settled \/ (session = "none" /\ ~recordingMarker /\ Parts = {} /\ ~deleted))
    /\ UNCHANGED <<recordingMarker, part, wav, manifest, migrated, proc, rec, opens,
                   queue, ends, deleting, surfaced, budget, durable, offers, deleted>>

\* Playback of an offered asset the manifest lost rebuilds its entry.
ResolveFinalizedAsset(s) ==
    /\ proc = "up" /\ session = "none" /\ ~deleting
    /\ s \in Wavs \ Named(LoadManifest)
    /\ \E A \in offers : \E b \in 0..MaxBytes : <<s, b>> \in A
    /\ wav[s].hdr = wav[s].data
    /\ cache' = [LoadManifest EXCEPT ![s] = [bytes |-> wav[s].data, status |-> "finalized"]]
    /\ manifest' = cache'
    /\ UNCHANGED <<recordingMarker, pendingMarker, part, wav, migrated, proc, rec,
                   opens, queue, ends, deleting, surfaced, budget, history>>

\* Refused only while openMeetings holds the meeting.
DeleteMeetingAssets ==
    /\ proc = "up" /\ session # "open" /\ ~deleting
    /\ deleting' = TRUE /\ deleted' = TRUE
    /\ UNCHANGED <<files, proc, rec, opens, queue, ends, cache, surfaced, budget,
                   durable, offers, handed, settled>>

\* `rm -r` removes one entry at a time, in no particular order.
DeleteEntry ==
    /\ deleting
    /\ \/ /\ recordingMarker /\ recordingMarker' = FALSE
          /\ UNCHANGED <<pendingMarker, part, wav, manifest>>
       \/ /\ pendingMarker /\ pendingMarker' = FALSE
          /\ UNCHANGED <<recordingMarker, part, wav, manifest>>
       \/ /\ manifest # Empty /\ manifest' = Empty
          /\ UNCHANGED <<recordingMarker, pendingMarker, part, wav>>
       \/ \E s \in Parts : /\ part' = [part EXCEPT ![s] = Absent]
                           /\ UNCHANGED <<recordingMarker, pendingMarker, wav,
                                          manifest>>
       \/ \E s \in Wavs : /\ wav' = [wav EXCEPT ![s] = Absent]
                          /\ UNCHANGED <<recordingMarker, pendingMarker, part,
                                         manifest>>
    /\ UNCHANGED <<migrated, proc, rec, opens, queue, ends, cache, deleting, surfaced, budget,
                   history>>

Removed == DirectoryEmpty

DeleteEnds ==
    /\ deleting
    /\ \/ Removed /\ cache' = Empty /\ UNCHANGED faults
       \/ faults < MaxFaults /\ faults' = faults + 1 /\ UNCHANGED cache
    /\ deleting' = FALSE
    /\ UNCHANGED <<files, proc, rec, opens, queue, ends, surfaced, crashes, history>>

----------------------------------------------------------------------------

\* The process ends: open handles and memory are gone, files stay.
Crash ==
    /\ proc \in {"recovering", "up"} /\ crashes < MaxCrashes
    /\ crashes' = crashes + 1
    /\ proc' = "down" /\ rec' = NoRecovery /\ session' = "none"
    /\ todo' = {} /\ opening' = {} /\ open' = {} /\ broken' = {} /\ frames' = {}
    /\ position' = [s \in Sources |-> 0] /\ written' = [s \in Sources |-> 0]
    /\ fin' = [s \in Sources |-> "none"] /\ finStatus' = "finalized"
    /\ cache' = Empty /\ deleting' = FALSE /\ surfaced' = {}
    /\ UNCHANGED <<files, faults, history>>

\* The calls in progress and the recovery, which take their next step.
Recovery == \/ RecoverManifest \/ RecoverMark \/ RecoverDone
            \/ \E s \in Sources : RecoverPartData(s) \/ RecoverPart(s)

Starting == \/ StartDone \/ StartCleanupMarker
            \/ \E s \in Sources : StartPart(s) \/ StartHeader(s) \/ StartFailed(s)
                                  \/ StartCleanupPart(s)

Finalizing == \/ FinalizeManifest \/ FinalizeMark \/ FinalizeMetadataFails
              \/ \E s \in Sources : FinalizeHeader(s) \/ FinalizeRename(s)
                                    \/ FinalizeAssetFails(s)

Appending == \/ \E s \in Sources : Write(s) \/ WriteFails(s)
             \/ \E f \in frames : AppendSettles(f)

Requests == \/ \E S \in SUBSET Sources : Required \subseteq S /\ StartMeeting(S)
            \/ \E F \in SUBSET Sources, n \in FrameBytes : AppendFrame(F, n)
            \/ \E status \in {"finalized", "interrupted"} : FinalizeMeeting(status)
            \/ DeleteMeetingAssets
            \/ \E s \in Sources : ResolveFinalizedAsset(s)
            \/ \E A \in offers : Acknowledge(A)

Next == \/ Launch \/ Recovery \/ Starting \/ Appending \/ Finalizing
        \/ Requests \/ DeleteEntry \/ DeleteEnds \/ Crash

Spec == Init /\ [][Next]_vars

(* A started application finishes its recovery, calls in progress go on,    *)
(* the renderer hands over what it was offered (on the next snapshot, or at *)
(* the next launch), and the cleanup job of a deleted meeting is retried    *)
(* until its files are gone.                                                *)
Fairness ==
    /\ WF_vars(Launch)
    /\ WF_vars(Recovery)
    /\ WF_vars(pendingMarker /\ Acknowledge(surfaced))
    /\ WF_vars(Starting) /\ WF_vars(Finalizing) /\ WF_vars(Appending)
    /\ WF_vars(DeleteEntry) /\ WF_vars(DeleteEnds)
    /\ WF_vars(deleted /\ ~DirectoryEmpty /\ DeleteMeetingAssets)

FairSpec == Spec /\ Fairness

----------------------------------------------------------------------------
(* Properties                                                               *)

\* Every variable stays in its range.
JournalTypeOK ==
    /\ recordingMarker \in BOOLEAN /\ pendingMarker \in BOOLEAN /\ migrated \in BOOLEAN
    /\ part \in [Sources -> File] /\ wav \in [Sources -> File]
    /\ manifest \in Assets /\ cache \in Assets
    /\ proc \in {"down", "recovering", "up", "refused"}
    /\ rec \in [stage : {"none", "parts", "mark", "migrate"}, parts : SUBSET Sources,
                listed : SUBSET Sources, assets : Assets]
    /\ session \in {"none", "starting", "cleanup", "open", "finalizing", "marking"}
    /\ todo \in SUBSET Sources /\ opening \in SUBSET Sources /\ open \in SUBSET Sources /\ broken \in SUBSET Sources
    /\ position \in [Sources -> 0..MaxBytes] /\ written \in [Sources -> 0..MaxBytes]
    /\ frames \in SUBSET [Sources -> 0..MaxBytes]
    /\ fin \in [Sources -> {"none", "queue", "header", "sealed", "failed"}]
    /\ finStatus \in {"finalized", "interrupted"}
    /\ deleting \in BOOLEAN /\ deleted \in BOOLEAN /\ settled \in BOOLEAN
    /\ crashes \in 0..MaxCrashes /\ faults \in 0..MaxFaults
    /\ durable \in [Sources -> 0..MaxBytes]
    /\ surfaced \in SUBSET Ids /\ offers \in SUBSET SUBSET Ids /\ handed \in SUBSET Ids

\* Audio whose append resolved is in one of the source's files, whatever
\* crashes, failed writes, failed finalizations and recoveries followed.
ResolvedAudioOnDisk ==
    deleted \/ \A s \in Sources : \E file \in {part[s], wav[s]} : durable[s] <= file.data

\* A sealed file with audio the store has not acknowledged is offered by the next
\* launch: either the directory will be repaired, or its manifest names the
\* file and a handoff marker is there (the test "replays finalized assets
\* until the exact ACP manifest is acknowledged").
ReplayedUntilAcknowledged ==
    ~deleted =>
      \A s \in Wavs : wav[s].data > 0 /\ <<s, wav[s].data>> \notin handed =>
          \/ recordingMarker \/ Parts # {}
          \/ (pendingMarker \/ ~migrated) /\ manifest[s].bytes = wav[s].data

\* initialize never meets a sealed file it cannot read: the application
\* always starts after a crash.
RecoveryNeverRefuses == proc # "refused"

\* A source never has both a part and a WAV, so the branch of the recovery
\* that removes a part never discards audio.
RecoveryDiscardsNothing == \A s \in Sources : part[s] = Absent \/ wav[s] = Absent

\* What the manifest, or the cache that stands for it, says of a source is
\* what its file holds: resolveFinalizedAsset's check cannot fail.
ManifestMatchesFiles ==
    ~deleted => \A assets \in {manifest, cache} : \A s \in Named(assets) :
                    wav[s] # Absent /\ wav[s].data = assets[s].bytes

\* Once the whole backlog of the meeting was acknowledged, nothing is left
\* that a later launch would offer again.
SettledStaysSettled ==
    settled /\ ~deleted => migrated /\ ~recordingMarker /\ ~pendingMarker /\ Parts = {}

\* The directory is always one the next launch can repair without loss: the parts
\* above, and the type of the journal's state (recoverInterruptedAssets,
\* resolveFinalizedAsset, acknowledgeAudioAssetsPersisted).
JournalInv ==
    /\ JournalTypeOK
    /\ RecoveryNeverRefuses
    /\ RecoveryDiscardsNothing
    /\ ManifestMatchesFiles
    /\ SettledStaysSettled

\* Audio a stopped process left behind is handed over or deleted.
LeftoversHandedOver ==
    proc = "down" /\ (Parts # {} \/ Wavs # {})
      ~> deleted \/ (Parts = {} /\ \A s \in Wavs : wav[s].data > 0 => <<s, wav[s].data>> \in handed)

\* A deletion that was interrupted, or that raced a start or a finalization,
\* ends with an empty directory, unless the meeting goes on recording.
DeletionCompletes == deleted ~> DirectoryEmpty \/ session = "open"

\* No directory is left in between for good (initialize, finalizeMeeting,
\* deleteMeetingAssets).
DirectoriesSettle == LeftoversHandedOver /\ DeletionCompletes
=============================================================================
