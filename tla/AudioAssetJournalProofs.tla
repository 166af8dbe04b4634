---------------------- MODULE AudioAssetJournalProofs ----------------------
(***************************************************************************)
(* The proofs that no crash, failed file operation or recovery loses audio  *)
(* of a meeting.  The inductive invariant says, for every stage of the      *)
(* recovery, of a start, of the recording and of its finalization, which    *)
(* files the directory holds and what they contain.                         *)
(***************************************************************************)
EXTENDS AudioAssetJournal, TLAPS

\* The bytes of a source are in one of its files.
OnDisk(s, bytes) == bytes <= part[s].data \/ bytes <= wav[s].data

Holds(assets, s) == wav[s] # Absent /\ wav[s].data = assets[s].bytes
Matches(assets) == \A s \in Named(assets) : Holds(assets, s)

Unacknowledged(s) == wav[s] # Absent /\ wav[s].data > 0 /\ <<s, wav[s].data>> \notin handed

\* The stages of the process.
ProcInv ==
    /\ proc # "refused"
    /\ session # "none" \/ deleting => proc = "up"
    /\ rec.stage # "none" <=> proc = "recovering"
    /\ proc = "up" => migrated
    /\ deleting => deleted
    /\ proc # "up" => \A s \in Sources : written[s] = 0

\* A source has one file, and a sealed one has a true header.
FileInv ==
    /\ \A s \in Sources : part[s] = Absent \/ wav[s] = Absent
    /\ \A s \in Sources : wav[s] # Absent => wav[s].hdr = wav[s].data

\* Frames are whole samples.
SampleInv ==
    /\ \A s \in Sources : /\ position[s] % 2 = 0 /\ durable[s] % 2 = 0
                          /\ written[s] <= position[s]
    /\ \A f \in frames : \A s \in Sources : f[s] % 2 = 0

\* What was written, and what was promised, is on disk.
DiskInv ==
    ~deleted => \A s \in Sources : OnDisk(s, durable[s]) /\ OnDisk(s, written[s])

\* What the recovery knows of the directory.
RecoveryInv ==
    /\ rec.stage = "parts" => rec.parts = Parts /\ rec.listed \subseteq Wavs
    /\ rec.stage \in {"mark", "migrate"} => Parts = {}
    /\ ~deleted /\ rec.stage \in {"parts", "mark"} =>
          Matches(rec.assets) /\ Named(cache) \subseteq Named(rec.assets)
    /\ ~deleted /\ rec.stage = "parts" =>
          cache = manifest /\ Wavs \subseteq rec.listed \union Named(rec.assets)
    /\ ~deleted /\ rec.stage = "mark" =>
          manifest = rec.assets /\ Wavs \subseteq Named(rec.assets)
    /\ ~deleted /\ rec.stage = "migrate" =>
          /\ cache = manifest /\ ~recordingMarker
          /\ \A s \in Sources : Unacknowledged(s) =>
                pendingMarker /\ manifest[s].bytes = wav[s].data

\* A meeting is started in a directory without sealed files, and nothing is
\* in the parts it creates.
StartInv ==
    /\ session # "starting" => opening = {}
    /\ session = "starting" =>
          /\ opening \subseteq todo /\ open \intersect todo = {}
          /\ opening = {} \/ \E s \in Sources : opening = {s}
          /\ (todo \union open) \intersect Wavs = {}
          /\ \A s \in open \union opening : part[s].data = 0
          /\ Required \subseteq todo \union open
          /\ open \ Required # {} => todo = {}
          /\ opening \ Required # {} => todo \subseteq opening
    /\ ~deleted /\ session \in {"starting", "cleanup"} =>
          /\ Wavs = {} /\ \A s \in Sources : part[s].data = 0
          /\ \A s \in open \union opening : durable[s] = 0 /\ written[s] = 0
    /\ ~deleted /\ session = "starting" =>
          /\ open \union opening \subseteq Parts
          /\ Parts \subseteq Required \union open \union opening
    /\ ~deleted /\ session = "cleanup" => Parts \subseteq Required

\* An open part holds the bytes written, and a sealed file all that was accepted.
OpenInv ==
    /\ session \in {"open", "finalizing"} =>
          \A s \in open : part[s] # Absent => part[s].data = written[s]
    /\ ~deleted /\ session = "open" => Parts = open /\ Wavs = {}
    /\ session \in {"finalizing", "marking"} =>
          \A s \in Sources : /\ fin[s] # "none" <=> s \in open
                             /\ fin[s] \in {"header", "sealed"} => written[s] = position[s]
                             /\ fin[s] = "failed" => s \in broken
                             /\ fin[s] = "header" /\ part[s] # Absent =>
                                   part[s].hdr = position[s]
    /\ session = "marking" => \A s \in open : fin[s] = "sealed"
    /\ ~deleted /\ session \in {"finalizing", "marking"} =>
          /\ \A s \in Sources : fin[s] = "sealed" => wav[s].data = position[s]
          /\ Wavs = {s \in open : fin[s] = "sealed"}
          /\ Parts = {s \in open : fin[s] # "sealed"}
    /\ ~deleted /\ session = "marking" => manifest = Exposed

\* What the markers, the manifest and the cache say of the directory.
MarkerInv ==
    ~deleted =>
      /\ session # "none" => recordingMarker
      /\ Matches(manifest) /\ Matches(cache)
      /\ proc = "up" /\ ~recordingMarker => cache = manifest
      /\ proc = "up" /\ ~recordingMarker /\ Parts # {} => Wavs = {} /\ Parts \subseteq Required
      /\ ~recordingMarker /\ Parts # {} =>
            \A s \in Sources : part[s].data = 0 /\ wav[s].data = 0
      /\ (Parts \union Wavs) \ Required # {} => Required \subseteq Parts \union Wavs

\* After the backlog was acknowledged, no meeting is started again.
SettledInv ==
    /\ {} \notin offers
    /\ settled /\ ~deleted =>
          /\ migrated /\ ~recordingMarker /\ ~pendingMarker /\ Parts = {}
          /\ session = "none" /\ rec.stage \notin {"parts", "mark"}
          /\ Required \intersect Wavs # {}

ReplayInv ==
    ~deleted => \A s \in Sources : Unacknowledged(s) =>
          \/ recordingMarker \/ Parts # {}
          \/ (pendingMarker \/ ~migrated) /\ manifest[s].bytes = wav[s].data

JournalIInv ==
    /\ JournalTypeOK /\ ProcInv /\ FileInv /\ SampleInv /\ DiskInv /\ RecoveryInv
    /\ StartInv /\ OpenInv /\ MarkerInv /\ SettledInv /\ ReplayInv

-----------------------------------------------------------------------------
(* The operators on assets.                                                 *)

LEMMA EmptyType == Empty \in Assets /\ Named(Empty) = {}
  BY DEF Empty, Assets, NoAsset, Named

\* Interrupted keeps the names and the sizes of the assets it marks.
LEMMA InterruptedKeeps ==
    ASSUME NEW a \in Assets
    PROVE  /\ Interrupted(a) \in Assets /\ Named(Interrupted(a)) = Named(a)
           /\ \A s \in Named(a) : Interrupted(a)[s].bytes = a[s].bytes
  BY DEF Interrupted, Assets, Asset, Named, NoAsset

\* The asset cache merges newer entries over older ones.
LEMMA MergeType ==
    ASSUME NEW a \in Assets, NEW b \in Assets
    PROVE  Merge(a, b) \in Assets /\ Named(Merge(a, b)) = Named(a) \union Named(b)
  BY DEF Merge, Assets, Named

\* Newer entries that name all older ones replace them.
LEMMA MergeCovers ==
    ASSUME NEW a \in Assets, NEW b \in Assets, Named(b) \subseteq Named(a)
    PROVE  Merge(a, b) = a
<1>1. \A s \in Sources : Merge(a, b)[s] = a[s]
  BY DEF Merge, Assets, Named
<1>. QED  BY <1>1, MergeType DEF Assets, Merge

LEMMA IdentityType ==
    ASSUME NEW a \in Assets
    PROVE  /\ Identity(a) \in SUBSET Ids
           /\ Identity(a) = {} => Named(a) = {}
           /\ Named(a) = {} => Identity(a) = {}
           /\ \A s \in Sources : a[s].bytes >= 0 => <<s, a[s].bytes>> \in Identity(a)
<1>1. \A s \in Named(a) : s \in Sources /\ a[s].bytes \in 0..MaxBytes
  BY DEF Named, Assets, Asset
<1>2. \A s \in Named(a) : <<s, a[s].bytes>> \in Ids
  BY <1>1 DEF Ids
<1>3. \A s \in Sources : a[s].bytes >= 0 => s \in Named(a)
  BY DEF Named, NoAsset
<1>. QED  BY <1>2, <1>3 DEF Identity

\* Only the names and the entries tell whether a manifest is empty.
LEMMA EmptyNames ==
    ASSUME NEW a \in Assets
    PROVE  a = Empty <=> Named(a) = {}
<1>1. ASSUME Named(a) = {} PROVE \A s \in Sources : a[s] = Empty[s]
  BY <1>1 DEF Named, Empty
<1>. QED  BY <1>1, EmptyType DEF Assets, Empty

\* An incomplete sample is all the recovery drops.
LEMMA WholeSamples ==
    ASSUME NEW a \in Nat, NEW b \in Nat, a % 2 = 0, a <= b
    PROVE  a <= b - (b % 2) /\ b - (b % 2) \in 0..b
  OBVIOUS

LEMMA EvenSum ==
    ASSUME NEW a \in Nat, NEW b \in Nat, a % 2 = 0, b % 2 = 0
    PROVE  (a + b) % 2 = 0
  OBVIOUS

\* Merging entries that match their files gives entries that do.
LEMMA MergeMatches ==
    ASSUME NEW a \in Assets, NEW b \in Assets, Matches(a), Matches(b)
    PROVE  Matches(Merge(a, b))
  BY MergeType DEF Matches, Holds, Merge, Named, Assets
-----------------------------------------------------------------------------
(* Every action keeps the invariant: one lemma per action.                  *)

\* What initialize reads is what the recovery then relies on.
LEMMA LaunchInv ==
    ASSUME JournalIInv, Launch
    PROVE  JournalIInv'
<1>. USE JournalAssumption DEF JournalIInv, Launch, JournalTypeOK, ProcInv, File, Asset,
      Assets, Ids, Absent, NoHeader, NoAsset, StillPending, Surface, NoRecovery, files,
      opens, queue, ends, memory, budget, history
<1>1. JournalTypeOK'
  <2>1. pendingMarker' \in BOOLEAN
    OBVIOUS
  <2>2. surfaced' \in SUBSET Ids /\ offers' \in SUBSET SUBSET Ids
    BY IdentityType, SMTT(30)
  <2>3. rec' \in [stage : {"none", "parts", "mark", "migrate"}, parts : SUBSET Sources,
                    listed : SUBSET Sources, assets : Assets]
    <3>1. Parts \in SUBSET Sources /\ Wavs \in SUBSET Sources
      BY DEF Parts, Wavs
    <3>2. CASE ~recordingMarker /\ Parts = {}
      BY <3>2, EmptyType
    <3>3. CASE ~(~recordingMarker /\ Parts = {})
      <4>1. rec' = [stage |-> "parts", parts |-> Parts, listed |-> Wavs,
                    assets |-> Interrupted(manifest)]
        BY <3>3
      <4>. QED  BY <3>1, <4>1, InterruptedKeeps
    <3>. QED  BY <3>2, <3>3
  <2>. QED  BY <2>1, <2>2, <2>3
<1>2. ProcInv'  OBVIOUS
<1>3. FileInv'  BY DEF FileInv
<1>4. SampleInv'  BY DEF SampleInv
<1>5. DiskInv'  BY DEF DiskInv, OnDisk
<1>6. RecoveryInv'
  <2>1. CASE ~recordingMarker /\ Parts = {}
    <3>1. rec'.stage = "migrate" /\ cache' = manifest /\ manifest' = manifest
          /\ part' = part /\ wav' = wav /\ handed' = handed /\ deleted' = deleted
          /\ recordingMarker' = recordingMarker
      BY <2>1
    <3>3. (pendingMarker \/ StillPending) => pendingMarker'
      BY <2>1
    <3>2. \A s \in Sources : ~deleted /\ Unacknowledged(s) =>
            (pendingMarker \/ StillPending) /\ manifest[s].bytes = wav[s].data
      <4>1. SUFFICES ASSUME NEW s \in Sources, ~deleted, Unacknowledged(s)
                     PROVE  (pendingMarker \/ StillPending) /\ manifest[s].bytes = wav[s].data
        OBVIOUS
      <4>2. (pendingMarker \/ ~migrated) /\ manifest[s].bytes = wav[s].data
        BY <2>1, <4>1 DEF ReplayInv
      <4>3. manifest # Empty
        BY <4>1, <4>2 DEF Unacknowledged, Empty
      <4>. QED  BY <4>2, <4>3
    <3>. QED  BY <2>1, <3>1, <3>2, <3>3 DEF RecoveryInv, Parts, Wavs, Unacknowledged
  <2>2. CASE ~(~recordingMarker /\ Parts = {})
    <3>1. /\ rec' = [stage |-> "parts", parts |-> Parts, listed |-> Wavs,
                     assets |-> Interrupted(manifest)]
          /\ cache' = manifest /\ manifest' = manifest /\ part' = part /\ wav' = wav
          /\ deleted' = deleted
      BY <2>2
    <3>2. ~deleted => Matches(Interrupted(manifest))
      BY InterruptedKeeps DEF MarkerInv, Matches, Holds
    <3>. QED  BY <3>1, <3>2, InterruptedKeeps DEF RecoveryInv, Matches, Holds, Named, Parts, Wavs
  <2>. QED  BY <2>1, <2>2
<1>7. StartInv'  BY DEF StartInv, Parts, Wavs
<1>8. OpenInv'  BY DEF OpenInv, Parts, Wavs, Exposed
<1>9. MarkerInv'  BY DEF MarkerInv, Matches, Holds, Named, Parts, Wavs
<1>10. SettledInv'  BY DEF SettledInv, Parts, Wavs
<1>11. ReplayInv'  BY DEF ReplayInv, Unacknowledged, Parts, Wavs
<1>. QED  BY <1>1, <1>2, <1>3, <1>4, <1>5, <1>6, <1>7, <1>8, <1>9, <1>10, <1>11

\* Dropping an incomplete sample drops no resolved audio: frames are whole samples.
LEMMA RecoverPartDataInv ==
    ASSUME JournalIInv, NEW s \in Sources, RecoverPartData(s)
    PROVE  JournalIInv'
<1>. USE JournalAssumption DEF JournalIInv, RecoverPartData, JournalTypeOK, ProcInv,
      File, Asset, Assets, Ids, Absent, NoHeader, NoAsset, BytesPerSample, files, opens,
      queue, ends, memory, budget, history
<1>1. JournalTypeOK'  BY SMTT(30)
<1>2. ProcInv'  OBVIOUS
<1>3. FileInv'  BY DEF FileInv
<1>4. SampleInv'  BY DEF SampleInv
<1>5. DiskInv'  BY WholeSamples DEF DiskInv, OnDisk, SampleInv
<1>6. RecoveryInv'
  BY DEF RecoveryInv, Matches, Holds, Named, Parts, Wavs,
    Unacknowledged
<1>7. StartInv'  BY DEF StartInv, Parts, Wavs
<1>8. OpenInv'  BY DEF OpenInv, Parts, Wavs, Exposed
<1>9. MarkerInv'
  BY DEF MarkerInv, Matches, Holds, Named, Parts, Wavs, RecoveryInv,
    Unacknowledged
<1>10. SettledInv'  BY DEF SettledInv, Parts, Wavs
<1>11. ReplayInv'  BY DEF ReplayInv, Unacknowledged, Parts, Wavs
<1>. QED  BY <1>1, <1>2, <1>3, <1>4, <1>5, <1>6, <1>7, <1>8, <1>9, <1>10, <1>11

\* The source has no WAV, so the part becomes one.
LEMMA RecoverPartInv ==
    ASSUME JournalIInv, NEW s \in Sources, RecoverPart(s)
    PROVE  JournalIInv'
<1>. USE JournalAssumption DEF JournalIInv, RecoverPart, JournalTypeOK, ProcInv, File,
      Asset, Assets, Ids, Absent, NoHeader, NoAsset, BytesPerSample, files, opens,
      queue, ends, memory, budget, history
<1>a. rec.stage = "parts" /\ s \in Parts /\ part[s] # Absent /\ wav[s] = Absent
      /\ part[s].data \in 0..MaxBytes
  BY DEF RecoveryInv, FileInv, Parts
<1>b. /\ part' = [part EXCEPT ![s] = Absent] /\ wav' = [wav EXCEPT ![s] = part[s]]
      /\ rec' = [rec EXCEPT !.parts = @ \ {s}, !.assets =
                   [@ EXCEPT ![s] = [bytes |-> part[s].data, status |-> "interrupted"]]]
  BY <1>a
<1>c. Parts' = Parts \ {s} /\ Wavs' = Wavs \union {s} /\ s \notin Wavs
  BY <1>a, <1>b DEF Parts, Wavs
<1>1. JournalTypeOK'
  <2>1. part' \in [Sources -> File] /\ wav' \in [Sources -> File]
    BY <1>b
  <2>2. [rec.assets EXCEPT ![s] = [bytes |-> part[s].data, status |-> "interrupted"]] \in Assets
    BY <1>a
  <2>3. rec' \in [stage : {"none", "parts", "mark", "migrate"}, parts : SUBSET Sources,
                    listed : SUBSET Sources, assets : Assets]
    BY <1>b, <2>2
  <2>. QED  BY <2>1, <2>3
<1>2. ProcInv'  BY ZenonT(40)
<1>3. FileInv'  BY SMTT(30) DEF FileInv
<1>4. SampleInv'  BY DEF SampleInv
<1>5. DiskInv'
  BY DEF DiskInv, OnDisk, FileInv, RecoveryInv, Matches, Holds, Named,
    Parts, Wavs, Unacknowledged
<1>6. RecoveryInv'
  <2>1. rec'.stage = "parts" /\ rec'.parts = Parts' /\ rec'.listed \subseteq Wavs'
    BY <1>a, <1>b, <1>c DEF RecoveryInv
  <2>2. rec'.assets = [rec.assets EXCEPT ![s] = [bytes |-> part[s].data, status |-> "interrupted"]]
    BY <1>b
  <2>3. Named(rec'.assets) = Named(rec.assets) \union {s}
    BY <2>2 DEF Named
  <2>4. ~deleted => Matches(rec.assets)'
    BY <1>a, <1>b, <1>c, <2>2, <2>3 DEF Matches, Holds, RecoveryInv, Wavs, Named
  <2>5. ~deleted => Named(cache)' \subseteq Named(rec.assets)' 
                    /\ Wavs' \subseteq rec'.listed \union Named(rec.assets)'
    BY <1>a, <1>b, <1>c, <2>3 DEF RecoveryInv
  <2>. QED  BY <1>a, <2>1, <2>4, <2>5 DEF RecoveryInv
<1>7. StartInv'  BY DEF StartInv, Parts, Wavs
<1>8. OpenInv'  BY DEF OpenInv, Parts, Wavs, Exposed
<1>9. MarkerInv'
  <2>1. Parts' \union Wavs' = Parts \union Wavs /\ Parts # {}
    BY <1>a, <1>c
  <2>2. ~deleted => Matches(manifest)' /\ Matches(cache)'
    BY <1>a, <1>b DEF MarkerInv, Matches, Holds, Named
  <2>3. ~deleted /\ ~recordingMarker =>
          \A t \in Sources : part'[t].data = 0 /\ wav'[t].data = 0
    BY <1>a, <1>b, <2>1 DEF MarkerInv
  <2>. QED  BY <1>a, <2>1, <2>2, <2>3 DEF MarkerInv
<1>10. SettledInv'  BY DEF SettledInv, Parts, Wavs
<1>11. ReplayInv'
  BY DEF ReplayInv, Unacknowledged, Parts, Wavs, FileInv, RecoveryInv,
    Matches, Holds, Named, MarkerInv
<1>. QED  BY <1>1, <1>2, <1>3, <1>4, <1>5, <1>6, <1>7, <1>8, <1>9, <1>10, <1>11

\* Every listed WAV is readable, and the new manifest names all of them.
LEMMA RecoverManifestInv ==
    ASSUME JournalIInv, RecoverManifest
    PROVE  JournalIInv'
<1>. USE JournalAssumption DEF JournalIInv, RecoverManifest, JournalTypeOK, ProcInv,
      File, Asset, Assets, Ids, Absent, NoHeader, NoAsset, files, opens, queue, ends,
      memory, budget, history
<1>. DEFINE missing == rec.listed \ Named(rec.assets)
            assets == [t \in Sources |-> IF t \in missing
                          THEN [bytes |-> wav[t].data, status |-> "interrupted"]
                          ELSE rec.assets[t]]
<1>a. rec.stage = "parts" /\ Parts = {}
  BY DEF RecoveryInv
<1>b. \A t \in missing : t \in Sources /\ wav[t] # Absent /\ wav[t].data \in 0..MaxBytes
                        /\ wav[t].hdr = wav[t].data
  BY DEF RecoveryInv, FileInv, Wavs
<1>c. proc' = proc /\ manifest' = assets /\ rec' = [rec EXCEPT !.stage = "mark", !.assets = assets]
  BY <1>b, ZenonT(40)
<1>d. assets \in Assets
  BY <1>b
<1>e. Named(assets) = Named(rec.assets) \union missing
  BY <1>b DEF Named
<1>f. ~deleted => Matches(assets)
  BY <1>b, <1>e DEF Matches, Holds, RecoveryInv, Named
<1>. HIDE DEF assets, missing
<1>1. JournalTypeOK'
  <2>1. rec' \in [stage : {"none", "parts", "mark", "migrate"}, parts : SUBSET Sources,
                    listed : SUBSET Sources, assets : Assets]
    BY <1>c, <1>d
  <2>. QED  BY <1>c, <1>d, <2>1
<1>2. ProcInv'
  BY <1>a, <1>c
<1>3. FileInv'  BY DEF FileInv
<1>4. SampleInv'  BY DEF SampleInv
<1>5. DiskInv'  BY DEF DiskInv, OnDisk
<1>6. RecoveryInv'
  <2>1. rec'.stage = "mark" /\ rec'.assets = assets /\ Parts' = {} /\ Wavs' = Wavs
    BY <1>a, <1>c DEF Parts, Wavs
  <2>2. ~deleted => Named(cache)' \subseteq Named(rec'.assets) /\ Wavs \subseteq Named(rec'.assets)
    BY <1>a, <1>e, <2>1 DEF RecoveryInv, missing
  <2>3. ~deleted => Matches(rec.assets)'
    BY <1>f, <2>1 DEF Matches, Holds
  <2>. QED  BY <1>c, <2>1, <2>2, <2>3 DEF RecoveryInv
<1>7. StartInv'  BY DEF StartInv, Parts, Wavs
<1>8. OpenInv'  BY DEF OpenInv, Parts, Wavs, Exposed
<1>9. MarkerInv'
  <2>1. ~deleted => Matches(manifest)'
    BY <1>c, <1>f DEF Matches, Holds
  <2>. QED  BY <1>a, <1>c, <2>1 DEF MarkerInv, Matches, Holds, Parts, Wavs
<1>10. SettledInv'  BY DEF SettledInv, Parts, Wavs
<1>11. ReplayInv'
  <2>1. SUFFICES ASSUME ~deleted, NEW s \in Sources, Unacknowledged(s), ~recordingMarker
                 PROVE  (pendingMarker \/ ~migrated) /\ assets[s].bytes = wav[s].data
    BY <1>c DEF ReplayInv, Unacknowledged, Parts
  <2>2. (pendingMarker \/ ~migrated) /\ manifest[s].bytes = wav[s].data /\ wav[s].data \in Nat
    BY <1>a, <2>1 DEF ReplayInv, Unacknowledged
  <2>3. s \in Named(manifest)
    BY <2>2 DEF Named
  <2>4. s \in Named(rec.assets)
    BY <1>a, <2>3, <2>1 DEF RecoveryInv
  <2>. QED  BY <1>f, <1>e, <2>1, <2>2, <2>4 DEF Matches, Holds
<1>. QED  BY <1>1, <1>2, <1>3, <1>4, <1>5, <1>6, <1>7, <1>8, <1>9, <1>10, <1>11

\* The manifest covers the cache, so the two agree from here on.
LEMMA RecoverMarkInv ==
    ASSUME JournalIInv, RecoverMark
    PROVE  JournalIInv'
<1>. USE JournalAssumption DEF JournalIInv, RecoverMark, JournalTypeOK, ProcInv, File,
      Asset, Assets, Ids, Absent, NoHeader, NoAsset, Surface, NoRecovery, files, opens,
      queue, ends, memory, budget, history
<1>a. ~deleted => Merge(rec.assets, cache) = rec.assets
  BY MergeCovers DEF RecoveryInv
<1>1. JournalTypeOK'
  <2>1. rec' \in [stage : {"none", "parts", "mark", "migrate"}, parts : SUBSET Sources,
                    listed : SUBSET Sources, assets : Assets]
    BY EmptyType
  <2>2. cache' \in Assets /\ surfaced' \in SUBSET Ids /\ offers' \in SUBSET SUBSET Ids
    BY MergeType, IdentityType
  <2>. QED  BY <2>1, <2>2
<1>2. ProcInv'  OBVIOUS
<1>3. FileInv'  BY DEF FileInv
<1>4. SampleInv'  BY DEF SampleInv
<1>5. DiskInv'  BY DEF DiskInv, OnDisk
<1>6. RecoveryInv'
  BY <1>a DEF RecoveryInv, Matches, Holds, Named, Parts, Wavs,
    Unacknowledged
<1>7. StartInv'  BY DEF StartInv, Parts, Wavs
<1>8. OpenInv'  BY DEF OpenInv, Parts, Wavs, Exposed
<1>9. MarkerInv'
  BY <1>a DEF MarkerInv, Matches, Holds, Named, Parts, Wavs,
    RecoveryInv, Unacknowledged
<1>10. SettledInv'  BY IdentityType DEF SettledInv, Parts, Wavs
<1>11. ReplayInv'
  BY DEF ReplayInv, Unacknowledged, Parts, Wavs, RecoveryInv, Matches,
    Holds, Named
<1>. QED  BY <1>1, <1>2, <1>3, <1>4, <1>5, <1>6, <1>7, <1>8, <1>9, <1>10, <1>11

\* The migration ends only after what is pending was marked.
LEMMA RecoverDoneInv ==
    ASSUME JournalIInv, RecoverDone
    PROVE  JournalIInv'
<1>. USE JournalAssumption DEF JournalIInv, RecoverDone, JournalTypeOK, ProcInv, File,
      Asset, Assets, Ids, Absent, NoHeader, NoAsset, NoRecovery, files, opens, queue,
      ends, memory, budget, history
<1>1. JournalTypeOK'
  <2>1. rec' \in [stage : {"none", "parts", "mark", "migrate"}, parts : SUBSET Sources,
                    listed : SUBSET Sources, assets : Assets]
    BY EmptyType
  <2>. QED  BY <2>1, EmptyType
<1>2. ProcInv'  OBVIOUS
<1>3. FileInv'  BY DEF FileInv
<1>4. SampleInv'  BY DEF SampleInv
<1>5. DiskInv'  BY DEF DiskInv, OnDisk
<1>6. RecoveryInv'
  BY DEF RecoveryInv, Matches, Holds, Named, Parts, Wavs,
    Unacknowledged
<1>7. StartInv'  BY DEF StartInv, Parts, Wavs
<1>8. OpenInv'  BY DEF OpenInv, Parts, Wavs, Exposed
<1>9. MarkerInv'
  BY DEF MarkerInv, Matches, Holds, Named, Parts, Wavs, RecoveryInv,
    Unacknowledged
<1>10. SettledInv'  BY DEF SettledInv, Parts, Wavs
<1>11. ReplayInv'
  BY DEF ReplayInv, Unacknowledged, Parts, Wavs, RecoveryInv, Matches,
    Holds, Named
<1>. QED  BY <1>1, <1>2, <1>3, <1>4, <1>5, <1>6, <1>7, <1>8, <1>9, <1>10, <1>11

\* A start finds no WAV at all: with one, the required sources would have files too.
LEMMA StartMeetingInv ==
    ASSUME JournalIInv, NEW S \in SUBSET Sources, StartMeeting(S), Required \subseteq S
    PROVE  JournalIInv'
<1>. USE JournalAssumption DEF JournalIInv, StartMeeting, JournalTypeOK, ProcInv, File,
      Asset, Assets, Ids, Absent, NoHeader, NoAsset, NotYetSealed, files, opens, queue,
      ends, memory, budget, history
<1>a. Wavs = {}
  BY DEF MarkerInv, Parts, Wavs
<1>1. JournalTypeOK'  OBVIOUS
<1>2. ProcInv'  OBVIOUS
<1>3. FileInv'  BY DEF FileInv
<1>4. SampleInv'  BY DEF SampleInv
<1>5. DiskInv'  BY DEF DiskInv, OnDisk
<1>6. RecoveryInv'
  BY DEF RecoveryInv, Matches, Holds, Named, Parts, Wavs,
    Unacknowledged
<1>7. StartInv'  BY <1>a DEF StartInv, Parts, Wavs, MarkerInv, Matches, Holds, Named
<1>8. OpenInv'  BY DEF OpenInv, Parts, Wavs, Exposed
<1>9. MarkerInv'  BY DEF MarkerInv, Matches, Holds, Named, Parts, Wavs
<1>10. SettledInv'  BY DEF SettledInv, Parts, Wavs
<1>11. ReplayInv'  BY DEF ReplayInv, Unacknowledged, Parts, Wavs
<1>. QED  BY <1>1, <1>2, <1>3, <1>4, <1>5, <1>6, <1>7, <1>8, <1>9, <1>10, <1>11

\* The optional source comes last, when all required ones have parts.
LEMMA StartPartInv ==
    ASSUME JournalIInv, NEW s \in Sources, StartPart(s)
    PROVE  JournalIInv'
<1>. USE JournalAssumption DEF JournalIInv, StartPart, JournalTypeOK, ProcInv, File,
      Asset, Assets, Ids, Absent, NoHeader, NoAsset, NextToOpen, files, opens, queue,
      ends, memory, budget, history
<1>1. JournalTypeOK'  OBVIOUS
<1>2. ProcInv'  OBVIOUS
<1>3. FileInv'  BY DEF FileInv, StartInv, Parts, Wavs
<1>4. SampleInv'  BY DEF SampleInv
<1>5. DiskInv'  BY DEF DiskInv, OnDisk
<1>6. RecoveryInv'
  BY DEF RecoveryInv, Matches, Holds, Named, Parts, Wavs,
    Unacknowledged
<1>7. StartInv'  BY SMTT(30) DEF StartInv, Parts, Wavs, DiskInv, OnDisk
<1>8. OpenInv'  BY DEF OpenInv, Parts, Wavs, Exposed
<1>9. MarkerInv'  BY DEF MarkerInv, Matches, Holds, Named, Parts, Wavs, StartInv
<1>10. SettledInv'  BY DEF SettledInv, Parts, Wavs
<1>11. ReplayInv'  BY DEF ReplayInv, Unacknowledged, Parts, Wavs
<1>. QED  BY <1>1, <1>2, <1>3, <1>4, <1>5, <1>6, <1>7, <1>8, <1>9, <1>10, <1>11

\* The part stays empty.
LEMMA StartHeaderInv ==
    ASSUME JournalIInv, NEW s \in Sources, StartHeader(s)
    PROVE  JournalIInv'
<1>. USE JournalAssumption DEF JournalIInv, StartHeader, JournalTypeOK, ProcInv, File,
      Asset, Assets, Ids, Absent, NoHeader, NoAsset, files, opens, queue, ends, memory,
      budget, history
<1>1. JournalTypeOK'  OBVIOUS
<1>2. ProcInv'  OBVIOUS
<1>3. FileInv'  BY DEF FileInv
<1>4. SampleInv'  BY DEF SampleInv
<1>5. DiskInv'  BY DEF DiskInv, OnDisk
<1>6. RecoveryInv'
  BY DEF RecoveryInv, Matches, Holds, Named, Parts, Wavs,
    Unacknowledged
<1>7. StartInv'  BY DEF StartInv, Parts, Wavs
<1>8. OpenInv'  BY DEF OpenInv, Parts, Wavs, Exposed
<1>9. MarkerInv'  BY DEF MarkerInv, Matches, Holds, Named, Parts, Wavs
<1>10. SettledInv'  BY DEF SettledInv, Parts, Wavs
<1>11. ReplayInv'  BY DEF ReplayInv, Unacknowledged, Parts, Wavs
<1>. QED  BY <1>1, <1>2, <1>3, <1>4, <1>5, <1>6, <1>7, <1>8, <1>9, <1>10, <1>11

\* The parts of the directory are those of the open sources.
LEMMA StartDoneInv ==
    ASSUME JournalIInv, StartDone
    PROVE  JournalIInv'
<1>. USE JournalAssumption DEF JournalIInv, StartDone, JournalTypeOK, ProcInv, File,
      Asset, Assets, Ids, Absent, NoHeader, NoAsset, files, opens, queue, ends, memory,
      budget, history
<1>1. JournalTypeOK'  OBVIOUS
<1>2. ProcInv'  OBVIOUS
<1>3. FileInv'  BY DEF FileInv
<1>4. SampleInv'  BY DEF SampleInv
<1>5. DiskInv'  BY DEF DiskInv, OnDisk
<1>6. RecoveryInv'
  BY DEF RecoveryInv, Matches, Holds, Named, Parts, Wavs,
    Unacknowledged
<1>7. StartInv'  BY DEF StartInv, Parts, Wavs
<1>8. OpenInv'  BY DEF OpenInv, Parts, Wavs, Exposed, StartInv
<1>9. MarkerInv'  BY DEF MarkerInv, Matches, Holds, Named, Parts, Wavs
<1>10. SettledInv'  BY DEF SettledInv, Parts, Wavs
<1>11. ReplayInv'  BY DEF ReplayInv, Unacknowledged, Parts, Wavs
<1>. QED  BY <1>1, <1>2, <1>3, <1>4, <1>5, <1>6, <1>7, <1>8, <1>9, <1>10, <1>11

\* What is left are parts of required sources, without data.
LEMMA StartFailedInv ==
    ASSUME JournalIInv, NEW s \in Sources, StartFailed(s)
    PROVE  JournalIInv'
<1>. USE JournalAssumption DEF JournalIInv, StartFailed, JournalTypeOK, ProcInv, File,
      Asset, Assets, Ids, Absent, NoHeader, NoAsset, NextToOpen, files, opens, queue,
      ends, memory, budget, history
<1>a. s \in todo
  BY DEF NextToOpen
<1>b. ~deleted => Parts' \subseteq Required
  BY <1>a DEF StartInv, Parts
<1>c. ~deleted => Parts' \subseteq Parts /\ Wavs' = Wavs
  BY DEF StartInv, Parts, Wavs
<1>1. JournalTypeOK'  OBVIOUS
<1>2. ProcInv'  OBVIOUS
<1>3. FileInv'  BY DEF FileInv
<1>4. SampleInv'  BY DEF SampleInv
<1>5. DiskInv'  BY DEF DiskInv, OnDisk, StartInv, Parts, Wavs
<1>6. RecoveryInv'
  BY DEF RecoveryInv, Matches, Holds, Named, Parts, Wavs,
    Unacknowledged
<1>7. StartInv'  BY <1>b DEF StartInv, Parts, Wavs
<1>8. OpenInv'  BY DEF OpenInv, Parts, Wavs, Exposed
<1>9. MarkerInv'
  BY <1>b, <1>c DEF MarkerInv, Matches, Holds, Named, Parts, Wavs,
    StartInv
<1>10. SettledInv'  BY DEF SettledInv, Parts, Wavs
<1>11. ReplayInv'
  BY DEF ReplayInv, Unacknowledged, Parts, Wavs, StartInv, MarkerInv,
    Matches, Holds, Named
<1>. QED  BY <1>1, <1>2, <1>3, <1>4, <1>5, <1>6, <1>7, <1>8, <1>9, <1>10, <1>11

\* A part that is removed, or left behind, is empty.
LEMMA StartCleanupPartInv ==
    ASSUME JournalIInv, NEW s \in Sources, StartCleanupPart(s)
    PROVE  JournalIInv'
<1>. USE JournalAssumption DEF JournalIInv, StartCleanupPart, JournalTypeOK, ProcInv,
      File, Asset, Assets, Ids, Absent, NoHeader, NoAsset, files, opens, queue, ends,
      memory, budget, history
<1>a. part' \in {part, [part EXCEPT ![s] = Absent]}
  OBVIOUS
<1>b. Parts' \subseteq Parts /\ Wavs' = Wavs
  BY <1>a DEF Parts, Wavs
<1>1. JournalTypeOK'  OBVIOUS
<1>2. ProcInv'  OBVIOUS
<1>3. FileInv'  BY DEF FileInv
<1>4. SampleInv'  BY DEF SampleInv
<1>5. DiskInv'  BY DEF DiskInv, OnDisk, StartInv, Parts, Wavs
<1>6. RecoveryInv'
  BY DEF RecoveryInv, Matches, Holds, Named, Parts, Wavs,
    Unacknowledged
<1>7. StartInv'  BY <1>a, <1>b DEF StartInv, Parts, Wavs
<1>8. OpenInv'  BY DEF OpenInv, Parts, Wavs, Exposed
<1>9. MarkerInv'  BY <1>b DEF MarkerInv, Matches, Holds, Named, Parts, Wavs, StartInv
<1>10. SettledInv'  BY DEF SettledInv, Parts, Wavs
<1>11. ReplayInv'
  BY DEF ReplayInv, Unacknowledged, Parts, Wavs, StartInv, MarkerInv,
    Matches, Holds, Named
<1>. QED  BY <1>1, <1>2, <1>3, <1>4, <1>5, <1>6, <1>7, <1>8, <1>9, <1>10, <1>11

\* The marker may go: what is left holds no data.
LEMMA StartCleanupMarkerInv ==
    ASSUME JournalIInv, StartCleanupMarker
    PROVE  JournalIInv'
<1>. USE JournalAssumption DEF JournalIInv, StartCleanupMarker, JournalTypeOK, ProcInv,
      File, Asset, Assets, Ids, Absent, NoHeader, NoAsset, files, opens, queue, ends,
      memory, budget, history
<1>1. JournalTypeOK'  OBVIOUS
<1>2. ProcInv'  OBVIOUS
<1>3. FileInv'  BY DEF FileInv
<1>4. SampleInv'  BY DEF SampleInv
<1>5. DiskInv'  BY DEF DiskInv, OnDisk
<1>6. RecoveryInv'
  BY DEF RecoveryInv, Matches, Holds, Named, Parts, Wavs,
    Unacknowledged
<1>7. StartInv'  BY DEF StartInv, Parts, Wavs
<1>8. OpenInv'  BY DEF OpenInv, Parts, Wavs, Exposed
<1>9. MarkerInv'  BY DEF MarkerInv, Matches, Holds, Named, Parts, Wavs, StartInv
<1>10. SettledInv'  BY DEF SettledInv, Parts, Wavs
<1>11. ReplayInv'  BY DEF ReplayInv, Unacknowledged, Parts, Wavs, StartInv
<1>. QED  BY <1>1, <1>2, <1>3, <1>4, <1>5, <1>6, <1>7, <1>8, <1>9, <1>10, <1>11

\* Positions advance by whole samples.
LEMMA AppendFrameInv ==
    ASSUME JournalIInv, NEW F \in SUBSET Sources, NEW n \in FrameBytes, AppendFrame(F, n)
    PROVE  JournalIInv'
<1>. USE JournalAssumption DEF JournalIInv, AppendFrame, JournalTypeOK, ProcInv, File,
      Asset, Assets, Ids, Absent, NoHeader, NoAsset, Fits, BytesPerSample, files, opens,
      queue, ends, memory, budget, history
<1>1. JournalTypeOK'  OBVIOUS
<1>2. ProcInv'  OBVIOUS
<1>3. FileInv'  BY DEF FileInv
<1>4. SampleInv'
  <2>1. n \in Nat /\ n % 2 = 0
    OBVIOUS
  <2>2. \A s \in Sources : (position[s] + n) % 2 = 0 /\ position[s] + n >= position[s]
    <3>1. SUFFICES ASSUME NEW s \in Sources
                   PROVE  (position[s] + n) % 2 = 0 /\ position[s] + n >= position[s]
      OBVIOUS
    <3>2. position[s] \in Nat /\ position[s] % 2 = 0
      BY DEF SampleInv
    <3>. QED  BY ONLY <2>1, <3>2, EvenSum
  <2>3. PICK B \in SUBSET Sources :
          /\ position' = [s \in Sources |-> IF s \in B THEN position[s] + n ELSE position[s]]
          /\ frames' = IF B = F
                       THEN frames \union {[s \in Sources |-> IF s \in F THEN position'[s] ELSE 0]}
                       ELSE frames
    OBVIOUS
  <2>4. \A s \in Sources : position'[s] % 2 = 0 /\ written'[s] <= position'[s]
    <3>1. SUFFICES ASSUME NEW s \in Sources
                   PROVE  position'[s] % 2 = 0 /\ written'[s] <= position'[s]
      OBVIOUS
    <3>2. position'[s] \in {position[s], position[s] + n}
      BY <2>3
    <3>3. /\ written'[s] = written[s] /\ written[s] <= position[s] /\ written[s] \in Nat
          /\ position[s] \in Nat /\ position[s] % 2 = 0
      BY DEF SampleInv
    <3>4. (position[s] + n) % 2 = 0
      BY <2>2
    <3>. QED  BY ONLY <2>1, <3>2, <3>3, <3>4
  <2>5. \A f \in frames' : \A s \in Sources : f[s] % 2 = 0
    BY <2>3, <2>4 DEF SampleInv
  <2>. QED  BY <2>4, <2>5 DEF SampleInv
<1>5. DiskInv'  BY DEF DiskInv, OnDisk
<1>6. RecoveryInv'
  BY DEF RecoveryInv, Matches, Holds, Named, Parts, Wavs,
    Unacknowledged
<1>7. StartInv'  BY DEF StartInv, Parts, Wavs
<1>8. OpenInv'  BY DEF OpenInv, Parts, Wavs, Exposed
<1>9. MarkerInv'  BY DEF MarkerInv, Matches, Holds, Named, Parts, Wavs
<1>10. SettledInv'  BY DEF SettledInv, Parts, Wavs
<1>11. ReplayInv'  BY DEF ReplayInv, Unacknowledged, Parts, Wavs
<1>. QED  BY <1>1, <1>2, <1>3, <1>4, <1>5, <1>6, <1>7, <1>8, <1>9, <1>10, <1>11

\* A write only extends the part of its source.
LEMMA WriteInv ==
    ASSUME JournalIInv, NEW s \in Sources, Write(s)
    PROVE  JournalIInv'
<1>. USE JournalAssumption DEF JournalIInv, Write, JournalTypeOK, ProcInv, File, Asset,
      Assets, Ids, Absent, NoHeader, NoAsset, Writing, files, opens, queue, ends,
      memory, budget, history
<1>1. JournalTypeOK'  BY SMTT(30)
<1>2. ProcInv'  OBVIOUS
<1>3. FileInv'  BY DEF FileInv
<1>4. SampleInv'  BY DEF SampleInv
<1>5. DiskInv'  BY DEF DiskInv, OnDisk, OpenInv, Parts, Wavs, Exposed, SampleInv
<1>6. RecoveryInv'
  BY DEF RecoveryInv, Matches, Holds, Named, Parts, Wavs,
    Unacknowledged
<1>7. StartInv'  BY DEF StartInv, Parts, Wavs
<1>8. OpenInv'  BY DEF OpenInv, Parts, Wavs, Exposed
<1>9. MarkerInv'  BY DEF MarkerInv, Matches, Holds, Named, Parts, Wavs
<1>10. SettledInv'  BY DEF SettledInv, Parts, Wavs
<1>11. ReplayInv'  BY DEF ReplayInv, Unacknowledged, Parts, Wavs
<1>. QED  BY <1>1, <1>2, <1>3, <1>4, <1>5, <1>6, <1>7, <1>8, <1>9, <1>10, <1>11

\* A failed write leaves the files alone.
LEMMA WriteFailsInv ==
    ASSUME JournalIInv, NEW s \in Sources, WriteFails(s)
    PROVE  JournalIInv'
<1>. USE JournalAssumption DEF JournalIInv, WriteFails, JournalTypeOK, ProcInv, File,
      Asset, Assets, Ids, Absent, NoHeader, NoAsset, Writing, files, opens, queue, ends,
      memory, budget, history
<1>1. JournalTypeOK'  OBVIOUS
<1>2. ProcInv'  OBVIOUS
<1>3. FileInv'  BY DEF FileInv
<1>4. SampleInv'  BY DEF SampleInv
<1>5. DiskInv'  BY DEF DiskInv, OnDisk
<1>6. RecoveryInv'
  BY DEF RecoveryInv, Matches, Holds, Named, Parts, Wavs,
    Unacknowledged
<1>7. StartInv'  BY DEF StartInv, Parts, Wavs
<1>8. OpenInv'  BY DEF OpenInv, Parts, Wavs, Exposed
<1>9. MarkerInv'  BY DEF MarkerInv, Matches, Holds, Named, Parts, Wavs
<1>10. SettledInv'  BY DEF SettledInv, Parts, Wavs
<1>11. ReplayInv'  BY DEF ReplayInv, Unacknowledged, Parts, Wavs
<1>. QED  BY <1>1, <1>2, <1>3, <1>4, <1>5, <1>6, <1>7, <1>8, <1>9, <1>10, <1>11

\* A frame resolves only when its bytes are written.
LEMMA AppendSettlesInv ==
    ASSUME JournalIInv, NEW f \in frames, AppendSettles(f)
    PROVE  JournalIInv'
<1>. USE JournalAssumption DEF JournalIInv, AppendSettles, JournalTypeOK, ProcInv, File,
      Asset, Assets, Ids, Absent, NoHeader, NoAsset, AllWritten, files, opens, queue,
      ends, memory, budget, history
<1>1. JournalTypeOK'  OBVIOUS
<1>2. ProcInv'  OBVIOUS
<1>3. FileInv'  BY DEF FileInv
<1>4. SampleInv'  BY ZenonT(40) DEF SampleInv
<1>5. DiskInv'  BY SMTT(30) DEF DiskInv, OnDisk
<1>6. RecoveryInv'
  BY DEF RecoveryInv, Matches, Holds, Named, Parts, Wavs,
    Unacknowledged
<1>7. StartInv'  BY DEF StartInv, Parts, Wavs
<1>8. OpenInv'  BY DEF OpenInv, Parts, Wavs, Exposed
<1>9. MarkerInv'  BY DEF MarkerInv, Matches, Holds, Named, Parts, Wavs
<1>10. SettledInv'  BY DEF SettledInv, Parts, Wavs
<1>11. ReplayInv'  BY DEF ReplayInv, Unacknowledged, Parts, Wavs
<1>. QED  BY <1>1, <1>2, <1>3, <1>4, <1>5, <1>6, <1>7, <1>8, <1>9, <1>10, <1>11

\* Nothing is sealed yet.
LEMMA FinalizeMeetingInv ==
    ASSUME JournalIInv, NEW status \in {"finalized", "interrupted"}, FinalizeMeeting(status)
    PROVE  JournalIInv'
<1>. USE JournalAssumption DEF JournalIInv, FinalizeMeeting, JournalTypeOK, ProcInv,
      File, Asset, Assets, Ids, Absent, NoHeader, NoAsset, files, opens, queue, ends,
      memory, budget, history
<1>1. JournalTypeOK'  OBVIOUS
<1>2. ProcInv'  OBVIOUS
<1>3. FileInv'  BY DEF FileInv
<1>4. SampleInv'  BY DEF SampleInv
<1>5. DiskInv'  BY DEF DiskInv, OnDisk
<1>6. RecoveryInv'
  BY DEF RecoveryInv, Matches, Holds, Named, Parts, Wavs,
    Unacknowledged
<1>7. StartInv'  BY DEF StartInv, Parts, Wavs
<1>8. OpenInv'  BY DEF OpenInv, Parts, Wavs, Exposed
<1>9. MarkerInv'  BY DEF MarkerInv, Matches, Holds, Named, Parts, Wavs
<1>10. SettledInv'  BY DEF SettledInv, Parts, Wavs
<1>11. ReplayInv'  BY DEF ReplayInv, Unacknowledged, Parts, Wavs
<1>. QED  BY <1>1, <1>2, <1>3, <1>4, <1>5, <1>6, <1>7, <1>8, <1>9, <1>10, <1>11

\* The queue is drained: the header claims the bytes there are.
LEMMA FinalizeHeaderInv ==
    ASSUME JournalIInv, NEW s \in Sources, FinalizeHeader(s)
    PROVE  JournalIInv'
<1>. USE JournalAssumption DEF JournalIInv, FinalizeHeader, JournalTypeOK, ProcInv,
      File, Asset, Assets, Ids, Absent, NoHeader, NoAsset, SealedHeader, files, opens,
      queue, ends, memory, budget, history
<1>1. JournalTypeOK'  OBVIOUS
<1>2. ProcInv'  OBVIOUS
<1>3. FileInv'  BY DEF FileInv
<1>4. SampleInv'  BY DEF SampleInv
<1>5. DiskInv'  BY DEF DiskInv, OnDisk
<1>6. RecoveryInv'
  BY DEF RecoveryInv, Matches, Holds, Named, Parts, Wavs,
    Unacknowledged
<1>7. StartInv'  BY DEF StartInv, Parts, Wavs
<1>8. OpenInv'  BY DEF OpenInv, Parts, Wavs, Exposed
<1>9. MarkerInv'  BY DEF MarkerInv, Matches, Holds, Named, Parts, Wavs
<1>10. SettledInv'  BY DEF SettledInv, Parts, Wavs
<1>11. ReplayInv'  BY DEF ReplayInv, Unacknowledged, Parts, Wavs
<1>. QED  BY <1>1, <1>2, <1>3, <1>4, <1>5, <1>6, <1>7, <1>8, <1>9, <1>10, <1>11

\* The renamed part has a true header.
LEMMA FinalizeRenameInv ==
    ASSUME JournalIInv, NEW s \in Sources, FinalizeRename(s)
    PROVE  JournalIInv'
<1>. USE JournalAssumption DEF JournalIInv, FinalizeRename, JournalTypeOK, ProcInv,
      File, Asset, Assets, Ids, Absent, NoHeader, NoAsset, files, opens, queue, ends,
      memory, budget, history
<1>1. JournalTypeOK'  OBVIOUS
<1>2. ProcInv'  OBVIOUS
<1>3. FileInv'  BY DEF FileInv, OpenInv, Parts, Wavs, Exposed
<1>4. SampleInv'  BY DEF SampleInv
<1>5. DiskInv'  BY DEF DiskInv, OnDisk, FileInv, OpenInv, Parts, Wavs, Exposed
<1>6. RecoveryInv'
  BY DEF RecoveryInv, Matches, Holds, Named, Parts, Wavs,
    Unacknowledged
<1>7. StartInv'  BY DEF StartInv, Parts, Wavs
<1>8. OpenInv'  BY DEF OpenInv, Parts, Wavs, Exposed
<1>9. MarkerInv'
  BY DEF MarkerInv, Matches, Holds, Named, Parts, Wavs, FileInv,
    OpenInv, Exposed
<1>10. SettledInv'  BY DEF SettledInv, Parts, Wavs
<1>11. ReplayInv'
  BY DEF ReplayInv, Unacknowledged, Parts, Wavs, MarkerInv, Matches,
    Holds, Named
<1>. QED  BY <1>1, <1>2, <1>3, <1>4, <1>5, <1>6, <1>7, <1>8, <1>9, <1>10, <1>11

\* A source that cannot be sealed keeps its part.
LEMMA FinalizeAssetFailsInv ==
    ASSUME JournalIInv, NEW s \in Sources, FinalizeAssetFails(s)
    PROVE  JournalIInv'
<1>. USE JournalAssumption DEF JournalIInv, FinalizeAssetFails, JournalTypeOK, ProcInv,
      File, Asset, Assets, Ids, Absent, NoHeader, NoAsset, files, opens, queue, ends,
      memory, budget, history
<1>1. JournalTypeOK'  OBVIOUS
<1>2. ProcInv'  OBVIOUS
<1>3. FileInv'  BY DEF FileInv
<1>4. SampleInv'  BY DEF SampleInv
<1>5. DiskInv'  BY DEF DiskInv, OnDisk
<1>6. RecoveryInv'
  BY DEF RecoveryInv, Matches, Holds, Named, Parts, Wavs,
    Unacknowledged
<1>7. StartInv'  BY DEF StartInv, Parts, Wavs
<1>8. OpenInv'  BY DEF OpenInv, Parts, Wavs, Exposed
<1>9. MarkerInv'  BY DEF MarkerInv, Matches, Holds, Named, Parts, Wavs
<1>10. SettledInv'  BY DEF SettledInv, Parts, Wavs
<1>11. ReplayInv'  BY DEF ReplayInv, Unacknowledged, Parts, Wavs
<1>. QED  BY <1>1, <1>2, <1>3, <1>4, <1>5, <1>6, <1>7, <1>8, <1>9, <1>10, <1>11

\* The manifest names what was sealed, with the sizes accepted.
LEMMA FinalizeManifestInv ==
    ASSUME JournalIInv, FinalizeManifest
    PROVE  JournalIInv'
<1>. USE JournalAssumption DEF JournalIInv, FinalizeManifest, JournalTypeOK, ProcInv,
      File, Asset, Assets, Ids, Absent, NoHeader, NoAsset, AllSettled, FinalizeReturns,
      Surface, files, opens, queue, ends, memory, budget, history
<1>a. Exposed \in Assets /\ Named(Exposed) = {s \in open : fin[s] = "sealed"}
  BY DEF Exposed, Named
<1>b. ~deleted => Matches(Exposed)
  BY <1>a DEF Matches, Holds, OpenInv, Wavs, Exposed
<1>1. JournalTypeOK'
  <2>1. manifest' \in Assets /\ cache' \in Assets
    BY <1>a, MergeType, SMTT(30)
  <2>2. surfaced' \in SUBSET Ids /\ offers' \in SUBSET SUBSET Ids
    <3>1. Identity(Exposed) \in SUBSET Ids
      BY ONLY <1>a, IdentityType
    <3>2. surfaced' \in {surfaced, Identity(Exposed)}
      OBVIOUS
    <3>3. offers' \in {offers, offers \union {Identity(Exposed)}}
      OBVIOUS
    <3>. QED  BY <3>1, <3>2, <3>3, SMTT(30)
  <2>3. session' \in {"none", "marking"} /\ faults' \in 0..MaxFaults
        /\ recordingMarker' \in BOOLEAN /\ pendingMarker' \in BOOLEAN
    OBVIOUS
  <2>. QED  BY <2>1, <2>2, <2>3
<1>2. ProcInv'  OBVIOUS
<1>3. FileInv'  BY DEF FileInv
<1>4. SampleInv'  BY DEF SampleInv
<1>5. DiskInv'  BY DEF DiskInv, OnDisk
<1>6. RecoveryInv'
  BY DEF RecoveryInv, Matches, Holds, Named, Parts, Wavs,
    Unacknowledged
<1>7. StartInv'  BY DEF StartInv, Parts, Wavs
<1>8. OpenInv'  BY DEF OpenInv, Parts, Wavs, Exposed
<1>9. MarkerInv'
  <2>1. cache' \in {cache, Merge(Exposed, cache)} /\ manifest' \in {manifest, Exposed}
        /\ part' = part /\ wav' = wav
    OBVIOUS
  <2>2. ~deleted => Matches(Merge(Exposed, cache)) /\ Matches(cache) /\ Matches(manifest)
    BY <1>a, <1>b, MergeMatches DEF MarkerInv
  <2>3. ~deleted => Matches(cache)' /\ Matches(manifest)'
    BY <1>b, <2>1, <2>2 DEF Matches, Holds
  <2>4. Parts' = Parts /\ Wavs' = Wavs
    BY <2>1 DEF Parts, Wavs
  <2>. QED  BY <2>3, <2>4 DEF MarkerInv
<1>10. SettledInv'  BY <1>a, IdentityType DEF SettledInv, Parts, Wavs
<1>11. ReplayInv'
  BY DEF ReplayInv, Unacknowledged, Parts, Wavs, MarkerInv, Matches,
    Holds, Named
<1>. QED  BY <1>1, <1>2, <1>3, <1>4, <1>5, <1>6, <1>7, <1>8, <1>9, <1>10, <1>11

\* All sources are sealed and named before the marker changes.
LEMMA FinalizeMarkInv ==
    ASSUME JournalIInv, FinalizeMark
    PROVE  JournalIInv'
<1>. USE JournalAssumption DEF JournalIInv, FinalizeMark, JournalTypeOK, ProcInv, File,
      Asset, Assets, Ids, Absent, NoHeader, NoAsset, FinalizeReturns, Surface, files,
      opens, queue, ends, memory, budget, history
<1>a. Exposed \in Assets /\ Named(Exposed) = {s \in open : fin[s] = "sealed"}
  BY DEF Exposed, Named
<1>b. ~deleted => Matches(Exposed)
  BY <1>a DEF Matches, Holds, OpenInv, Wavs, Exposed
<1>c. ~deleted => Merge(Exposed, cache) = Exposed
  BY <1>a, MergeCovers, SMTT(30) DEF OpenInv, MarkerInv, Matches, Holds, Wavs, Named
<1>1. JournalTypeOK'
  <2>1. manifest' \in Assets /\ cache' \in Assets
    BY <1>a, MergeType
  <2>2. surfaced' \in SUBSET Ids /\ offers' \in SUBSET SUBSET Ids
    BY <1>a, IdentityType
  <2>3. session' \in {"none", "marking"} /\ faults' \in 0..MaxFaults
        /\ recordingMarker' \in BOOLEAN /\ pendingMarker' \in BOOLEAN
    OBVIOUS
  <2>. QED  BY <2>1, <2>2, <2>3
<1>2. ProcInv'  OBVIOUS
<1>3. FileInv'  BY DEF FileInv
<1>4. SampleInv'  BY DEF SampleInv
<1>5. DiskInv'  BY DEF DiskInv, OnDisk
<1>6. RecoveryInv'
  BY DEF RecoveryInv, Matches, Holds, Named, Parts, Wavs,
    Unacknowledged
<1>7. StartInv'  BY DEF StartInv, Parts, Wavs
<1>8. OpenInv'  BY DEF OpenInv, Parts, Wavs, Exposed
<1>9. MarkerInv'
  <2>1. cache' \in {cache, Merge(Exposed, cache)} /\ manifest' \in {manifest, Exposed}
        /\ part' = part /\ wav' = wav
    OBVIOUS
  <2>2. ~deleted => Matches(Merge(Exposed, cache)) /\ Matches(cache) /\ Matches(manifest)
    BY <1>a, <1>b, MergeMatches DEF MarkerInv
  <2>3. ~deleted => Matches(cache)' /\ Matches(manifest)'
    BY <1>b, <2>1, <2>2 DEF Matches, Holds
  <2>4. Parts' = Parts /\ Wavs' = Wavs
    BY <2>1 DEF Parts, Wavs
  <2>. QED  BY <1>c, <2>3, <2>4 DEF MarkerInv, OpenInv
<1>10. SettledInv'  BY <1>a, IdentityType DEF SettledInv, Parts, Wavs
<1>11. ReplayInv'
  BY <1>a, <1>b, SMTT(30) DEF ReplayInv, Unacknowledged, Parts, Wavs, MarkerInv,
    Matches, Holds, Named, OpenInv, Exposed
<1>. QED  BY <1>1, <1>2, <1>3, <1>4, <1>5, <1>6, <1>7, <1>8, <1>9, <1>10, <1>11

\* The recording marker stays for the next launch.
LEMMA FinalizeMetadataFailsInv ==
    ASSUME JournalIInv, FinalizeMetadataFails
    PROVE  JournalIInv'
<1>. USE JournalAssumption DEF JournalIInv, FinalizeMetadataFails, JournalTypeOK,
      ProcInv, File, Asset, Assets, Ids, Absent, NoHeader, NoAsset, AllSettled,
      FinalizeReturns, Surface, files, opens, queue, ends, memory, budget, history
<1>a. Exposed \in Assets /\ Named(Exposed) = {s \in open : fin[s] = "sealed"}
  BY DEF Exposed, Named
<1>b. ~deleted => Matches(Exposed)
  BY <1>a DEF Matches, Holds, OpenInv, Wavs, Exposed
<1>1. JournalTypeOK'
  <2>1. manifest' \in Assets /\ cache' \in Assets
    BY <1>a, MergeType
  <2>2. surfaced' \in SUBSET Ids /\ offers' \in SUBSET SUBSET Ids
    BY <1>a, IdentityType
  <2>3. session' \in {"none", "marking"} /\ faults' \in 0..MaxFaults
        /\ recordingMarker' \in BOOLEAN /\ pendingMarker' \in BOOLEAN
    OBVIOUS
  <2>. QED  BY <2>1, <2>2, <2>3
<1>2. ProcInv'  OBVIOUS
<1>3. FileInv'  BY DEF FileInv
<1>4. SampleInv'  BY DEF SampleInv
<1>5. DiskInv'  BY DEF DiskInv, OnDisk
<1>6. RecoveryInv'
  BY DEF RecoveryInv, Matches, Holds, Named, Parts, Wavs,
    Unacknowledged
<1>7. StartInv'  BY DEF StartInv, Parts, Wavs
<1>8. OpenInv'  BY DEF OpenInv, Parts, Wavs, Exposed
<1>9. MarkerInv'
  <2>1. cache' \in {cache, Merge(Exposed, cache)} /\ manifest' \in {manifest, Exposed}
        /\ part' = part /\ wav' = wav
    OBVIOUS
  <2>2. ~deleted => Matches(Merge(Exposed, cache)) /\ Matches(cache) /\ Matches(manifest)
    BY <1>a, <1>b, MergeMatches DEF MarkerInv
  <2>3. ~deleted => Matches(cache)' /\ Matches(manifest)'
    BY <1>b, <2>1, <2>2 DEF Matches, Holds
  <2>4. Parts' = Parts /\ Wavs' = Wavs
    BY <2>1 DEF Parts, Wavs
  <2>. QED  BY <2>3, <2>4 DEF MarkerInv
<1>10. SettledInv'  BY <1>a, IdentityType DEF SettledInv, Parts, Wavs
<1>11. ReplayInv'  BY DEF ReplayInv, Unacknowledged, Parts, Wavs
<1>. QED  BY <1>1, <1>2, <1>3, <1>4, <1>5, <1>6, <1>7, <1>8, <1>9, <1>10, <1>11

\* What is acknowledged is the manifest, which names every sealed file.
LEMMA AcknowledgeInv ==
    ASSUME JournalIInv, NEW A \in offers, Acknowledge(A)
    PROVE  JournalIInv'
<1>. USE JournalAssumption DEF JournalIInv, Acknowledge, JournalTypeOK, ProcInv, File,
      Asset, Assets, Ids, Absent, NoHeader, NoAsset, LoadManifest, AcknowledgesManifest,
      files, opens, queue, ends, memory, budget, history
<1>a. LoadManifest \in Assets /\ Identity(LoadManifest) = A
  OBVIOUS
<1>1. JournalTypeOK'  OBVIOUS
<1>2. ProcInv'  OBVIOUS
<1>3. FileInv'  BY DEF FileInv
<1>4. SampleInv'  BY DEF SampleInv
<1>5. DiskInv'  BY DEF DiskInv, OnDisk
<1>6. RecoveryInv'
  BY DEF RecoveryInv, Matches, Holds, Named, Parts, Wavs,
    Unacknowledged
<1>7. StartInv'  BY DEF StartInv, Parts, Wavs
<1>8. OpenInv'  BY DEF OpenInv, Parts, Wavs, Exposed
<1>9. MarkerInv'  BY DEF MarkerInv, Matches, Holds, Named, Parts, Wavs
<1>10. SettledInv'
  <2>1. CASE ~(session = "none" /\ ~recordingMarker /\ Parts = {} /\ ~deleted)
    BY <2>1 DEF SettledInv, Parts, Wavs
  <2>2. CASE session = "none" /\ ~recordingMarker /\ Parts = {} /\ ~deleted
    <3>1. PICK t \in Named(LoadManifest) : TRUE
      <4>1. A # {}
        BY DEF SettledInv
      <4>. QED  BY ONLY <4>1, <1>a, IdentityType
    <3>2. t \in Wavs
      BY <2>2, <3>1 DEF MarkerInv, Matches, Holds, Named, Wavs
    <3>3. Required \intersect Wavs # {}
      BY <2>2, <3>2 DEF MarkerInv, Wavs
    <3>. QED  BY <2>2, <3>3 DEF SettledInv, Parts, Wavs
  <2>. QED  BY <2>1, <2>2
<1>11. ReplayInv'
  <2>1. SUFFICES ASSUME ~deleted, NEW s \in Sources, Unacknowledged(s), <<s, wav[s].data>> \notin A,
                        ~recordingMarker, Parts = {}
                 PROVE  FALSE
    BY DEF ReplayInv, Unacknowledged, Parts
  <2>2. manifest[s].bytes = wav[s].data /\ wav[s].data >= 0
    BY <2>1 DEF ReplayInv, Unacknowledged
  <2>3. LoadManifest = manifest
    BY <2>1 DEF MarkerInv
  <2>. QED  BY <1>a, <2>1, <2>2, <2>3, IdentityType
<1>. QED  BY <1>1, <1>2, <1>3, <1>4, <1>5, <1>6, <1>7, <1>8, <1>9, <1>10, <1>11

\* The rebuilt entry is read from its file.
LEMMA ResolveFinalizedAssetInv ==
    ASSUME JournalIInv, NEW s \in Sources, ResolveFinalizedAsset(s)
    PROVE  JournalIInv'
<1>. USE JournalAssumption DEF JournalIInv, ResolveFinalizedAsset, JournalTypeOK,
      ProcInv, File, Asset, Assets, Ids, Absent, NoHeader, NoAsset, LoadManifest, files,
      opens, queue, ends, memory, budget, history
<1>1. JournalTypeOK'  OBVIOUS
<1>2. ProcInv'  OBVIOUS
<1>3. FileInv'  BY DEF FileInv
<1>4. SampleInv'  BY DEF SampleInv
<1>5. DiskInv'  BY DEF DiskInv, OnDisk
<1>6. RecoveryInv'
  BY DEF RecoveryInv, Matches, Holds, Named, Parts, Wavs,
    Unacknowledged
<1>7. StartInv'  BY DEF StartInv, Parts, Wavs
<1>8. OpenInv'  BY DEF OpenInv, Parts, Wavs, Exposed
<1>9. MarkerInv'  BY DEF MarkerInv, Matches, Holds, Named, Parts, Wavs
<1>10. SettledInv'  BY DEF SettledInv, Parts, Wavs
<1>11. ReplayInv'
  BY DEF ReplayInv, Unacknowledged, Parts, Wavs, MarkerInv, Matches,
    Holds, Named
<1>. QED  BY <1>1, <1>2, <1>3, <1>4, <1>5, <1>6, <1>7, <1>8, <1>9, <1>10, <1>11

\* A deletion ends the promises about the audio.
LEMMA DeleteMeetingAssetsInv ==
    ASSUME JournalIInv, DeleteMeetingAssets
    PROVE  JournalIInv'
<1>. USE JournalAssumption DEF JournalIInv, DeleteMeetingAssets, JournalTypeOK, ProcInv,
      File, Asset, Assets, Ids, Absent, NoHeader, NoAsset, files, opens, queue, ends,
      memory, budget, history
<1>1. JournalTypeOK'  OBVIOUS
<1>2. ProcInv'  OBVIOUS
<1>3. FileInv'  BY DEF FileInv
<1>4. SampleInv'  BY DEF SampleInv
<1>5. DiskInv'  BY DEF DiskInv, OnDisk
<1>6. RecoveryInv'
  BY DEF RecoveryInv, Matches, Holds, Named, Parts, Wavs,
    Unacknowledged
<1>7. StartInv'  BY DEF StartInv, Parts, Wavs
<1>8. OpenInv'  BY DEF OpenInv, Parts, Wavs, Exposed
<1>9. MarkerInv'  BY DEF MarkerInv, Matches, Holds, Named, Parts, Wavs
<1>10. SettledInv'  BY DEF SettledInv, Parts, Wavs
<1>11. ReplayInv'  BY DEF ReplayInv, Unacknowledged, Parts, Wavs
<1>. QED  BY <1>1, <1>2, <1>3, <1>4, <1>5, <1>6, <1>7, <1>8, <1>9, <1>10, <1>11

\* Entries only disappear.
LEMMA DeleteEntryInv ==
    ASSUME JournalIInv, DeleteEntry
    PROVE  JournalIInv'
<1>. USE JournalAssumption DEF JournalIInv, DeleteEntry, JournalTypeOK, ProcInv, File,
      Asset, Assets, Ids, Absent, NoHeader, NoAsset, files, opens, queue, ends, memory,
      budget, history
<1>a. deleted /\ deleted' = deleted
  OBVIOUS
<1>b. \A t \in Sources : part'[t] \in {part[t], Absent} /\ wav'[t] \in {wav[t], Absent}
  BY DEF Parts, Wavs
<1>1. JournalTypeOK'
  BY EmptyType, ZenonT(40)
<1>2. ProcInv'  OBVIOUS
<1>3. FileInv'  BY SMTT(30) DEF FileInv
<1>4. SampleInv'  BY DEF SampleInv
<1>5. DiskInv'  BY DEF DiskInv, OnDisk
<1>6. RecoveryInv'
  BY DEF RecoveryInv, Matches, Holds, Named, Parts, Wavs,
    Unacknowledged
<1>7. StartInv'
  <2>1. \A t \in Sources : part[t].data = 0 => part'[t].data = 0
    BY <1>b
  <2>2. Wavs' \subseteq Wavs
    BY <1>b DEF Wavs
  <2>. QED  BY <1>a, <2>1, <2>2 DEF StartInv
<1>8. OpenInv'  BY SMTT(30) DEF OpenInv, Parts, Wavs, Exposed
<1>9. MarkerInv'  BY EmptyType DEF MarkerInv, Matches, Holds, Named, Parts, Wavs
<1>10. SettledInv'  BY DEF SettledInv, Parts, Wavs
<1>11. ReplayInv'  BY DEF ReplayInv, Unacknowledged, Parts, Wavs
<1>. QED  BY <1>1, <1>2, <1>3, <1>4, <1>5, <1>6, <1>7, <1>8, <1>9, <1>10, <1>11

\* The cache is dropped with the files.
LEMMA DeleteEndsInv ==
    ASSUME JournalIInv, DeleteEnds
    PROVE  JournalIInv'
<1>. USE JournalAssumption DEF JournalIInv, DeleteEnds, JournalTypeOK, ProcInv, File,
      Asset, Assets, Ids, Absent, NoHeader, NoAsset, files, opens, queue, ends, memory,
      budget, history
<1>1. JournalTypeOK'
  <2>1. cache' \in Assets
    BY EmptyType
  <2>2. faults' \in 0..MaxFaults
    OBVIOUS
  <2>3. UNCHANGED <<files, proc, rec, opens, queue, ends, surfaced, crashes, history>>
        /\ deleting' = FALSE
    OBVIOUS
  <2>. QED  BY <2>1, <2>2, <2>3, ZenonT(40)
<1>2. ProcInv'  OBVIOUS
<1>3. FileInv'  BY DEF FileInv
<1>4. SampleInv'  BY DEF SampleInv
<1>5. DiskInv'  BY DEF DiskInv, OnDisk
<1>6. RecoveryInv'
  BY DEF RecoveryInv, Matches, Holds, Named, Parts, Wavs,
    Unacknowledged
<1>7. StartInv'  BY DEF StartInv, Parts, Wavs
<1>8. OpenInv'  BY DEF OpenInv, Parts, Wavs, Exposed
<1>9. MarkerInv'  BY EmptyType DEF MarkerInv, Matches, Holds, Named, Parts, Wavs
<1>10. SettledInv'  BY DEF SettledInv, Parts, Wavs
<1>11. ReplayInv'  BY DEF ReplayInv, Unacknowledged, Parts, Wavs
<1>. QED  BY <1>1, <1>2, <1>3, <1>4, <1>5, <1>6, <1>7, <1>8, <1>9, <1>10, <1>11

\* A crash keeps the files: their contents are all that the next launch needs.
LEMMA CrashInv ==
    ASSUME JournalIInv, Crash
    PROVE  JournalIInv'
<1>. USE JournalAssumption DEF JournalIInv, Crash, JournalTypeOK, ProcInv, File, Asset,
      Assets, Ids, Absent, NoHeader, NoAsset, NoRecovery, files, opens, queue, ends,
      memory, budget, history
<1>1. JournalTypeOK'
  <2>1. rec' \in [stage : {"none", "parts", "mark", "migrate"}, parts : SUBSET Sources,
                    listed : SUBSET Sources, assets : Assets]
    BY EmptyType
  <2>2. cache' \in Assets
    BY EmptyType
  <2>3. crashes' \in 0..MaxCrashes
    OBVIOUS
  <2>4. /\ frames' \in SUBSET [Sources -> 0..MaxBytes]
        /\ position' \in [Sources -> 0..MaxBytes] /\ written' \in [Sources -> 0..MaxBytes]
        /\ fin' \in [Sources -> {"none", "queue", "header", "sealed", "failed"}]
    OBVIOUS
  <2>. QED  BY <2>1, <2>2, <2>3, <2>4
<1>2. ProcInv'  OBVIOUS
<1>3. FileInv'  BY DEF FileInv
<1>4. SampleInv'  BY DEF SampleInv
<1>5. DiskInv'  BY DEF DiskInv, OnDisk
<1>6. RecoveryInv'
  BY EmptyType DEF RecoveryInv, Matches, Holds, Named, Parts, Wavs,
    Unacknowledged
<1>7. StartInv'  BY DEF StartInv, Parts, Wavs
<1>8. OpenInv'  BY DEF OpenInv, Parts, Wavs, Exposed
<1>9. MarkerInv'  BY EmptyType DEF MarkerInv, Matches, Holds, Named, Parts, Wavs
<1>10. SettledInv'  BY DEF SettledInv, Parts, Wavs
<1>11. ReplayInv'  BY DEF ReplayInv, Unacknowledged, Parts, Wavs
<1>. QED  BY <1>1, <1>2, <1>3, <1>4, <1>5, <1>6, <1>7, <1>8, <1>9, <1>10, <1>11

-----------------------------------------------------------------------------

\* An empty audio root, and one of a version without handoff markers.
LEMMA InitInv == ASSUME Init PROVE JournalIInv
<1>. USE JournalAssumption DEF Init, InitMemory, File, Asset, Assets, Ids, Absent, NoHeader,
      NoAsset, NoRecovery, Empty, Named, Parts, Wavs
<1>1. JournalTypeOK
  <2>1. part \in [Sources -> File] /\ wav \in [Sources -> File] /\ manifest \in Assets
    OBVIOUS
  <2>2. rec \in [stage : {"none", "parts", "mark", "migrate"}, parts : SUBSET Sources,
                 listed : SUBSET Sources, assets : Assets]
    OBVIOUS
  <2>3. /\ recordingMarker \in BOOLEAN /\ pendingMarker \in BOOLEAN /\ migrated \in BOOLEAN
        /\ deleting \in BOOLEAN /\ deleted \in BOOLEAN /\ settled \in BOOLEAN
    OBVIOUS
  <2>4. /\ cache \in Assets /\ crashes \in 0..MaxCrashes /\ faults \in 0..MaxFaults
        /\ position \in [Sources -> 0..MaxBytes] /\ written \in [Sources -> 0..MaxBytes]
        /\ durable \in [Sources -> 0..MaxBytes]
    OBVIOUS
  <2>5. /\ frames \in SUBSET [Sources -> 0..MaxBytes]
        /\ fin \in [Sources -> {"none", "queue", "header", "sealed", "failed"}]
        /\ todo \in SUBSET Sources /\ opening \in SUBSET Sources /\ open \in SUBSET Sources
        /\ broken \in SUBSET Sources /\ surfaced = {} /\ offers = {} /\ handed = {}
    OBVIOUS
  <2>6. proc = "down" /\ session = "none" /\ finStatus = "finalized"
    OBVIOUS
  <2>. HIDE DEF Init
  <2>. QED  BY <2>1, <2>2, <2>3, <2>4, <2>5, <2>6 DEF JournalTypeOK
<1>2. ProcInv /\ FileInv /\ SampleInv /\ DiskInv
  BY DEF ProcInv, FileInv, SampleInv, DiskInv, OnDisk
<1>3. RecoveryInv /\ StartInv /\ OpenInv /\ SettledInv
  BY DEF RecoveryInv, StartInv, OpenInv, SettledInv
<1>4. MarkerInv
  BY DEF MarkerInv, Matches, Holds
<1>5. ReplayInv
  BY DEF ReplayInv, Unacknowledged
<1>. QED  BY <1>1, <1>2, <1>3, <1>4, <1>5 DEF JournalIInv

LEMMA StutterInv == ASSUME JournalIInv, UNCHANGED vars PROVE JournalIInv'
<1>. USE DEF JournalIInv, vars, files, opens, queue, ends, memory, budget, history
<1>1. JournalTypeOK' /\ ProcInv' /\ FileInv' /\ SampleInv' /\ DiskInv'
  BY DEF JournalTypeOK, ProcInv, FileInv, SampleInv, DiskInv, OnDisk
<1>2. RecoveryInv' /\ StartInv'
  BY DEF RecoveryInv, StartInv, Matches, Holds, Parts, Wavs, Unacknowledged
<1>3. OpenInv' /\ MarkerInv'
  BY DEF OpenInv, MarkerInv, Matches, Holds, Parts, Wavs, Exposed
<1>4. SettledInv' /\ ReplayInv'
  BY DEF SettledInv, ReplayInv, Parts, Wavs, Unacknowledged
<1>. QED  BY <1>1, <1>2, <1>3, <1>4

\* Every step keeps the inductive invariant.
LEMMA NextInv == ASSUME JournalIInv, [Next]_vars PROVE JournalIInv'
<1>1. CASE Recovery
  BY <1>1, RecoverManifestInv, RecoverMarkInv, RecoverDoneInv, RecoverPartDataInv, RecoverPartInv
     DEF Recovery
<1>2. CASE Starting
  BY <1>2, StartDoneInv, StartCleanupMarkerInv, StartPartInv, StartHeaderInv, StartFailedInv,
     StartCleanupPartInv DEF Starting
<1>3. CASE Appending
  BY <1>3, WriteInv, WriteFailsInv, AppendSettlesInv DEF Appending
<1>4. CASE Finalizing
  BY <1>4, FinalizeManifestInv, FinalizeMarkInv, FinalizeMetadataFailsInv, FinalizeHeaderInv,
     FinalizeRenameInv, FinalizeAssetFailsInv DEF Finalizing
<1>5. CASE Requests
  BY <1>5, StartMeetingInv, AppendFrameInv, FinalizeMeetingInv, DeleteMeetingAssetsInv,
     ResolveFinalizedAssetInv, AcknowledgeInv DEF Requests
<1>. QED  BY <1>1, <1>2, <1>3, <1>4, <1>5, LaunchInv, DeleteEntryInv, DeleteEndsInv, CrashInv,
             StutterInv DEF Next

\* The inductive invariant holds in every state of the journal: of the calls of
\* AudioAssetWriter, of crashes between any two of their file operations, and of
\* the recovery at the next launch.
THEOREM JournalInvariant == Spec => []JournalIInv
  BY InitInv, NextInv, PTL DEF Spec

\* Audio whose append resolved stays in a file of its source, however many
\* crashes, failed writes, failed finalizations and recoveries follow
\* (appendFrame, finalizeOpenAsset, recoverPartAsset).
THEOREM ResolvedAudioIsKept == Spec => []ResolvedAudioOnDisk
<1>1. JournalIInv => ResolvedAudioOnDisk
  BY DEF JournalIInv, DiskInv, OnDisk, ResolvedAudioOnDisk
<1>. QED  BY <1>1, JournalInvariant, PTL

\* Sealed audio is offered by every launch until the store acknowledged it
\* (initialize, markPendingAcpHandoff, acknowledgeAudioAssetsPersisted).
THEOREM AudioIsReplayed == Spec => []ReplayedUntilAcknowledged
<1>1. JournalIInv => ReplayedUntilAcknowledged
  BY DEF JournalIInv, ReplayInv, Unacknowledged, ReplayedUntilAcknowledged, Wavs
<1>. QED  BY <1>1, JournalInvariant, PTL

\* Every directory a crash leaves is one initialize repairs: no sealed file is
\* unreadable, no part is discarded, the manifest tells the truth about the files,
\* and an acknowledged backlog stays empty.
THEOREM DirectoryStaysRepairable == Spec => []JournalInv
<1>1. JournalIInv => JournalTypeOK /\ RecoveryNeverRefuses /\ RecoveryDiscardsNothing
  BY DEF JournalIInv, ProcInv, FileInv, RecoveryNeverRefuses, RecoveryDiscardsNothing
<1>2. JournalIInv => ManifestMatchesFiles
  BY DEF JournalIInv, MarkerInv, Matches, Holds, ManifestMatchesFiles
<1>3. JournalIInv => SettledStaysSettled
  BY DEF JournalIInv, SettledInv, SettledStaysSettled
<1>. QED  BY <1>1, <1>2, <1>3, JournalInvariant, PTL DEF JournalInv
=============================================================================
