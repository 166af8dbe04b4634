------------------------ MODULE LiveTranscriptProofs ------------------------
(***************************************************************************)
(* Proofs about LiveTranscript for any number of turns, speakers, texts,   *)
(* relabels, tries and failing calls.                                      *)
(*                                                                         *)
(* The counters of the provider, the reducer, the queue and the store are  *)
(* compared with each other all over the code.  The argument is that a     *)
(* revision names one content: every copy of a turn that waits, is being   *)
(* written or is stored is at most as new as the turn in the reducer, and  *)
(* is that turn when it has its revision.                                  *)
(***************************************************************************)
EXTENDS LiveTranscript, TLAPS

-----------------------------------------------------------------------------
(* The inductive invariant.                                                *)

AdapterType ==
    /\ revisions \in [Turns -> [print : Messages \union {NoMessage}, revision : -1..MaxText]]
    /\ relabels \in 0..MaxRelabels

\* The adapter counts the messages that are new; the reducer is ahead of it by the
\* relabels at most.
AdapterInv ==
    \A t \in Turns :
        /\ revisions[t].print = sent[t]
        /\ IF sent[t].final THEN revisions[t].revision <= sent[t].text
                            ELSE revisions[t].revision < sent[t].text
        /\ IF sent[t] = NoMessage THEN revisions[t].revision = -1 /\ active[t] = NoTurn
                                  ELSE revisions[t].revision >= 0
        /\ revisions[t].revision <= active[t].revision
        /\ active[t].revision <= revisions[t].revision + relabels

\* A copy of the turn t that was taken some time ago.
Snapshot(t, turn) ==
    /\ turn.revision <= active[t].revision
    /\ turn.revision = active[t].revision => turn = active[t]

SnapshotInv ==
    \A t \in Turns : /\ Snapshot(t, seen[t]) /\ Snapshot(t, queued[t].turn)
                     /\ Snapshot(t, writing[t].turn)

\* The speaker of a row may be set by another call; its text is the turn's.
SegmentInv ==
    \A t \in Turns :
        /\ segment[t].revision <= active[t].revision
        /\ segment[t].revision = active[t].revision => segment[t].text = active[t].text

CallsInv == \A call \in calls : call.speakers \subseteq observed

\* A flush ends with every finished turn stored or given up.
FlushInv ==
    /\ \A t \in Turns : writing[t] = NoWrite => queued[t] = NoWrite
    /\ meeting \in {"settling", "flushing", "stopped"} => seen = active
    /\ meeting = "stopped" => Drained
    /\ meeting \in {"flushing", "stopped"} =>
         \A t \in Turns :
             /\ queued[t] = NoWrite
             /\ writing[t] # NoWrite => writing[t].turn.revision = active[t].revision
             /\ IsFinal(active[t]) =>
                  active[t].revision \in {persisted[t], writing[t].turn.revision, terminal[t]}

TranscriptIInv ==
    /\ TranscriptTypeOK /\ AdapterType /\ AdapterInv /\ SnapshotInv /\ SegmentInv
    /\ CallsInv /\ PersistedIsStored /\ FlushInv

\* The provider revises the speaker of finished turns only, and the adapter's count is
\* the reducer's until the turn is finished.
FinalInv ==
    \A t \in Turns :
        IF sent[t].final THEN IsFinal(active[t]) /\ active[t].text = sent[t].text
                         ELSE active[t].revision = revisions[t].revision

\* A row with the revision of its turn has its speaker too, and so has every speaker
\* update on its way.
SpeakerInv ==
    /\ \A t \in Turns :
         segment[t].revision = active[t].revision => segment[t].speaker = active[t].speaker
    /\ \A call \in calls : \A update \in call.updates :
         /\ relabels = MaxRelabels
         /\ sent[update[1]].final /\ active[update[1]].speaker = update[2]

-----------------------------------------------------------------------------
(* The operators.                                                          *)

\* The records that stand for nothing have their types, and no final turn is one.
LEMMA NothingTyped ==
    /\ NoTurn \in Turn /\ NoWrite \in QueuedWrite /\ NoWrite.turn = NoTurn
    /\ NoTurn.revision = -1 /\ NoMessage \notin Messages /\ ~NoMessage.final
    /\ NoMessage.text = 0 /\ ~IsFinal(NoTurn)
  BY TranscriptAssumption
  DEF NoTurn, NoWrite, NoMessage, Turn, QueuedWrite, MaxRevision, Messages, IsFinal

\* upsert_transcript_segment keeps the newer of the row and the write.
LEMMA UpsertedNewer ==
    ASSUME NEW row \in Turn, NEW turn \in Turn
    PROVE  /\ Upserted(row, turn) \in {row, turn}
           /\ Upserted(row, turn).revision >= row.revision
           /\ Upserted(row, turn).revision >= turn.revision
           /\ Upserted(row, turn) = row \/ row.revision < turn.revision
  BY DEF Upserted, Turn

\* What the adapter and the reducer make of the provider's message: a message that is
\* sent again keeps its revision and does nothing, and the count is bounded by the texts.
LEMMA MessageRevision ==
    ASSUME TranscriptIInv, NEW t \in Turns, NEW message \in Messages, Message(t, message)
    PROVE  /\ RevisionOf(t, message) \in 0..MaxText
           /\ IF message.final THEN RevisionOf(t, message) <= message.text
                               ELSE RevisionOf(t, message) < message.text
           /\ \/ message = sent[t] /\ RevisionOf(t, message) = revisions[t].revision
              \/ /\ ~sent[t].final /\ message # sent[t]
                 /\ RevisionOf(t, message) = revisions[t].revision + 1
<1>. USE TranscriptAssumption DEF TranscriptIInv
<1>1. /\ revisions[t].revision \in -1..MaxText /\ sent[t] \in Messages \union {NoMessage}
      /\ revisions[t].print = sent[t]
  BY DEF AdapterType, AdapterInv, TranscriptTypeOK
<1>2. CASE message = sent[t]
  <2>1. revisions[t].revision >= 0
    BY <1>2, NothingTyped DEF AdapterInv
  <2>2. RevisionOf(t, message) = revisions[t].revision
    BY <1>1, <1>2, <2>1 DEF RevisionOf, Fingerprint
  <2>. QED  BY <1>1, <1>2, <2>1, <2>2 DEF AdapterInv
<1>3. CASE message # sent[t]
  <2>1. RevisionOf(t, message) = revisions[t].revision + 1
    BY <1>1, <1>3 DEF RevisionOf, Fingerprint
  <2>2. /\ ~sent[t].final
        /\ message.text = sent[t].text + 1 \/ (message.final /\ message.text = sent[t].text)
    BY <1>1, <1>3 DEF Message, Messages, NoMessage
  <2>3. revisions[t].revision < sent[t].text
    BY <2>2 DEF AdapterInv
  <2>4. message.text \in 1..MaxText /\ sent[t].text \in 0..MaxText
    BY <1>1 DEF Messages, NoMessage
  <2>. QED  BY <1>1, <1>3, <2>1, <2>2, <2>3, <2>4
<1>. QED  BY <1>2, <1>3

\* applyProviderTurn leaves the turn alone or makes a newer one of it.
LEMMA ProviderTurnNewer ==
    ASSUME TranscriptIInv, NEW t \in Turns, NEW message \in Messages, Message(t, message)
    PROVE  LET turn == ProviderTurn(active[t], RevisionOf(t, message), message) IN
           /\ turn \in Turn
           /\ RevisionOf(t, message) <= turn.revision
           /\ turn.revision <= RevisionOf(t, message) + relabels
           /\ turn = active[t] \/ active[t].revision < turn.revision
<1>. USE TranscriptAssumption DEF TranscriptIInv
<1>. DEFINE r == RevisionOf(t, message)
            turn == ProviderTurn(active[t], r, message)
<1>1. r \in 0..MaxText /\ revisions[t].revision <= r /\ revisions[t].revision \in -1..MaxText
  BY MessageRevision DEF AdapterType
<1>2. active[t] \in Turn /\ relabels \in 0..MaxRelabels
  BY DEF TranscriptTypeOK, AdapterType
<1>3. active[t].revision <= revisions[t].revision + relabels
  BY DEF AdapterInv
<1>. HIDE DEF r
<1>4. CASE r <= active[t].revision
  <2>1. turn = active[t]
    BY <1>4 DEF ProviderTurn
  <2>. QED  BY <1>1, <1>2, <1>3, <1>4, <2>1 DEF Turn, MaxRevision, r
<1>5. CASE ~(r <= active[t].revision)
  <2>1. turn.revision = r /\ turn \in Turn
    BY <1>1, <1>2, <1>5 DEF ProviderTurn, Turn, MaxRevision, Messages
  <2>. QED  BY <1>1, <1>2, <1>5, <2>1 DEF r, Turn, MaxRevision
<1>. QED  BY <1>4, <1>5

\* applySpeakerRevision leaves the turn alone or makes its next revision of it.
LEMMA RelabelNewer ==
    ASSUME NEW turn \in Turn, turn.revision < MaxRevision, NEW label \in Speakers,
           NEW sameWords \in BOOLEAN
    PROVE  /\ ReviseSpeaker(turn, label, sameWords) \in Turn
           /\ ReviseSpeaker(turn, label, sameWords).speaker = label
           /\ ReviseSpeaker(turn, label, sameWords).text = turn.text
           /\ \/ ReviseSpeaker(turn, label, sameWords) = turn
              \/ ReviseSpeaker(turn, label, sameWords).revision = turn.revision + 1
           /\ IsFinal(turn) => IsFinal(ReviseSpeaker(turn, label, sameWords))
<1>. DEFINE new == [turn EXCEPT !.revision = turn.revision + 1, !.speaker = label,
                    !.status = IF turn.status = "partial" THEN "partial" ELSE "revised"]
<1>1. MaxRevision \in Nat
  BY TranscriptAssumption DEF MaxRevision
<1>2. /\ new.revision = turn.revision + 1 /\ new.speaker = label /\ new.text = turn.text
      /\ new.status = IF turn.status = "partial" THEN "partial" ELSE "revised"
  BY DEF Turn
<1>3. new \in Turn
  <2>1. ASSUME NEW n \in -1..MaxRevision PROVE [turn EXCEPT !.revision = n] \in Turn
    BY DEF Turn
  <2>2. ASSUME NEW x \in Turn PROVE [x EXCEPT !.speaker = label] \in Turn
    BY DEF Turn
  <2>3. ASSUME NEW x \in Turn, NEW s \in {"partial", "revised"}
        PROVE  [x EXCEPT !.status = s] \in Turn
    BY DEF Turn
  <2>4. turn.revision + 1 \in -1..MaxRevision
    BY <1>1 DEF Turn
  <2>. QED  BY <2>1, <2>2, <2>3, <2>4
<1>4. IsFinal(turn) => IsFinal(new)
  BY <1>2 DEF IsFinal
<1>5. \/ ReviseSpeaker(turn, label, sameWords) = new
      \/ ReviseSpeaker(turn, label, sameWords) = turn /\ turn.speaker = label
  BY DEF ReviseSpeaker
<1>. HIDE DEF new
<1>6. CASE ReviseSpeaker(turn, label, sameWords) = new
  BY <1>2, <1>3, <1>4, <1>6
<1>7. CASE ReviseSpeaker(turn, label, sameWords) = turn /\ turn.speaker = label
  BY <1>7 DEF IsFinal
<1>. QED  BY <1>5, <1>6, <1>7

\* A newer turn in the reducer leaves every copy a copy.
LEMMA NewerTurn ==
    ASSUME TranscriptIInv, NEW t \in Turns, NEW turn \in Turn,
           turn = active[t] \/ active[t].revision < turn.revision,
           active' = [active EXCEPT ![t] = turn], UNCHANGED <<seen, queued, writing, segment>>
    PROVE  active' \in [Turns -> Turn] /\ SnapshotInv' /\ SegmentInv'
<1>. USE DEF TranscriptIInv
<1>1. /\ active \in [Turns -> Turn] /\ seen \in [Turns -> Turn] /\ segment \in [Turns -> Turn]
      /\ \A u \in Turns : queued[u].turn \in Turn /\ writing[u].turn \in Turn
  BY DEF TranscriptTypeOK, QueuedWrite
<1>2. \A u \in Turns : active'[u] = IF u = t THEN turn ELSE active[u]
  BY <1>1
<1>3. \A u \in Turns : active'[u] = active[u] \/ active[u].revision < active'[u].revision
  BY <1>2
<1>4. \A x \in Turn : x.revision \in Int
  BY TranscriptAssumption DEF Turn, MaxRevision
<1>5. active' \in [Turns -> Turn]
  BY <1>1
<1>6. \A u \in Turns : active'[u] \in Turn
  BY <1>5
<1>7. ASSUME NEW u \in Turns, NEW x \in Turn, Snapshot(u, x) PROVE Snapshot(u, x)'
  BY <1>1, <1>3, <1>4, <1>6, <1>7 DEF Snapshot
<1>8. SnapshotInv'
  BY <1>1, <1>7 DEF SnapshotInv, Snapshot
<1>9. SegmentInv'
  BY <1>1, <1>3, <1>4, <1>6 DEF SegmentInv
<1>. QED  BY <1>5, <1>8, <1>9

\* A speaker seen for the first time is known to the calls that name it.
LEMMA ObserveKeeps ==
    ASSUME TranscriptIInv, NEW label \in Speakers \union {NoSpeaker},
           NEW updates \in SUBSET (Turns \X Speakers), Observe(label, updates),
           UNCHANGED speakers
    PROVE  /\ observed' \subseteq Speakers /\ observed \subseteq observed'
           /\ speakers' \subseteq observed'
           /\ calls' \subseteq [speakers : SUBSET Speakers, updates : SUBSET (Turns \X Speakers)]
           /\ CallsInv'
           /\ \A call \in calls' : call \in calls \/ call.updates = updates
<1>. USE DEF TranscriptIInv
<1>1. observed' = observed \union ({label} \ (observed \union {NoSpeaker}))
  BY DEF Observe
<1>2. observed' \subseteq Speakers
  BY <1>1 DEF TranscriptTypeOK
<1>. DEFINE new == [speakers |-> observed', updates |-> updates]
<1>3. calls' \subseteq calls \union {new}
  BY DEF Observe
<1>4. new \in [speakers : SUBSET Speakers, updates : SUBSET (Turns \X Speakers)]
      /\ new.speakers = observed' /\ new.updates = updates
  BY <1>2
<1>. HIDE DEF new
<1>. QED  BY <1>1, <1>2, <1>3, <1>4 DEF TranscriptTypeOK, CallsInv

-----------------------------------------------------------------------------
(* The steps of the provider and of the reducer.                           *)

LEMMA MessageInv ==
    ASSUME TranscriptIInv, NEW t \in Turns, NEW message \in Messages, Message(t, message)
    PROVE  TranscriptIInv'
<1>. USE TranscriptAssumption DEF TranscriptIInv, Provider, Adapter, Reducer, Queue, Store
<1>. DEFINE r == RevisionOf(t, message)
            turn == ProviderTurn(active[t], r, message)
<1>1. /\ sent' = [sent EXCEPT ![t] = message]
      /\ revisions' = [revisions EXCEPT ![t] = [print |-> message, revision |-> r]]
      /\ active' = [active EXCEPT ![t] = turn] /\ Observe(message.label, {}) /\ SessionOpen
      /\ relabels' = relabels /\ seen' = seen /\ queued' = queued /\ writing' = writing
      /\ persisted' = persisted /\ terminal' = terminal /\ speakers' = speakers
      /\ segment' = segment /\ meeting' = meeting
  BY DEF Message, Fingerprint
<1>2. /\ turn \in Turn /\ r <= turn.revision /\ turn.revision <= r + relabels
      /\ turn = active[t] \/ active[t].revision < turn.revision
  BY ProviderTurnNewer
<1>3. /\ r \in 0..MaxText
      /\ IF message.final THEN r <= message.text ELSE r < message.text
  BY MessageRevision
<1>4. message.label \in Speakers \union {NoSpeaker} /\ {} \in SUBSET (Turns \X Speakers)
  BY DEF Messages
<1>. HIDE DEF r, turn
<1>5. /\ observed' \subseteq Speakers /\ speakers' \subseteq observed' /\ CallsInv'
      /\ calls' \subseteq [speakers : SUBSET Speakers, updates : SUBSET (Turns \X Speakers)]
  BY <1>1, <1>4, ObserveKeeps
<1>6. active' \in [Turns -> Turn] /\ SnapshotInv' /\ SegmentInv'
  BY <1>1, <1>2, NewerTurn
<1>7. TranscriptTypeOK'
  BY <1>1, <1>5, <1>6 DEF TranscriptTypeOK
<1>8. AdapterType'
  <2>1. [print |-> message, revision |-> r]
          \in [print : Messages \union {NoMessage}, revision : -1..MaxText]
    BY <1>3
  <2>. QED  BY <1>1, <2>1 DEF AdapterType
<1>9. AdapterInv'
  <2>1. sent'[t] = message /\ revisions'[t].print = message /\ revisions'[t].revision = r
        /\ active'[t] = turn /\ message # NoMessage
    BY <1>1, NothingTyped DEF TranscriptTypeOK, AdapterType
  <2>2. \A u \in Turns : u # t => /\ sent'[u] = sent[u] /\ revisions'[u] = revisions[u]
                                  /\ active'[u] = active[u]
    BY <1>1 DEF TranscriptTypeOK, AdapterType
  <2>. QED  BY <1>1, <1>2, <1>3, <2>1, <2>2 DEF AdapterInv
<1>10. PersistedIsStored'
  BY <1>1 DEF PersistedIsStored
<1>11. FlushInv'
  BY <1>1 DEF FlushInv, SessionOpen
<1>. QED  BY <1>5, <1>6, <1>7, <1>8, <1>9, <1>10, <1>11

LEMMA SpeakerRevisionInv ==
    ASSUME TranscriptIInv, NEW t \in Turns, NEW label \in Speakers, NEW sameWords \in BOOLEAN,
           SpeakerRevision(t, label, sameWords)
    PROVE  TranscriptIInv'
<1>. USE TranscriptAssumption DEF TranscriptIInv, Provider, Adapter, Reducer, Queue, Store
<1>. DEFINE turn == ReviseSpeaker(active[t], label, sameWords)
            updates == IF seen[t] = NoTurn THEN {} ELSE {<<t, label>>}
<1>1. /\ active' = [active EXCEPT ![t] = turn] /\ Observe(label, updates)
      /\ SessionOpen /\ sent[t] # NoMessage /\ relabels < MaxRelabels /\ relabels' = relabels + 1
      /\ sent' = sent /\ revisions' = revisions /\ seen' = seen /\ queued' = queued
      /\ writing' = writing /\ persisted' = persisted /\ terminal' = terminal
      /\ speakers' = speakers /\ segment' = segment /\ meeting' = meeting
  BY DEF SpeakerRevision
<1>2. /\ relabels \in Nat /\ active[t] \in Turn /\ revisions[t].revision \in 0..MaxText
      /\ active[t].revision <= revisions[t].revision + relabels
  BY <1>1 DEF AdapterType, AdapterInv, TranscriptTypeOK
<1>3. active[t].revision \in Int /\ active[t].revision < MaxRevision
  BY <1>1, <1>2 DEF Turn, MaxRevision
<1>4. /\ turn \in Turn
      /\ turn = active[t] \/ turn.revision = active[t].revision + 1
  BY <1>2, <1>3, RelabelNewer
<1>5. updates \in SUBSET (Turns \X Speakers)
  OBVIOUS
<1>. HIDE DEF turn, updates
<1>6. /\ observed' \subseteq Speakers /\ speakers' \subseteq observed' /\ CallsInv'
      /\ calls' \subseteq [speakers : SUBSET Speakers, updates : SUBSET (Turns \X Speakers)]
  BY <1>1, <1>5, ObserveKeeps
<1>7. active' \in [Turns -> Turn] /\ SnapshotInv' /\ SegmentInv'
  <2>1. turn = active[t] \/ active[t].revision < turn.revision
    BY <1>3, <1>4
  <2>. QED  BY <1>1, <1>4, <2>1, NewerTurn
<1>8. TranscriptTypeOK'
  BY <1>1, <1>6, <1>7 DEF TranscriptTypeOK
<1>9. AdapterType'
  BY <1>1, <1>2 DEF AdapterType
<1>10. AdapterInv'
  <2>1. active'[t] = turn /\ \A u \in Turns : u # t => active'[u] = active[u]
    BY <1>1 DEF TranscriptTypeOK
  <2>2. \A u \in Turns : revisions[u].revision \in Int /\ active[u].revision \in Int
    BY DEF AdapterType, TranscriptTypeOK, Turn, MaxRevision
  <2>. QED  BY <1>1, <1>2, <1>3, <1>4, <2>1, <2>2 DEF AdapterInv
<1>11. PersistedIsStored'
  BY <1>1 DEF PersistedIsStored
<1>12. FlushInv'
  BY <1>1 DEF FlushInv, SessionOpen
<1>. QED  BY <1>6, <1>7, <1>8, <1>9, <1>10, <1>11, <1>12

\* Queueing the turns of `wanted': what waits or is being written is the reducer's turn or
\* what it was before.
LEMMA QueueWritesKeeps ==
    ASSUME TranscriptIInv, NEW wanted \in SUBSET Turns, QueueWrites(wanted),
           \A t \in wanted : IsFinal(active[t]), UNCHANGED active
    PROVE  /\ queued' \in [Turns -> QueuedWrite] /\ writing' \in [Turns -> QueuedWrite]
           /\ \A t \in Turns : /\ Snapshot(t, queued[t].turn)' /\ Snapshot(t, writing[t].turn)'
                               /\ writing'[t] = NoWrite => queued'[t] = NoWrite
<1>. USE TranscriptAssumption DEF TranscriptIInv
<1>1. ASSUME NEW t \in Turns
      PROVE  /\ Write(t) \in QueuedWrite /\ Write(t).turn = active[t]
             /\ t \in wanted => Write(t) # NoWrite
  BY NothingTyped DEF TranscriptTypeOK, Write, QueuedWrite
<1>2. \A t \in Turns : /\ writing'[t] \in {writing[t], Write(t)} /\ queued'[t] \in {queued[t], Write(t)}
                       /\ writing'[t] = NoWrite => writing[t] = NoWrite /\ queued'[t] = queued[t]
  BY <1>1 DEF QueueWrites
<1>3. queued' \in [Turns -> QueuedWrite] /\ writing' \in [Turns -> QueuedWrite]
  BY <1>1 DEF QueueWrites, TranscriptTypeOK
<1>4. \A t \in Turns : active'[t] = active[t] /\ active[t].revision <= active[t].revision
  BY DEF TranscriptTypeOK, Turn, MaxRevision
<1>5. ASSUME NEW t \in Turns
      PROVE  Snapshot(t, queued[t].turn)' /\ Snapshot(t, writing[t].turn)'
  BY <1>1, <1>2, <1>4 DEF SnapshotInv, Snapshot
<1>. QED  BY <1>2, <1>3, <1>5 DEF FlushInv

LEMMA CommitInv ==
    ASSUME TranscriptIInv, Commit
    PROVE  TranscriptIInv'
<1>. USE TranscriptAssumption DEF TranscriptIInv, Provider, Adapter, Reducer, Queue, Store
<1>. DEFINE wanted == {t \in Turns : MayQueue(t, active[t], FALSE)}
<1>1. /\ seen # active /\ seen' = active /\ QueueWrites(wanted) /\ active' = active
      /\ sent' = sent /\ relabels' = relabels /\ revisions' = revisions /\ observed' = observed
      /\ persisted' = persisted /\ terminal' = terminal /\ calls' = calls
      /\ speakers' = speakers /\ segment' = segment /\ meeting' = meeting
  BY DEF Commit
<1>2. wanted \in SUBSET Turns /\ \A t \in wanted : IsFinal(active[t])
  BY DEF MayQueue
<1>. HIDE DEF wanted
<1>3. /\ queued' \in [Turns -> QueuedWrite] /\ writing' \in [Turns -> QueuedWrite]
      /\ \A t \in Turns : /\ Snapshot(t, queued[t].turn)' /\ Snapshot(t, writing[t].turn)'
                          /\ writing'[t] = NoWrite => queued'[t] = NoWrite
  BY <1>1, <1>2, QueueWritesKeeps
<1>4. TranscriptTypeOK'
  BY <1>1, <1>3 DEF TranscriptTypeOK
<1>5. SnapshotInv'
  <2>1. \A t \in Turns : Snapshot(t, seen[t])'
    BY <1>1 DEF Snapshot, TranscriptTypeOK, Turn, MaxRevision
  <2>. QED  BY <1>3, <2>1 DEF SnapshotInv
<1>6. AdapterType' /\ AdapterInv' /\ SegmentInv' /\ CallsInv' /\ PersistedIsStored'
  BY <1>1 DEF AdapterType, AdapterInv, SegmentInv, CallsInv, PersistedIsStored
<1>7. FlushInv'
  BY <1>1, <1>3 DEF FlushInv
<1>. QED  BY <1>4, <1>5, <1>6, <1>7

-----------------------------------------------------------------------------
(* The steps of the write queue and of the store.                          *)

\* The write of the turn t is answered or tried again: what is queued and what is being
\* written are what they were, the one in place of the other, or nothing.
QueueMoves(t) ==
    /\ queued' \in [Turns -> QueuedWrite] /\ writing' \in [Turns -> QueuedWrite]
    /\ \A u \in Turns : u # t => queued'[u] = queued[u] /\ writing'[u] = writing[u]
    /\ queued'[t] \in {queued[t], NoWrite}
    /\ writing'[t].turn \in {queued[t].turn, writing[t].turn, NoTurn}
    /\ writing'[t] = NoWrite => queued'[t] = NoWrite
    /\ queued[t] = NoWrite => queued'[t] = NoWrite
    /\ queued[t] = NoWrite => writing'[t] = NoWrite \/ writing'[t].turn = writing[t].turn

LEMMA DrainMoves ==
    ASSUME TranscriptIInv, NEW t \in Turns, NEW done \in -1..MaxRevision, DrainNext(t, done)
    PROVE  QueueMoves(t) /\ (queued[t] = NoWrite => writing'[t] = NoWrite)
<1>. USE TranscriptAssumption DEF TranscriptIInv
<1>1. queued[t] \in QueuedWrite /\ writing[t] \in QueuedWrite
  BY DEF TranscriptTypeOK
<1>2. queued'[t] = NoWrite /\ writing'[t] \in {queued[t], NoWrite}
  BY DEF DrainNext, TranscriptTypeOK
<1>3. \A u \in Turns : u # t => queued'[u] = queued[u] /\ writing'[u] = writing[u]
  BY DEF DrainNext, TranscriptTypeOK
<1>4. queued' \in [Turns -> QueuedWrite] /\ writing' \in [Turns -> QueuedWrite]
  BY <1>1, NothingTyped DEF DrainNext, TranscriptTypeOK
<1>5. queued[t] = NoWrite => writing'[t] = NoWrite
  BY <1>2
<1>. QED  BY <1>2, <1>3, <1>4, <1>5, NothingTyped DEF QueueMoves

LEMMA RetryMoves ==
    ASSUME TranscriptIInv, NEW t \in Turns, writing[t] # NoWrite, Retry(t)
    PROVE  /\ QueueMoves(t) /\ terminal' \in [Turns -> -1..MaxRevision]
           /\ \A u \in Turns : u # t => terminal'[u] = terminal[u]
           /\ \/ terminal' = terminal /\ writing'[t].turn = writing[t].turn
                 /\ writing'[t] # NoWrite /\ queued' = queued
              \/ terminal'[t] = writing[t].turn.revision
                 /\ (queued[t] = NoWrite => writing'[t] = NoWrite)
<1>. USE TranscriptAssumption DEF TranscriptIInv
<1>. DEFINE tries == writing[t].tries + 1
<1>1. /\ writing[t] \in QueuedWrite /\ queued[t] \in QueuedWrite
      /\ writing \in [Turns -> QueuedWrite] /\ queued \in [Turns -> QueuedWrite]
      /\ terminal \in [Turns -> -1..MaxRevision] /\ persisted[t] \in -1..MaxRevision
  BY DEF TranscriptTypeOK
<1>2. /\ writing[t].turn \in Turn /\ writing[t].tries \in 0..Attempts - 1
      /\ writing[t].turn.revision \in -1..MaxRevision
  BY <1>1 DEF QueuedWrite, Turn
<1>3. CASE tries < Attempts
  <2>1. writing' = [writing EXCEPT ![t].tries = tries] /\ queued' = queued /\ terminal' = terminal
    BY <1>3 DEF Retry
  <2>2. ASSUME NEW n \in 0..Attempts - 1 PROVE [writing[t] EXCEPT !.tries = n] \in QueuedWrite
    BY <1>1 DEF QueuedWrite
  <2>3. /\ writing' = [writing EXCEPT ![t] = [writing[t] EXCEPT !.tries = tries]]
        /\ [writing[t] EXCEPT !.tries = tries] \in QueuedWrite
    BY <1>2, <1>3, <2>1, <2>2
  <2>4. [writing[t] EXCEPT !.tries = tries].turn = writing[t].turn
        /\ [writing[t] EXCEPT !.tries = tries].tries = tries
    BY <1>1 DEF QueuedWrite
  <2>5. NoWrite.tries = 0
    BY DEF NoWrite
  <2>6. /\ writing' \in [Turns -> QueuedWrite]
        /\ writing'[t] = [writing[t] EXCEPT !.tries = tries]
        /\ \A u \in Turns : u # t => writing'[u] = writing[u]
    BY <1>1, <2>3
  <2>7. writing'[t] # NoWrite
    <3>1. writing'[t].tries = tries
      BY <2>4, <2>6
    <3>2. tries # 0
      BY <1>2
    <3>. QED  BY ONLY <2>5, <3>1, <3>2
  <2>. QED  BY <1>1, <2>1, <2>4, <2>6, <2>7 DEF QueueMoves
<1>4. CASE ~(tries < Attempts)
  <2>1. DrainNext(t, persisted[t]) /\ terminal' = [terminal EXCEPT ![t] = writing[t].turn.revision]
    BY <1>4 DEF Retry
  <2>. QED  BY <1>1, <1>2, <2>1, DrainMoves
<1>. QED  BY <1>3, <1>4

\* What the invariant says of copies, whichever way the queue moves.
LEMMA MovedQueue ==
    ASSUME TranscriptIInv, NEW t \in Turns, QueueMoves(t), UNCHANGED <<active, seen>>
    PROVE  SnapshotInv' /\ \A u \in Turns : writing'[u] = NoWrite => queued'[u] = NoWrite
<1>. USE TranscriptAssumption DEF TranscriptIInv
<1>1. Snapshot(t, NoTurn)
  BY NothingTyped DEF Snapshot, TranscriptTypeOK, Turn, AdapterInv, AdapterType
<1>2. \A u \in Turns : Snapshot(u, queued'[u].turn) /\ Snapshot(u, writing'[u].turn)
  BY <1>1, NothingTyped DEF QueueMoves, SnapshotInv
<1>3. SnapshotInv'
  BY <1>2 DEF SnapshotInv, Snapshot
<1>. QED  BY <1>3 DEF QueueMoves, FlushInv

\* A row that is upserted with a copy of its turn.
LEMMA UpsertedSegment ==
    ASSUME TranscriptIInv, NEW t \in Turns, UNCHANGED active,
           segment' \in {segment, [segment EXCEPT ![t] = Upserted(segment[t], writing[t].turn)]}
    PROVE  /\ segment' \in [Turns -> Turn] /\ SegmentInv'
           /\ \A u \in Turns : segment[u].revision <= segment'[u].revision
<1>. USE TranscriptAssumption DEF TranscriptIInv
<1>1. /\ segment \in [Turns -> Turn] /\ writing[t].turn \in Turn /\ segment[t] \in Turn
      /\ \A u \in Turns : segment[u].revision \in Int
  BY DEF TranscriptTypeOK, QueuedWrite, Turn, MaxRevision
<1>2. Snapshot(t, writing[t].turn)
  BY DEF SnapshotInv
<1>3. CASE segment' = segment
  BY <1>1, <1>3 DEF SegmentInv
<1>4. CASE segment' = [segment EXCEPT ![t] = Upserted(segment[t], writing[t].turn)]
  <2>1. segment'[t] \in {segment[t], writing[t].turn} /\ segment'[t].revision >= segment[t].revision
    BY <1>1, <1>4, UpsertedNewer
  <2>2. \A u \in Turns : u # t => segment'[u] = segment[u]
    BY <1>1, <1>4
  <2>3. segment' \in [Turns -> Turn]
    BY <1>1, <1>4, UpsertedNewer
  <2>4. SegmentInv'
    BY <1>2, <2>1, <2>2 DEF SegmentInv, Snapshot
  <2>. QED  BY <1>1, <2>1, <2>2, <2>3, <2>4
<1>. QED  BY <1>3, <1>4

LEMMA WriteSucceedsInv ==
    ASSUME TranscriptIInv, NEW t \in Turns, WriteSucceeds(t)
    PROVE  TranscriptIInv'
<1>. USE TranscriptAssumption DEF TranscriptIInv, Provider, Adapter, Reducer, Queue, Store
<1>. DEFINE revision == writing[t].turn.revision
<1>1. /\ writing[t] # NoWrite /\ DrainNext(t, revision)
      /\ segment' = [segment EXCEPT ![t] = Upserted(segment[t], writing[t].turn)]
      /\ persisted' = [persisted EXCEPT ![t] = revision]
      /\ terminal' = [terminal EXCEPT ![t] = -1]
      /\ sent' = sent /\ relabels' = relabels /\ revisions' = revisions /\ active' = active
      /\ seen' = seen /\ observed' = observed /\ calls' = calls /\ speakers' = speakers
      /\ meeting' = meeting
  BY DEF WriteSucceeds, PersistedRevision
<1>2. /\ segment[t] \in Turn /\ writing[t].turn \in Turn /\ revision \in -1..MaxRevision
      /\ persisted \in [Turns -> -1..MaxRevision] /\ terminal \in [Turns -> -1..MaxRevision]
      /\ segment \in [Turns -> Turn]
  BY DEF TranscriptTypeOK, QueuedWrite, Turn
<1>3. Upserted(segment[t], writing[t].turn).revision >= revision
  BY <1>2, UpsertedNewer
<1>. HIDE DEF revision
<1>4. QueueMoves(t) /\ (queued[t] = NoWrite => writing'[t] = NoWrite)
  BY <1>1, <1>2, DrainMoves
<1>5. /\ segment' \in [Turns -> Turn] /\ SegmentInv'
      /\ \A u \in Turns : segment[u].revision <= segment'[u].revision
  BY <1>1, UpsertedSegment
<1>6. SnapshotInv' /\ \A u \in Turns : writing'[u] = NoWrite => queued'[u] = NoWrite
  BY <1>1, <1>4, MovedQueue
<1>7. TranscriptTypeOK'
  <2>1. persisted' \in [Turns -> -1..MaxRevision] /\ terminal' \in [Turns -> -1..MaxRevision]
    BY <1>1, <1>2 DEF MaxRevision
  <2>. QED  BY <1>1, <1>4, <1>5, <2>1 DEF TranscriptTypeOK, QueueMoves
<1>8. AdapterType' /\ AdapterInv' /\ CallsInv'
  BY <1>1 DEF AdapterType, AdapterInv, CallsInv
<1>9. PersistedIsStored'
  <2>1. persisted'[t] = revision /\ segment'[t] = Upserted(segment[t], writing[t].turn)
    BY <1>1, <1>2
  <2>2. \A u \in Turns : u # t => persisted'[u] = persisted[u] /\ segment'[u] = segment[u]
    BY <1>1, <1>2
  <2>3. segment'[t].revision \in Int
    BY <1>5 DEF Turn, MaxRevision
  <2>. QED  BY <1>2, <1>3, <2>1, <2>2, <2>3 DEF PersistedIsStored
<1>10. FlushInv'
  <2>1. meeting' = "stopped" => Drained'
    BY <1>1 DEF FlushInv, Drained
  <2>2. ASSUME meeting \in {"flushing", "stopped"}, NEW u \in Turns
        PROVE  /\ queued'[u] = NoWrite
               /\ writing'[u] # NoWrite => writing'[u].turn.revision = active'[u].revision
               /\ IsFinal(active'[u]) =>
                    active'[u].revision \in {persisted'[u], writing'[u].turn.revision, terminal'[u]}
    <3>1. CASE u = t
      BY <1>1, <1>2, <1>4, <2>2, <3>1 DEF FlushInv, QueueMoves, revision
    <3>2. CASE u # t
      BY <1>1, <1>2, <1>4, <2>2, <3>2 DEF FlushInv, QueueMoves
    <3>. QED  BY <3>1, <3>2
  <2>. QED  BY <1>1, <1>6, <2>1, <2>2 DEF FlushInv
<1>. QED  BY <1>5, <1>6, <1>7, <1>8, <1>9, <1>10

\* A try that does not end well, whatever it did to the row.
LEMMA FailedTryInv ==
    ASSUME TranscriptIInv, NEW t \in Turns, writing[t] # NoWrite, Retry(t),
           segment' \in {segment, [segment EXCEPT ![t] = Upserted(segment[t], writing[t].turn)]},
           UNCHANGED <<Provider, Adapter, Reducer, seen, observed, persisted, calls, speakers,
                       meeting>>
    PROVE  TranscriptIInv'
<1>. USE TranscriptAssumption DEF TranscriptIInv, Provider, Adapter, Reducer
<1>1. /\ QueueMoves(t) /\ terminal' \in [Turns -> -1..MaxRevision]
      /\ \A u \in Turns : u # t => terminal'[u] = terminal[u]
      /\ \/ terminal' = terminal /\ writing'[t].turn = writing[t].turn
            /\ writing'[t] # NoWrite /\ queued' = queued
         \/ terminal'[t] = writing[t].turn.revision
            /\ (queued[t] = NoWrite => writing'[t] = NoWrite)
  BY RetryMoves
<1>2. /\ segment' \in [Turns -> Turn] /\ SegmentInv'
      /\ \A u \in Turns : segment[u].revision <= segment'[u].revision
  BY UpsertedSegment
<1>3. SnapshotInv' /\ \A u \in Turns : writing'[u] = NoWrite => queued'[u] = NoWrite
  BY <1>1, MovedQueue
<1>4. TranscriptTypeOK'
  BY <1>1, <1>2 DEF TranscriptTypeOK, QueueMoves
<1>5. AdapterType' /\ AdapterInv' /\ CallsInv'
  BY DEF AdapterType, AdapterInv, CallsInv
<1>6. PersistedIsStored'
  <2>1. \A u \in Turns : /\ persisted[u] \in Int /\ segment[u].revision \in Int
                         /\ segment'[u].revision \in Int
    BY <1>2 DEF TranscriptTypeOK, Turn, MaxRevision
  <2>. QED  BY <1>2, <2>1 DEF PersistedIsStored
<1>7. FlushInv'
  <2>1. meeting' = "stopped" => Drained'
    BY DEF FlushInv, Drained
  <2>2. ASSUME meeting \in {"flushing", "stopped"}, NEW u \in Turns
        PROVE  /\ queued'[u] = NoWrite
               /\ writing'[u] # NoWrite => writing'[u].turn.revision = active'[u].revision
               /\ IsFinal(active'[u]) =>
                    active'[u].revision \in {persisted'[u], writing'[u].turn.revision, terminal'[u]}
    <3>1. CASE u = t
      BY <1>1, <2>2, <3>1 DEF FlushInv, QueueMoves
    <3>2. CASE u # t
      BY <1>1, <2>2, <3>2 DEF FlushInv, QueueMoves
    <3>. QED  BY <3>1, <3>2
  <2>. QED  BY <1>3, <2>1, <2>2 DEF FlushInv
<1>. QED  BY <1>2, <1>3, <1>4, <1>5, <1>6, <1>7

LEMMA WriteRefusedInv ==
    ASSUME TranscriptIInv, NEW t \in Turns, WriteRefused(t)
    PROVE  TranscriptIInv'
  BY FailedTryInv DEF WriteRefused, Store

LEMMA WriteFaultsInv ==
    ASSUME TranscriptIInv, NEW t \in Turns, NEW applied \in BOOLEAN, WriteFaults(t, applied)
    PROVE  TranscriptIInv'
  BY FailedTryInv DEF WriteFaults

\* A speaker update leaves the revision and the text of every row.
LEMMA SpeakersAppliedRows ==
    ASSUME TranscriptIInv, NEW call \in calls, SpeakersApplied(call)
    PROVE  /\ segment' \in [Turns -> Turn]
           /\ \A t \in Turns : /\ segment'[t].revision = segment[t].revision
                               /\ segment'[t].text = segment[t].text
                               /\ \/ segment'[t].speaker = segment[t].speaker
                                  \/ <<t, segment'[t].speaker>> \in call.updates
<1>. USE TranscriptAssumption DEF TranscriptIInv
<1>. DEFINE named(t) == \E update \in call.updates : update[1] = t
            update(t) == CHOOSE u \in call.updates : u[1] = t
            row(t) == IF named(t) THEN [segment[t] EXCEPT !.speaker = update(t)[2]]
                                  ELSE segment[t]
<1>1. call.updates \subseteq Turns \X Speakers
  BY DEF TranscriptTypeOK
<1>2. segment' = segment \/ segment' = [t \in Turns |-> row(t)]
  BY DEF SpeakersApplied
<1>3. ASSUME NEW t \in Turns, named(t)
      PROVE  update(t)[2] \in Speakers /\ <<t, update(t)[2]>> \in call.updates
  <2>1. update(t) \in call.updates /\ update(t)[1] = t
    BY <1>3
  <2>. HIDE DEF update
  <2>. QED  BY <1>1, <2>1
<1>. HIDE DEF named, update
<1>4. ASSUME NEW x \in Turn, NEW k \in Speakers
      PROVE  /\ [x EXCEPT !.speaker = k] \in Turn /\ [x EXCEPT !.speaker = k].speaker = k
             /\ [x EXCEPT !.speaker = k].revision = x.revision
             /\ [x EXCEPT !.speaker = k].text = x.text
  BY DEF Turn
<1>5. segment \in [Turns -> Turn]
  BY DEF TranscriptTypeOK
<1>6. ASSUME NEW t \in Turns
      PROVE  /\ row(t) \in Turn /\ row(t).revision = segment[t].revision
             /\ row(t).text = segment[t].text
             /\ \/ row(t).speaker = segment[t].speaker
                \/ <<t, row(t).speaker>> \in call.updates
  BY <1>3, <1>4, <1>5
<1>. HIDE DEF row
<1>7. CASE segment' = segment
  BY <1>5, <1>7
<1>8. CASE segment' = [t \in Turns |-> row(t)]
  <2>1. \A t \in Turns : segment'[t] = row(t)
    BY <1>8
  <2>2. segment' \in [Turns -> Turn]
    BY <1>6, <1>8
  <2>. QED  BY <1>6, <2>1, <2>2
<1>. QED  BY <1>2, <1>7, <1>8

LEMMA SpeakersAppliedInv ==
    ASSUME TranscriptIInv, NEW call \in calls, SpeakersApplied(call)
    PROVE  TranscriptIInv'
<1>. USE TranscriptAssumption DEF TranscriptIInv, Provider, Adapter, Reducer, Queue
<1>1. /\ calls' \subseteq calls /\ speakers' \in {speakers, speakers \union call.speakers}
      /\ UNCHANGED <<Provider, Adapter, Reducer, seen, observed, Queue, meeting>>
  BY DEF SpeakersApplied
<1>2. /\ segment' \in [Turns -> Turn]
      /\ \A t \in Turns : /\ segment'[t].revision = segment[t].revision
                          /\ segment'[t].text = segment[t].text
  BY SpeakersAppliedRows
<1>3. TranscriptTypeOK'
  BY <1>1, <1>2 DEF TranscriptTypeOK, CallsInv
<1>4. AdapterType' /\ AdapterInv' /\ SnapshotInv' /\ CallsInv' /\ FlushInv'
  BY <1>1 DEF AdapterType, AdapterInv, SnapshotInv, Snapshot, CallsInv, FlushInv, Drained
<1>5. SegmentInv' /\ PersistedIsStored'
  BY <1>1, <1>2 DEF SegmentInv, PersistedIsStored
<1>. QED  BY <1>3, <1>4, <1>5

LEMMA SpeakersLostInv ==
    ASSUME TranscriptIInv, NEW call \in calls, SpeakersLost(call)
    PROVE  TranscriptIInv'
  BY DEF SpeakersLost, Provider, Adapter, Reducer, Queue, Store, TranscriptIInv, TranscriptTypeOK,
    AdapterType, AdapterInv, SnapshotInv, Snapshot, SegmentInv, CallsInv, PersistedIsStored,
    FlushInv, Drained

-----------------------------------------------------------------------------
(* The steps of stopMeeting.                                               *)

\* A step of stopMeeting that only moves on.
LEMMA MeetingMoves ==
    ASSUME TranscriptIInv, Stop \/ Terminated \/ Flushed
    PROVE  TranscriptIInv'
<1>. USE DEF TranscriptIInv, Provider, Adapter, Reducer, Queue, Store
<1>1. /\ UNCHANGED <<sent, relabels, revisions, active, seen, observed, queued, writing, persisted,
                     terminal, calls, speakers, segment>>
      /\ \/ meeting' = "terminating"
         \/ meeting' = "settling" /\ seen = active
         \/ meeting' = "stopped" /\ meeting = "flushing" /\ Drained
  BY DEF Stop, Terminated, Flushed
<1>2. TranscriptTypeOK'
  BY <1>1 DEF TranscriptTypeOK
<1>3. /\ AdapterType' /\ AdapterInv' /\ SnapshotInv' /\ SegmentInv' /\ CallsInv'
      /\ PersistedIsStored'
  BY <1>1 DEF AdapterType, AdapterInv, SnapshotInv, Snapshot, SegmentInv, CallsInv,
    PersistedIsStored
<1>4. FlushInv'
  BY <1>1 DEF FlushInv, Drained
<1>. QED  BY <1>2, <1>3, <1>4

LEMMA FlushKeeps ==
    ASSUME TranscriptIInv, Flush
    PROVE  TranscriptIInv'
<1>. USE TranscriptAssumption DEF TranscriptIInv, Provider, Adapter, Reducer, Queue, Store
<1>. DEFINE wanted == {t \in Unresolved : MayQueue(t, seen[t], RetryTerminal)}
<1>1. /\ meeting = "settling" /\ Drained /\ QueueWrites(wanted) /\ meeting' = "flushing"
      /\ terminal' = [t \in Turns |-> IF t \in Unresolved THEN -1 ELSE terminal[t]]
      /\ UNCHANGED <<sent, relabels, revisions, active, seen, observed, persisted, calls, speakers,
                     segment>>
  BY DEF Flush, RetryTerminal
<1>2. seen = active
  BY <1>1 DEF FlushInv
<1>3. wanted \in SUBSET Turns /\ \A t \in wanted : IsFinal(active[t])
  BY <1>2 DEF MayQueue, Unresolved
<1>4. /\ \A t \in Turns : writing[t] = NoWrite /\ queued[t] = NoWrite
      /\ \A t \in Turns : persisted[t] \in Int /\ active[t].revision \in Int
      /\ \A t \in Turns : persisted[t] <= active[t].revision /\ -1 <= persisted[t]
  BY <1>1 DEF Drained, FlushInv, TranscriptTypeOK, Turn, MaxRevision, PersistedIsStored, SegmentInv
<1>5. \A t \in Turns : t \in wanted <=> IsFinal(active[t]) /\ persisted[t] # active[t].revision
  <2>1. SUFFICES ASSUME NEW t \in Turns
                 PROVE  t \in wanted <=> IsFinal(active[t]) /\ persisted[t] # active[t].revision
    OBVIOUS
  <2>2. queued[t].turn.revision = -1 /\ -1 <= active[t].revision
    BY <1>4, NothingTyped
  <2>3. t \in wanted <=> IsFinal(active[t]) /\ persisted[t] < active[t].revision
    BY <1>2, <2>2 DEF MayQueue, Unresolved, RetryTerminal
  <2>. QED  BY <1>4, <2>3
<1>. HIDE DEF wanted
<1>6. /\ queued' \in [Turns -> QueuedWrite] /\ writing' \in [Turns -> QueuedWrite]
      /\ \A t \in Turns : /\ Snapshot(t, queued[t].turn)' /\ Snapshot(t, writing[t].turn)'
                          /\ writing'[t] = NoWrite => queued'[t] = NoWrite
  BY <1>1, <1>3, QueueWritesKeeps
<1>7. TranscriptTypeOK'
  BY <1>1, <1>6 DEF TranscriptTypeOK, MaxRevision
<1>8. SnapshotInv'
  BY <1>1, <1>6 DEF SnapshotInv, Snapshot
<1>9. AdapterType' /\ AdapterInv' /\ SegmentInv' /\ CallsInv' /\ PersistedIsStored'
  BY <1>1 DEF AdapterType, AdapterInv, SegmentInv, CallsInv, PersistedIsStored
<1>10. FlushInv'
  <2>1. \A t \in Turns : /\ queued'[t] = NoWrite
                         /\ t \in wanted => writing'[t].turn = active[t]
                         /\ t \notin wanted => writing'[t] = NoWrite
    BY <1>1, <1>4 DEF QueueWrites, Write
  <2>. QED  BY <1>1, <1>2, <1>5, <1>6, <2>1 DEF FlushInv
<1>. QED  BY <1>7, <1>8, <1>9, <1>10

-----------------------------------------------------------------------------
(* Every step keeps the invariant.                                         *)

LEMMA InitInv ==
    Init => TranscriptIInv
<1>. SUFFICES ASSUME Init PROVE TranscriptIInv
  OBVIOUS
<1>. USE TranscriptAssumption DEF Init
<1>1. TranscriptTypeOK
  BY NothingTyped DEF TranscriptTypeOK, MaxRevision
<1>2. AdapterType /\ AdapterInv
  BY NothingTyped DEF AdapterType, AdapterInv
<1>3. SnapshotInv /\ SegmentInv /\ CallsInv /\ PersistedIsStored /\ FlushInv
  BY NothingTyped DEF SnapshotInv, Snapshot, SegmentInv, CallsInv, PersistedIsStored, FlushInv
<1>. QED  BY <1>1, <1>2, <1>3 DEF TranscriptIInv

LEMMA StepInv ==
    TranscriptIInv /\ [Next]_vars => TranscriptIInv'
<1>. SUFFICES ASSUME TranscriptIInv, [Next]_vars PROVE TranscriptIInv'
  OBVIOUS
<1>1. CASE Sending
  BY <1>1, MessageInv, SpeakerRevisionInv DEF Sending
<1>2. CASE Commit
  BY <1>2, CommitInv
<1>3. CASE Writing
  BY <1>3, WriteSucceedsInv, WriteRefusedInv, WriteFaultsInv DEF Writing
<1>4. CASE \E call \in calls : SpeakersApplied(call) \/ SpeakersLost(call)
  BY <1>4, SpeakersAppliedInv, SpeakersLostInv
<1>5. CASE Stop \/ Terminated \/ Flushed
  BY <1>5, MeetingMoves
<1>6. CASE Flush
  BY <1>6, FlushKeeps
<1>7. CASE UNCHANGED vars
  BY <1>7 DEF vars, Provider, Adapter, Reducer, Queue, Store, TranscriptIInv, TranscriptTypeOK,
    AdapterType, AdapterInv, SnapshotInv, Snapshot, SegmentInv, CallsInv, PersistedIsStored,
    FlushInv, Drained
<1>. QED  BY <1>1, <1>2, <1>3, <1>4, <1>5, <1>6, <1>7 DEF Next

\* The inductive invariant holds in every environment: a copy of a turn that waits, is
\* being written or is stored is never newer than the turn, and is the turn when it has
\* its revision (parseTurn, applyProviderTurn, startTurnWriteDrain,
\* upsert_transcript_segment).
THEOREM TranscriptInvariant == Spec => []TranscriptIInv
  BY InitInv, StepInv, PTL DEF Spec

\* The state has its type, revisions are bounded by the messages and the relabels, and
\* persistedTurnsRef never claims a revision that the store does not have, however many
\* writes fail or lose their reply (flushTurn, upsert_transcript_segment).
THEOREM MemoryOfTheStoreIsSound == Spec => []TranscriptInv
<1>1. TranscriptIInv => TranscriptInv
  BY DEF TranscriptIInv, TranscriptInv
<1>. QED  BY <1>1, TranscriptInvariant, PTL

\* When a meeting is stopped, every finished turn that is shown is stored with its
\* revision and its text, or all tries of its last write failed after the flush.
StoppedTurnsStored ==
    meeting = "stopped" =>
      \A t \in Turns :
        IsFinal(active[t]) /\ terminal[t] # active[t].revision =>
          segment[t].revision = active[t].revision /\ segment[t].text = active[t].text

\* stopMeeting loses no finished turn silently: flushFinalTranscriptWrites leaves each
\* of them stored as it is shown or given up.
THEOREM StoppingStoresTurns == Spec => []StoppedTurnsStored
<1>1. TranscriptIInv => StoppedTurnsStored
  <2>. USE TranscriptAssumption DEF TranscriptIInv
  <2>1. SUFFICES ASSUME TranscriptIInv, meeting = "stopped", NEW t \in Turns,
                        IsFinal(active[t]), terminal[t] # active[t].revision
                 PROVE  /\ segment[t].revision = active[t].revision
                        /\ segment[t].text = active[t].text
    BY DEF StoppedTurnsStored
  <2>. USE <2>1
  <2>2. writing[t].turn.revision = -1
    BY NothingTyped DEF FlushInv, Drained
  <2>3. active[t].revision # -1
    <3>1. active[t] # NoTurn
      BY NothingTyped
    <3>. QED  BY <3>1, NothingTyped DEF AdapterInv, AdapterType, TranscriptTypeOK, Turn,
                MaxRevision
  <2>4. persisted[t] = active[t].revision
    BY <2>2, <2>3 DEF FlushInv
  <2>5. segment[t].revision = active[t].revision
    <3>1. active[t].revision <= segment[t].revision /\ segment[t].revision <= active[t].revision
      BY <2>4 DEF PersistedIsStored, SegmentInv
    <3>2. active[t] \in Turn /\ segment[t] \in Turn
      BY DEF TranscriptTypeOK
    <3>. QED  BY <3>1, <3>2 DEF Turn, MaxRevision
  <2>. QED  BY <2>5 DEF SegmentInv
<1>. QED  BY <1>1, TranscriptInvariant, PTL

-----------------------------------------------------------------------------
(* Where the provider revises the speaker of finished turns only.          *)

LEMMA StepFinal ==
    ASSUME ~EarlyRelabels, TranscriptIInv, FinalInv, [Next]_vars
    PROVE  FinalInv'
<1>. USE TranscriptAssumption DEF TranscriptIInv, Provider, Adapter, Reducer, Queue, Store
<1>1. ASSUME NEW t \in Turns, NEW message \in Messages, Message(t, message) PROVE FinalInv'
  <2>. DEFINE r == RevisionOf(t, message)
              turn == ProviderTurn(active[t], r, message)
  <2>1. /\ sent' = [sent EXCEPT ![t] = message] /\ active' = [active EXCEPT ![t] = turn]
        /\ revisions' = [revisions EXCEPT ![t] = [print |-> message, revision |-> r]]
    BY <1>1 DEF Message, Fingerprint
  <2>2. /\ sent'[t] = message /\ active'[t] = turn /\ revisions'[t].revision = r
        /\ \A u \in Turns : u # t => /\ sent'[u] = sent[u] /\ active'[u] = active[u]
                                     /\ revisions'[u] = revisions[u]
    BY <2>1 DEF TranscriptTypeOK, AdapterType
  <2>3. /\ r \in 0..MaxText /\ active[t] \in Turn /\ active[t].revision \in Int
        /\ revisions[t].revision \in Int /\ revisions[t].revision <= active[t].revision
    BY <1>1, MessageRevision DEF TranscriptTypeOK, AdapterType, AdapterInv, Turn, MaxRevision
  <2>4. CASE message = sent[t] /\ r = revisions[t].revision
    <3>1. turn = active[t]
      BY <2>3, <2>4 DEF ProviderTurn
    <3>. QED  BY <2>2, <2>4, <3>1 DEF FinalInv
  <2>5. CASE ~sent[t].final /\ r = revisions[t].revision + 1
    <3>1. active[t].revision < r
      BY <2>3, <2>5 DEF FinalInv
    <3>2. turn.revision = r /\ turn.text = message.text /\ (message.final => IsFinal(turn))
      BY <2>3, <3>1 DEF ProviderTurn, IsFinal
    <3>. HIDE DEF turn, r
    <3>. QED  BY <2>2, <3>2 DEF FinalInv, IsFinal
  <2>. QED  BY <1>1, <2>4, <2>5, MessageRevision
<1>2. ASSUME NEW t \in Turns, NEW label \in Speakers, NEW sameWords \in BOOLEAN,
             SpeakerRevision(t, label, sameWords)
      PROVE  FinalInv'
  <2>. DEFINE turn == ReviseSpeaker(active[t], label, sameWords)
  <2>1. /\ active' = [active EXCEPT ![t] = turn] /\ sent' = sent /\ revisions' = revisions
        /\ sent[t].final /\ sent[t] # NoMessage /\ relabels < MaxRelabels
    BY <1>2 DEF SpeakerRevision
  <2>2. active[t] \in Turn /\ active[t].revision < MaxRevision
    BY <2>1 DEF TranscriptTypeOK, AdapterType, AdapterInv, Turn, MaxRevision
  <2>3. turn.text = active[t].text /\ (IsFinal(active[t]) => IsFinal(turn))
    BY <2>2, RelabelNewer
  <2>4. active'[t] = turn /\ \A u \in Turns : u # t => active'[u] = active[u]
    BY <2>1 DEF TranscriptTypeOK
  <2>. HIDE DEF turn
  <2>. QED  BY <2>1, <2>3, <2>4 DEF FinalInv, IsFinal
<1>3. CASE UNCHANGED <<sent, active, revisions>>
  BY <1>3 DEF FinalInv
<1>4. CASE Sending
  BY <1>1, <1>2, <1>4 DEF Sending
<1>. QED  BY <1>3, <1>4 DEF Next, Commit, Writing, WriteSucceeds, WriteRefused, WriteFaults,
            SpeakersApplied, SpeakersLost, Stop, Terminated, Flush, Flushed, vars

\* Where the provider revises speakers of finished turns only, a turn the provider has
\* finished is shown as final and with its last text, whatever is sent again or relabelled
\* (applyProviderTurn, applySpeakerRevision).
THEOREM FinishedTurnsAreShown == ASSUME ~EarlyRelabels PROVE Spec => []FinalTextShown
<1>1. Init => FinalInv
  <2>. SUFFICES ASSUME Init, NEW t \in Turns
                PROVE  ~sent[t].final /\ active[t].revision = revisions[t].revision
    BY DEF FinalInv
  <2>1. sent[t] = NoMessage /\ active[t] = NoTurn /\ revisions[t].revision = -1
    BY DEF Init
  <2>. QED  BY <2>1, NothingTyped
<1>2. TranscriptIInv /\ FinalInv /\ [Next]_vars => FinalInv'
  BY StepFinal
<1>3. FinalInv => FinalTextShown
  BY DEF FinalInv, FinalTextShown
<1>. QED  BY <1>1, <1>2, <1>3, TranscriptInvariant, PTL DEF Spec

LEMMA StepSpeaker ==
    ASSUME ~EarlyRelabels, MaxRelabels <= 1, TranscriptIInv, SpeakerInv, [Next]_vars
    PROVE  SpeakerInv'
<1>. USE TranscriptAssumption DEF TranscriptIInv, Provider, Adapter, Reducer, Queue, Store
<1>1. /\ \A t \in Turns : /\ active[t] \in Turn /\ active[t].revision \in Int
                          /\ segment[t] \in Turn /\ segment[t].revision \in Int
                          /\ segment[t].revision <= active[t].revision
      /\ calls \subseteq [speakers : SUBSET Speakers, updates : SUBSET (Turns \X Speakers)]
  BY DEF TranscriptTypeOK, SegmentInv, Turn, MaxRevision
<1>2. ASSUME NEW t \in Turns, NEW message \in Messages, Message(t, message)
      PROVE  SpeakerInv'
  <2>. DEFINE r == RevisionOf(t, message)
              turn == ProviderTurn(active[t], r, message)
  <2>1. /\ sent' = [sent EXCEPT ![t] = message] /\ active' = [active EXCEPT ![t] = turn]
        /\ Observe(message.label, {}) /\ relabels' = relabels /\ segment' = segment
        /\ speakers' = speakers
        /\ sent[t].final => message = sent[t]
    BY <1>2 DEF Message
  <2>2. /\ sent'[t] = message /\ active'[t] = turn
        /\ \A u \in Turns : u # t => sent'[u] = sent[u] /\ active'[u] = active[u]
    BY <2>1 DEF TranscriptTypeOK
  <2>3. turn = active[t] \/ active[t].revision < turn.revision
    BY <1>2, ProviderTurnNewer
  <2>4. message = sent[t] => turn = active[t]
    <3>1. message = sent[t] => r = revisions[t].revision
      <4>1. message = sent[t] => revisions[t].revision >= 0 /\ revisions[t].print = sent[t]
        BY NothingTyped DEF AdapterInv
      <4>. QED  BY <4>1 DEF RevisionOf, Fingerprint
    <3>2. revisions[t].revision <= active[t].revision
      BY DEF AdapterInv
    <3>. HIDE DEF r
    <3>. QED  BY <3>1, <3>2 DEF ProviderTurn
  <2>5. \A call \in calls' : call \in calls \/ call.updates = {}
    <3>. DEFINE none == {}
    <3>1. /\ none \in SUBSET (Turns \X Speakers) /\ message.label \in Speakers \union {NoSpeaker}
          /\ Observe(message.label, none) /\ UNCHANGED speakers
      BY <2>1 DEF Messages
    <3>2. \A call \in calls' : call \in calls \/ call.updates = none
      <4>. HIDE DEF none, r, turn
      <4>. QED  BY <3>1, ObserveKeeps
    <3>. QED  BY <3>2
  <2>. HIDE DEF r, turn
  <2>6. \A u \in Turns : segment'[u].revision = active'[u].revision =>
                           segment'[u].speaker = active'[u].speaker
    BY <1>1, <2>1, <2>2, <2>3 DEF SpeakerInv
  <2>7. ASSUME NEW call \in calls', NEW update \in call.updates
        PROVE  /\ relabels' = MaxRelabels
               /\ sent'[update[1]].final /\ active'[update[1]].speaker = update[2]
    <3>1. call \in calls /\ update \in Turns \X Speakers
      BY <1>1, <2>5, <2>7
    <3>2. /\ relabels = MaxRelabels
          /\ sent[update[1]].final /\ active[update[1]].speaker = update[2]
      BY <3>1 DEF SpeakerInv
    <3>3. update[1] # t => sent'[update[1]] = sent[update[1]]
                            /\ active'[update[1]] = active[update[1]]
      BY <2>2, <3>1
    <3>4. update[1] = t => sent'[update[1]] = sent[t] /\ active'[update[1]] = active[t]
      <4>. SUFFICES ASSUME update[1] = t PROVE turn = active[t] /\ message = sent[t]
        BY <2>2
      <4>1. sent[t].final
        BY <3>2
      <4>. QED  BY <2>1, <2>4, <4>1
    <3>. QED  BY <2>1, <3>2, <3>3, <3>4
  <2>. QED  BY <2>6, <2>7 DEF SpeakerInv
<1>3. ASSUME NEW t \in Turns, NEW label \in Speakers, NEW sameWords \in BOOLEAN,
             SpeakerRevision(t, label, sameWords)
      PROVE  SpeakerInv'
  <2>. DEFINE turn == ReviseSpeaker(active[t], label, sameWords)
              updates == IF seen[t] = NoTurn THEN {} ELSE {<<t, label>>}
  <2>1. /\ active' = [active EXCEPT ![t] = turn] /\ sent' = sent /\ segment' = segment
        /\ relabels < MaxRelabels /\ relabels' = relabels + 1 /\ sent[t].final
        /\ sent[t] # NoMessage /\ Observe(label, updates) /\ speakers' = speakers
    BY <1>3 DEF SpeakerRevision
  <2>2. relabels' = MaxRelabels /\ relabels \in Nat
    BY <2>1 DEF AdapterType
  <2>3. \A call \in calls : call.updates = {}
    BY <1>1, <2>1, <2>2 DEF SpeakerInv
  <2>4. \A call \in calls' : call.updates = {} \/ call.updates = updates
    <3>1. updates \in SUBSET (Turns \X Speakers) /\ label \in Speakers \union {NoSpeaker}
      OBVIOUS
    <3>. HIDE DEF updates
    <3>. QED  BY <2>1, <2>3, <3>1, ObserveKeeps
  <2>5. active[t].revision < MaxRevision
    BY <2>1 DEF TranscriptTypeOK, AdapterType, AdapterInv, Turn, MaxRevision
  <2>6. /\ turn.speaker = label
        /\ turn = active[t] \/ turn.revision = active[t].revision + 1
    BY <1>1, <2>5, RelabelNewer
  <2>. HIDE DEF turn
  <2>7. active'[t] = turn /\ \A u \in Turns : u # t => active'[u] = active[u]
    BY <2>1 DEF TranscriptTypeOK
  <2>8. \A u \in Turns : segment'[u].revision = active'[u].revision =>
                           segment'[u].speaker = active'[u].speaker
    BY <1>1, <2>1, <2>6, <2>7 DEF SpeakerInv
  <2>9. ASSUME NEW call \in calls', NEW update \in call.updates
        PROVE  sent'[update[1]].final /\ active'[update[1]].speaker = update[2]
    <3>1. update = <<t, label>>
      BY <2>4, <2>9
    <3>. QED  BY <2>1, <2>6, <2>7, <3>1
  <2>. QED  BY <2>2, <2>8, <2>9 DEF SpeakerInv
<1>4. ASSUME NEW t \in Turns,
             segment' \in {segment, [segment EXCEPT ![t] = Upserted(segment[t], writing[t].turn)]},
             UNCHANGED <<sent, relabels, active, calls>>
      PROVE  SpeakerInv'
  <2>1. writing[t].turn \in Turn /\ Snapshot(t, writing[t].turn)
    BY DEF TranscriptTypeOK, QueuedWrite, SnapshotInv
  <2>2. segment'[t] \in {segment[t], writing[t].turn}
        /\ \A u \in Turns : u # t => segment'[u] = segment[u]
    BY <1>1, <1>4, <2>1, UpsertedNewer DEF TranscriptTypeOK
  <2>3. \A u \in Turns : segment'[u].revision = active'[u].revision =>
                           segment'[u].speaker = active'[u].speaker
    BY <1>4, <2>1, <2>2 DEF SpeakerInv, Snapshot
  <2>. QED  BY <1>4, <2>3 DEF SpeakerInv
<1>5. ASSUME NEW call \in calls, SpeakersApplied(call) PROVE SpeakerInv'
  <2>1. /\ active' = active /\ sent' = sent /\ relabels' = relabels
        /\ calls' = calls \ {call}
    BY <1>5 DEF SpeakersApplied
  <2>2. ASSUME NEW t \in Turns, segment'[t].revision = active[t].revision
        PROVE  segment'[t].speaker = active[t].speaker
    <3>1. /\ segment'[t].revision = segment[t].revision
          /\ \/ segment'[t].speaker = segment[t].speaker
             \/ <<t, segment'[t].speaker>> \in call.updates
      BY <1>5, SpeakersAppliedRows
    <3>2. CASE <<t, segment'[t].speaker>> \in call.updates
      BY <3>2 DEF SpeakerInv
    <3>. QED  BY <2>2, <3>1, <3>2 DEF SpeakerInv
  <2>. QED  BY <2>1, <2>2 DEF SpeakerInv
<1>6. CASE UNCHANGED <<sent, relabels, active, segment>> /\ calls' \subseteq calls
  BY <1>6 DEF SpeakerInv
<1>7. CASE Sending
  BY <1>2, <1>3, <1>7 DEF Sending
<1>8. CASE Writing
  <2>1. PICK t \in Turns : \/ WriteSucceeds(t) \/ WriteRefused(t)
                           \/ \E applied \in BOOLEAN : WriteFaults(t, applied)
    BY <1>8 DEF Writing
  <2>2. segment' \in {segment, [segment EXCEPT ![t] = Upserted(segment[t], writing[t].turn)]}
    BY <2>1 DEF WriteSucceeds, WriteRefused, WriteFaults
  <2>3. UNCHANGED <<sent, relabels, active, calls>>
    BY <2>1 DEF WriteSucceeds, WriteRefused, WriteFaults
  <2>. QED  BY <1>4, <2>2, <2>3
<1>9. CASE \E call \in calls : SpeakersApplied(call) \/ SpeakersLost(call)
  BY <1>5, <1>6, <1>9 DEF SpeakersLost
<1>. QED  BY <1>6, <1>7, <1>8, <1>9 DEF Next, Commit, Stop, Terminated, Flush, Flushed, vars

\* When nothing is on its way, a row with the revision of its turn has its speaker,
\* although the write of the turn and the speaker update both set it and come in any
\* order (upsert_transcript_segment, apply_speakers).  With two relabels on their way the
\* older update may come last and stay: hence at most one, of a finished turn.
THEOREM StoredSpeakersAgree ==
    ASSUME ~EarlyRelabels, MaxRelabels <= 1
    PROVE  Spec => []SpeakersAgree
<1>1. Init => SpeakerInv
  BY DEF Init, SpeakerInv
<1>2. TranscriptIInv /\ SpeakerInv /\ [Next]_vars => SpeakerInv'
  BY StepSpeaker
<1>3. TranscriptIInv /\ SpeakerInv => SpeakersAgree
  <2>. SUFFICES ASSUME TranscriptIInv, SpeakerInv, NEW t \in Turns,
                       persisted[t] = active[t].revision
                PROVE  segment[t].speaker = active[t].speaker
    BY DEF SpeakersAgree
  <2>1. active[t].revision <= segment[t].revision /\ segment[t].revision <= active[t].revision
    BY DEF TranscriptIInv, PersistedIsStored, SegmentInv
  <2>2. active[t] \in Turn /\ segment[t] \in Turn
    BY DEF TranscriptIInv, TranscriptTypeOK
  <2>3. segment[t].revision = active[t].revision
    BY <2>1, <2>2, TranscriptAssumption DEF Turn, MaxRevision
  <2>. QED  BY <2>3 DEF SpeakerInv
<1>. QED  BY <1>1, <1>2, <1>3, TranscriptInvariant, PTL DEF Spec
=============================================================================
