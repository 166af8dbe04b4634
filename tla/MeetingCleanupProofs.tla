------------------------ MODULE MeetingCleanupProofs ------------------------
(***************************************************************************)
(* Proof that, with hosted routing, the records of a deleted meeting       *)
(* outlive everything they stand for: any number of meetings and windows,  *)
(* of failing calls and of launches.                                       *)
(*                                                                         *)
(* A confirmation is computed from answers that may be old when it reaches *)
(* the store.  It is right because an answer stays true: files do not come *)
(* back, and the gateway takes no upload for a meeting that it was asked   *)
(* to delete.  AnswersAreTrue states this of every deletion in progress.   *)
(***************************************************************************)
EXTENDS MeetingCleanup, TLAPS

\* The shapes of a cleanup job, of a deletion in progress and of a pass.
JobStatus == {"none", "pending", "running", "retry_wait", "complete", "unavailable"}
JobRow == [local : JobStatus, gateway : JobStatus, provider : JobStatus]
Parts == [pc : {"parts"}, meeting : Meetings, local : {"none", "complete", "retry_wait"},
          remote : BOOLEAN, job : JobRow]
Op == {Idle} \cup [pc : {"delete"}, meeting : Meetings] \cup Parts
Pass == {Idle} \cup [pc : {"jobs"}, startup : BOOLEAN,
                     todo : SUBSET [meeting : Meetings, job : JobRow]]

ShapesOK ==
    /\ job \in [Meetings -> JobRow]
    /\ ops \in [Windows -> [Slots -> Op]]
    /\ pass \in [Windows -> Pass]

\* Nothing is left of a meeting in a world W: here, at the gateway, at the providers.
World == [files |-> files, gateway |-> gateway, provider |-> provider, erased |-> erased]
FilesGone(m, W) == m \notin W.files
GatewayGone(m, W) == m \in W.erased /\ W.gateway[m] = "none"
ProviderGone(m, W) == m \in W.erased /\ W.provider[m] \in {"none", "retained"}

\* The answers a deletion in progress has collected.
TrueAnswers(op, W) ==
    op.pc = "parts" =>
        /\ op.local = "complete" => FilesGone(op.meeting, W)
        /\ op.remote /\ CleanupTerminal(op.job.gateway) => GatewayGone(op.meeting, W)
        /\ op.remote /\ CleanupTerminal(op.job.provider) => ProviderGone(op.meeting, W)

AnswersAreTrue == \A w \in Windows, slot \in Slots : TrueAnswers(ops[w][slot], World)

GoneMeansGone ==
    \A m \in Meetings :
        row[m] = "gone" => /\ FilesGone(m, World)
                           /\ GatewayGone(m, World)
                           /\ ProviderGone(m, World)

\* What is gone in W is gone in V.
StaysGone(W, V) ==
    \A m \in Meetings : /\ FilesGone(m, W) => FilesGone(m, V)
                        /\ GatewayGone(m, W) => GatewayGone(m, V)
                        /\ ProviderGone(m, W) => ProviderGone(m, V)

CleanupIInv == ShapesOK /\ CleanupTypeOK /\ AnswersAreTrue /\ GoneMeansGone

-----------------------------------------------------------------------------
\* The forms of a deletion in progress.
LEMMA OpForms ==
    /\ Idle \in Op /\ Idle.pc = "idle" /\ Idle \in Pass
    /\ \A op \in Op : op.pc = "parts" => op \in Parts
    /\ \A op \in Op : op.pc = "delete" => op \in [pc : {"delete"}, meeting : Meetings]
    /\ NoJob \in JobRow /\ NewJob \in JobRow /\ NewJob # NoJob
    /\ NoJob.local = "none"
  BY DEF Op, Parts, Idle, Pass, NoJob, NewJob, JobRow, JobStatus

\* One deletion is replaced, the others stay.
LEMMA OpReplaced ==
    ASSUME ShapesOK, NEW w \in Windows, NEW slot \in Slots, NEW op \in Op
    PROVE  LET new == [ops EXCEPT ![w][slot] = op] IN
           /\ new \in [Windows -> [Slots -> Op]]
           /\ \A v \in Windows, s \in Slots :
                  new[v][s] = IF v = w /\ s = slot THEN op ELSE ops[v][s]
  BY DEF ShapesOK

\* A status that a process left as running is reconciled; nothing else changes.
LEMMA ReconcileRow ==
    ASSUME NEW j \in JobRow
    PROVE  Reconcile(j) \in JobRow /\ (Reconcile(j) = NoJob <=> j = NoJob)
<1>1. DOMAIN j = {"local", "gateway", "provider"}
  BY DEF JobRow
<1>2. Reconcile(j) \in JobRow
  BY <1>1 DEF Reconcile, JobRow, JobStatus
<1>3. /\ Reconcile(j).local = IF j.local = "running" THEN "retry_wait" ELSE j.local
      /\ Reconcile(j).gateway = IF j.gateway = "running" THEN "retry_wait" ELSE j.gateway
      /\ Reconcile(j).provider = IF j.provider = "running" THEN "retry_wait" ELSE j.provider
  BY <1>1 DEF Reconcile
<1>4. \A k \in JobRow : k = NoJob <=> k.local = "none" /\ k.gateway = "none" /\ k.provider = "none"
  BY DEF JobRow, NoJob
<1> QED
  BY <1>2, <1>3, <1>4

\* What an accepted deletion answers, and that it never brings data back.
LEMMA DeletedAnswers ==
    /\ \A held \in {"none", "held", "deleting"} : \A g \in Deleted(held, FALSE) :
           /\ g[1] \in {"none", "held", "deleting"} /\ g[2] \in JobStatus
           /\ CleanupTerminal(g[2]) => g[1] = "none"
           /\ held = "none" => g[1] = "none"
    /\ \A held \in {"none", "held", "deleting", "retained"} : \A p \in Deleted(held, TRUE) :
           /\ p[1] \in {"none", "held", "deleting", "retained"} /\ p[2] \in JobStatus
           /\ CleanupTerminal(p[2]) => p[1] \in {"none", "retained"}
           /\ held \in {"none", "retained"} => p[1] \in {"none", "retained"}
  BY DEF Deleted, CleanupTerminal, JobStatus

\* Answers stay true while nothing comes back.
LEMMA AnswersLast ==
    ASSUME NEW W, NEW V, StaysGone(W, V), NEW op \in Op, TrueAnswers(op, W)
    PROVE  TrueAnswers(op, V)
<1> SUFFICES ASSUME op.pc = "parts" PROVE TrueAnswers(op, V)
  BY DEF TrueAnswers
<1>1. op.meeting \in Meetings
  BY OpForms DEF Parts
<1> QED
  BY <1>1 DEF TrueAnswers, StaysGone

\* The world does not change.
LEMMA SameWorld ==
    UNCHANGED <<files, gateway, provider, erased>> => StaysGone(World, World')
  BY DEF StaysGone, World

\* A step that replaces at most one deletion, by one whose answers are true.
LEMMA AnswersPreserved ==
    ASSUME ShapesOK, AnswersAreTrue, StaysGone(World, World'),
           NEW w \in Windows, NEW slot \in Slots, NEW op \in Op,
           ops' = [ops EXCEPT ![w][slot] = op], TrueAnswers(op, World')
    PROVE  ops' \in [Windows -> [Slots -> Op]] /\ AnswersAreTrue'
<1>1. /\ ops' \in [Windows -> [Slots -> Op]]
      /\ \A v \in Windows, s \in Slots :
             ops'[v][s] = IF v = w /\ s = slot THEN op ELSE ops[v][s]
  BY OpReplaced
<1>2. ASSUME NEW v \in Windows, NEW s \in Slots
      PROVE  TrueAnswers(ops'[v][s], World')
  <2>1. ops[v][s] \in Op /\ TrueAnswers(ops[v][s], World)
    BY DEF ShapesOK, AnswersAreTrue
  <2>2. TrueAnswers(ops[v][s], World')
    BY <2>1, AnswersLast
  <2> QED
    BY <1>1, <2>2
<1> QED
  BY <1>1, <1>2 DEF AnswersAreTrue

\* No deletion is replaced.
LEMMA AnswersKept ==
    ASSUME ShapesOK, AnswersAreTrue, StaysGone(World, World'), UNCHANGED ops
    PROVE  AnswersAreTrue'
<1>1. ASSUME NEW v \in Windows, NEW s \in Slots
      PROVE  TrueAnswers(ops[v][s], World')
  <2>1. ops[v][s] \in Op /\ TrueAnswers(ops[v][s], World)
    BY DEF ShapesOK, AnswersAreTrue
  <2> QED
    BY <2>1, AnswersLast
<1> QED
  BY <1>1 DEF AnswersAreTrue

\* No record is removed.
LEMMA GoneKept ==
    ASSUME GoneMeansGone, StaysGone(World, World'), UNCHANGED row
    PROVE  GoneMeansGone'
  BY DEF GoneMeansGone, StaysGone

-----------------------------------------------------------------------------
\* Finished meetings with their audio, nothing deleted yet.
LEMMA InitInv == Init => CleanupIInv
<1> SUFFICES ASSUME Init PROVE CleanupIInv
  OBVIOUS
<1>1. ShapesOK
  BY OpForms DEF Init, ShapesOK
<1>2. CleanupTypeOK
  BY DEF Init, CleanupTypeOK
<1>3. AnswersAreTrue
  BY OpForms DEF Init, AnswersAreTrue, TrueAnswers
<1>4. GoneMeansGone
  BY DEF Init, GoneMeansGone
<1> QED
  BY <1>1, <1>2, <1>3, <1>4 DEF CleanupIInv

\* The user's deletion has no answer yet.
LEMMA DeleteMeetingInv ==
    ASSUME CleanupIInv, NEW w \in Windows, NEW m \in Meetings, DeleteMeeting(w, m)
    PROVE  CleanupIInv'
<1> USE DEF CleanupIInv, DeleteMeeting, Remote
<1> DEFINE op == [pc |-> "delete", meeting |-> m]
<1>1. op \in Op /\ op.pc = "delete" /\ "user" \in Slots
  BY DEF Op, Slots
<1>2. TrueAnswers(op, World')
  BY <1>1 DEF TrueAnswers
<1>3. StaysGone(World, World')
  BY SameWorld
<1>4. ops' = [ops EXCEPT ![w]["user"] = op]
  OBVIOUS
<1> HIDE DEF op
<1>5. ops' \in [Windows -> [Slots -> Op]] /\ AnswersAreTrue'
  BY <1>1, <1>2, <1>3, <1>4, AnswersPreserved
<1>6. ShapesOK'
  BY <1>5 DEF ShapesOK
<1>7. CleanupTypeOK'
  BY DEF CleanupTypeOK
<1> QED
  BY <1>3, <1>5, <1>6, <1>7, GoneKept

\* The deletions of a meeting begin without an answer.
LEMMA BeginShapes ==
    ASSUME ShapesOK, AnswersAreTrue, StaysGone(World, World'), CleanupTypeOK,
           NEW w \in Windows, NEW slot \in Slots, NEW m \in Meetings, Begin(w, slot, m)
    PROVE  /\ ops' \in [Windows -> [Slots -> Op]] /\ AnswersAreTrue'
           /\ inFlight' \in [Windows -> SUBSET Meetings]
<1> DEFINE op == [pc |-> "parts", meeting |-> m, local |-> "none", remote |-> FALSE, job |-> NoJob]
<1>1. op \in Op
  BY OpForms DEF Op, Parts
<1>2. TrueAnswers(op, World')
  BY DEF TrueAnswers
<1>3. ops' = [ops EXCEPT ![w][slot] = op]
  BY DEF Begin
<1>4. inFlight' \in [Windows -> SUBSET Meetings]
  BY DEF Begin, CleanupTypeOK
<1> HIDE DEF op
<1> QED
  BY <1>1, <1>2, <1>3, <1>4, AnswersPreserved

\* delete_meeting: tombstone and job appear together.
LEMMA StoreDeleteInv ==
    ASSUME CleanupIInv, NEW w \in Windows, StoreDelete(w)
    PROVE  CleanupIInv'
<1> USE DEF CleanupIInv
<1> DEFINE m == ops[w]["user"].meeting
<1>1. m \in Meetings /\ "user" \in Slots
  <2>1. "user" \in Slots /\ ops[w]["user"].pc = "delete"
    BY DEF Slots, StoreDelete
  <2>2. ops[w]["user"] \in Op
    BY <2>1 DEF ShapesOK
  <2>3. ops[w]["user"] \in [pc : {"delete"}, meeting : Meetings]
    BY <2>1, <2>2, OpForms
  <2> QED
    BY <2>1, <2>3
<1>2. UNCHANGED <<files, gateway, provider, erased, uploads, pass, reconciled>>
  BY DEF StoreDelete, Remote
<1>3. StaysGone(World, World')
  BY <1>2, SameWorld
<1>4. /\ ops' \in [Windows -> [Slots -> Op]] /\ AnswersAreTrue'
      /\ inFlight' \in [Windows -> SUBSET Meetings]
  <2>1. CASE Begin(w, "user", m)
    <3> HIDE DEF m
    <3> QED
      BY <1>1, <1>3, <2>1, BeginShapes
  <2>2. CASE ops' = [ops EXCEPT ![w]["user"] = Idle] /\ UNCHANGED inFlight
    <3>1. Idle \in Op /\ TrueAnswers(Idle, World')
      BY OpForms DEF TrueAnswers
    <3>2. ops' \in [Windows -> [Slots -> Op]] /\ AnswersAreTrue'
      BY <1>1, <1>3, <2>2, <3>1, AnswersPreserved
    <3> QED
      BY <2>2, <3>2 DEF CleanupTypeOK
  <2> QED
    BY <2>1, <2>2 DEF StoreDelete
<1>5. \/ UNCHANGED <<row, job>>
      \/ /\ row[m] # "gone"
         /\ row' = [row EXCEPT ![m] = "tombstoned"]
         /\ job' = [job EXCEPT ![m] = CleanupJob(m)]
  BY DEF StoreDelete
<1> HIDE DEF m
<1>6. CleanupJob(m) \in JobRow /\ CleanupJob(m) # NoJob
  BY <1>1, OpForms DEF CleanupJob, ShapesOK
<1>7. ShapesOK'
  BY <1>1, <1>2, <1>4, <1>5, <1>6 DEF ShapesOK
<1>8. CleanupTypeOK'
  <2>1. /\ row' \in [Meetings -> {"present", "tombstoned", "gone"}]
        /\ \A n \in Meetings : job'[n] # NoJob <=> row'[n] = "tombstoned"
    BY <1>1, <1>5, <1>6, ZenonT(40) DEF CleanupTypeOK, ShapesOK
  <2> QED
    BY <1>2, <1>4, <2>1 DEF CleanupTypeOK
<1>9. GoneMeansGone'
  <2>1. \A n \in Meetings : row'[n] = "gone" => row[n] = "gone"
    BY <1>1, <1>5 DEF CleanupTypeOK
  <2> QED
    BY <1>3, <2>1 DEF GoneMeansGone, StaysGone
<1> QED
  BY <1>4, <1>7, <1>8, <1>9

\* The deletion of a slot that works on its parts.
LEMMA PartsOf ==
    ASSUME ShapesOK, NEW w \in Windows, NEW slot \in Slots, ops[w][slot].pc = "parts"
    PROVE  /\ ops[w][slot] \in Parts /\ ops[w][slot] \in Op
           /\ ops[w][slot].meeting \in Meetings
  BY OpForms DEF ShapesOK, Parts

\* deleteLocalMeetingAssets reports complete only when the files are gone.
LEMMA DeleteLocalInv ==
    ASSUME CleanupIInv, NEW w \in Windows, NEW slot \in Slots, DeleteLocal(w, slot)
    PROVE  CleanupIInv'
<1> USE DEF CleanupIInv
<1> DEFINE old == ops[w][slot]
           m == old.meeting
<1>1. old \in Parts /\ old.pc = "parts" /\ m \in Meetings
  BY PartsOf DEF DeleteLocal
<1>2. PICK good \in BOOLEAN :
          /\ ops' = [ops EXCEPT ![w][slot].local = LocalStatus(good)]
          /\ IF good THEN files' = files \ {m} ELSE files' = files
  BY DEF DeleteLocal
<1>3. UNCHANGED <<row, job, gateway, provider, uploads, erased, inFlight, pass, reconciled>>
  BY DEF DeleteLocal, Remote
<1>4. StaysGone(World, World')
  BY <1>2, <1>3 DEF StaysGone, World, FilesGone, GatewayGone, ProviderGone
<1> DEFINE op == [old EXCEPT !.local = LocalStatus(good)]
<1>5. ops' = [ops EXCEPT ![w][slot] = op]
  BY <1>2
<1>6. /\ op \in Parts /\ op \in Op /\ op.meeting = m /\ op.local = LocalStatus(good)
      /\ op.remote = old.remote /\ op.job = old.job
  BY <1>1 DEF Parts, Op, LocalStatus
<1>7. TrueAnswers(old, World')
  <2>1. old \in Op /\ TrueAnswers(old, World)
    BY <1>1, PartsOf DEF AnswersAreTrue
  <2> HIDE DEF old
  <2> QED
    BY <1>4, <2>1, AnswersLast
<1> HIDE DEF op, old, m
<1>8. TrueAnswers(op, World')
  <2>1. op.local = "complete" => FilesGone(m, World')
    BY <1>2, <1>6 DEF LocalStatus, FilesGone, World
  <2> QED
    BY <1>1, <1>6, <1>7, <2>1 DEF TrueAnswers, m
<1>9. ops' \in [Windows -> [Slots -> Op]] /\ AnswersAreTrue'
  BY <1>4, <1>5, <1>6, <1>8, AnswersPreserved, ZenonT(40)
<1>10. ShapesOK'
  BY <1>3, <1>9 DEF ShapesOK
<1>11. CleanupTypeOK'
  BY <1>2, <1>3 DEF CleanupTypeOK
<1> QED
  BY <1>3, <1>4, <1>9, <1>10, <1>11, GoneKept

\* The reply of the gateway is true when it is recorded.
LEMMA DeleteRemoteInv ==
    ASSUME CleanupIInv, Routing = "hosted",
           NEW w \in Windows, NEW slot \in Slots, DeleteRemote(w, slot)
    PROVE  CleanupIInv'
<1> USE DEF CleanupIInv
<1>1. PICK old \in Parts, m \in Meetings :
          old = ops[w][slot] /\ old.meeting = m /\ old \in Op
  BY PartsOf, ZenonT(40) DEF DeleteRemote
<1> DEFINE Answer(g, p) == [old EXCEPT !.remote = TRUE, !.job.gateway = g, !.job.provider = p]
           Asked == \E g \in Deleted(gateway[m], FALSE), p \in Deleted(provider[m], TRUE) :
                       /\ gateway' = [gateway EXCEPT ![m] = g[1]]
                       /\ provider' = [provider EXCEPT ![m] = p[1]]
                       /\ ops' = [ops EXCEPT ![w][slot] = Answer(g[2], p[2])]
                       /\ erased' = erased \union {m}
           NotAsked == /\ ops' = [ops EXCEPT ![w][slot] = Answer("retry_wait", "retry_wait")]
                       /\ UNCHANGED <<gateway, provider, erased>>
<1>2. Asked \/ NotAsked
  BY <1>1, ZenonT(40) DEF DeleteRemote, Remote
<1>3. UNCHANGED <<row, job, files, uploads, inFlight, pass, reconciled>>
  BY ZenonT(40) DEF DeleteRemote, Remote
<1>4. \A n \in Meetings : /\ gateway[n] \in {"none", "held", "deleting"}
                          /\ provider[n] \in {"none", "held", "deleting", "retained"}
  BY SMTT(30) DEF CleanupTypeOK
\* The two statuses g and p, and what they say of the data.
<1>5. PICK g \in JobStatus, p \in JobStatus :
          /\ ops' = [ops EXCEPT ![w][slot] = Answer(g, p)]
          /\ gateway' \in [Meetings -> {"none", "held", "deleting"}]
          /\ provider' \in [Meetings -> {"none", "held", "deleting", "retained"}]
          /\ erased' \subseteq Meetings
          /\ CleanupTerminal(g) => m \in erased' /\ gateway'[m] = "none"
          /\ CleanupTerminal(p) => m \in erased' /\ provider'[m] \in {"none", "retained"}
          /\ StaysGone(World, World')
  <2>1. CASE Asked
    <3>1. PICK gg \in Deleted(gateway[m], FALSE) : \E pp \in Deleted(provider[m], TRUE) :
              /\ gateway' = [gateway EXCEPT ![m] = gg[1]]
              /\ provider' = [provider EXCEPT ![m] = pp[1]]
              /\ ops' = [ops EXCEPT ![w][slot] = Answer(gg[2], pp[2])]
              /\ erased' = erased \union {m}
      BY <2>1
    <3>2. PICK pp \in Deleted(provider[m], TRUE) :
              /\ gateway' = [gateway EXCEPT ![m] = gg[1]]
              /\ provider' = [provider EXCEPT ![m] = pp[1]]
              /\ ops' = [ops EXCEPT ![w][slot] = Answer(gg[2], pp[2])]
              /\ erased' = erased \union {m}
      BY <3>1
    <3>3. /\ gg[1] \in {"none", "held", "deleting"} /\ gg[2] \in JobStatus
          /\ CleanupTerminal(gg[2]) => gg[1] = "none"
          /\ gateway[m] = "none" => gg[1] = "none"
      BY <1>4, DeletedAnswers
    <3>4. /\ pp[1] \in {"none", "held", "deleting", "retained"} /\ pp[2] \in JobStatus
          /\ CleanupTerminal(pp[2]) => pp[1] \in {"none", "retained"}
          /\ provider[m] \in {"none", "retained"} => pp[1] \in {"none", "retained"}
      BY <1>4, DeletedAnswers
    <3> HIDE DEF Answer
    <3>5. /\ gateway' \in [Meetings -> {"none", "held", "deleting"}]
          /\ provider' \in [Meetings -> {"none", "held", "deleting", "retained"}]
          /\ erased' \subseteq Meetings /\ m \in erased'
          /\ gateway'[m] = gg[1] /\ provider'[m] = pp[1]
          /\ \A n \in Meetings \ {m} : gateway'[n] = gateway[n] /\ provider'[n] = provider[n]
      BY <3>2, <3>3, <3>4 DEF CleanupTypeOK
    <3>6. StaysGone(World, World')
      <4>1. erased \subseteq erased' /\ files' = files
        BY <1>3, <3>2
      <4> QED
        BY <3>3, <3>4, <3>5, <4>1 DEF StaysGone, World, FilesGone, GatewayGone, ProviderGone
    <3> QED
      BY <3>2, <3>3, <3>4, <3>5, <3>6
  <2>2. CASE NotAsked
    <3>1. "retry_wait" \in JobStatus /\ ~CleanupTerminal("retry_wait")
      BY DEF JobStatus, CleanupTerminal
    <3>2. StaysGone(World, World')
      BY <1>3, <2>2, SameWorld
    <3> HIDE DEF Answer
    <3> QED
      BY <2>2, <3>1, <3>2 DEF CleanupTypeOK
  <2> QED
    BY <1>2, <2>1, <2>2
<1> HIDE DEF Asked, NotAsked
<1> DEFINE op == Answer(g, p)
<1>6. /\ op \in Parts /\ op \in Op /\ op.meeting = m /\ op.local = old.local
      /\ op.job.gateway = g /\ op.job.provider = p
  BY <1>1 DEF Parts, Op, JobRow
<1> HIDE DEF Answer
<1>7. TrueAnswers(old, World')
  <2>1. TrueAnswers(old, World)
    BY <1>1 DEF AnswersAreTrue
  <2> QED
    BY <1>1, <1>5, <2>1, AnswersLast
<1>8. TrueAnswers(op, World')
  <2> HIDE DEF op
  <2>1. op.local = "complete" => FilesGone(m, World')
    BY <1>1, <1>6, <1>7 DEF TrueAnswers, Parts
  <2>2. CleanupTerminal(g) => GatewayGone(m, World')
    BY <1>5 DEF GatewayGone, World
  <2>3. CleanupTerminal(p) => ProviderGone(m, World')
    BY <1>5 DEF ProviderGone, World
  <2> QED
    BY <1>6, <2>1, <2>2, <2>3 DEF TrueAnswers
<1>9. ops' \in [Windows -> [Slots -> Op]] /\ AnswersAreTrue'
  <2>1. ops' = [ops EXCEPT ![w][slot] = op] /\ StaysGone(World, World')
    BY <1>5
  <2> HIDE DEF op
  <2> QED
    BY <1>6, <1>8, <2>1, AnswersPreserved
<1>10. ShapesOK'
  BY <1>3, <1>9 DEF ShapesOK
<1>11. CleanupTypeOK'
  BY <1>3, <1>5 DEF CleanupTypeOK
<1> QED
  BY <1>3, <1>5, <1>9, <1>10, <1>11, GoneKept

\* confirm_cleanup removes the records only on true, terminal answers.
LEMMA ConfirmCleanupInv ==
    ASSUME CleanupIInv, NEW w \in Windows, NEW slot \in Slots, ConfirmCleanup(w, slot)
    PROVE  CleanupIInv'
<1> USE DEF CleanupIInv
<1>1. PICK old \in Parts, m \in Meetings :
          old = ops[w][slot] /\ old.meeting = m /\ old \in Op
  BY PartsOf DEF ConfirmCleanup
<1> DEFINE parts == [old.job EXCEPT !.local = old.local]
<1>2. old.local # "none" /\ old.remote
  BY <1>1 DEF ConfirmCleanup
<1>3. UNCHANGED <<files, gateway, provider, erased, uploads, reconciled>>
  BY DEF ConfirmCleanup, Remote
<1>4. /\ ops' = [ops EXCEPT ![w][slot] = Idle]
      /\ inFlight' = [inFlight EXCEPT ![w] = @ \ {m}]
      /\ pass' \in {pass, [pass EXCEPT ![w] = Idle]}
  BY <1>1 DEF ConfirmCleanup, Finish
<1>5. \/ UNCHANGED <<row, job>>
      \/ /\ job[m] # NoJob
         /\ job' = [job EXCEPT ![m] = IF Terminal(parts) THEN NoJob ELSE parts]
         /\ row' = [row EXCEPT ![m] = IF Terminal(parts) THEN "gone" ELSE @]
  BY <1>1 DEF ConfirmCleanup
<1>6. StaysGone(World, World')
  BY <1>3, SameWorld
<1>7. ops' \in [Windows -> [Slots -> Op]] /\ AnswersAreTrue'
  <2>1. Idle \in Op /\ TrueAnswers(Idle, World')
    BY OpForms DEF TrueAnswers
  <2> QED
    BY <1>4, <1>6, <2>1, AnswersPreserved
<1>8. /\ parts \in JobRow /\ parts.local = old.local
      /\ parts.gateway = old.job.gateway /\ parts.provider = old.job.provider
  BY <1>1 DEF Parts, JobRow, JobStatus
<1> HIDE DEF parts
<1>9. parts # NoJob
  BY <1>2, <1>8, OpForms
<1>10. Terminal(parts) => /\ FilesGone(m, World) /\ GatewayGone(m, World)
                          /\ ProviderGone(m, World)
  <2> SUFFICES ASSUME Terminal(parts)
               PROVE  FilesGone(m, World) /\ GatewayGone(m, World) /\ ProviderGone(m, World)
    OBVIOUS
  <2>1. /\ CleanupTerminal(old.local) /\ CleanupTerminal(old.job.gateway)
        /\ CleanupTerminal(old.job.provider)
    BY <1>8 DEF Terminal, Statuses
  <2>2. old.local = "complete" /\ old.pc = "parts"
    BY <2>1 DEF CleanupTerminal, Parts
  <2>3. TrueAnswers(old, World)
    BY <1>1 DEF AnswersAreTrue
  <2> QED
    BY <1>1, <1>2, <2>1, <2>2, <2>3 DEF TrueAnswers
<1>11. ShapesOK'
  <2>1. job' \in [Meetings -> JobRow]
    BY <1>5, <1>8, OpForms DEF ShapesOK
  <2>2. pass' \in [Windows -> Pass]
    BY <1>4, OpForms DEF ShapesOK
  <2> QED
    BY <1>7, <2>1, <2>2 DEF ShapesOK
<1>12. CleanupTypeOK'
  <2>1. /\ row' \in [Meetings -> {"present", "tombstoned", "gone"}]
        /\ \A n \in Meetings : job'[n] # NoJob <=> row'[n] = "tombstoned"
    <3>1. CASE UNCHANGED <<row, job>>
      BY <3>1 DEF CleanupTypeOK
    <3>2. CASE /\ job[m] # NoJob
               /\ job' = [job EXCEPT ![m] = IF Terminal(parts) THEN NoJob ELSE parts]
               /\ row' = [row EXCEPT ![m] = IF Terminal(parts) THEN "gone" ELSE @]
      BY <1>9, <3>2 DEF CleanupTypeOK, ShapesOK
    <3> QED
      BY <1>5, <3>1, <3>2
  <2>2. inFlight' \in [Windows -> SUBSET Meetings]
    BY <1>4 DEF CleanupTypeOK
  <2> QED
    BY <1>3, <2>1, <2>2 DEF CleanupTypeOK
<1>13. GoneMeansGone'
  <2>1. \A n \in Meetings : row'[n] = "gone" => row[n] = "gone" \/ (n = m /\ Terminal(parts))
    BY <1>5 DEF CleanupTypeOK
  <2> QED
    BY <1>6, <1>10, <2>1 DEF GoneMeansGone, StaysGone
<1> QED
  BY <1>7, <1>11, <1>12, <1>13

\* recover touches the statuses of a job, never whether there is one.
LEMMA RecoverMeetingJobsInv ==
    ASSUME CleanupIInv, NEW w \in Windows, RecoverMeetingJobs(w)
    PROVE  CleanupIInv'
<1> USE DEF CleanupIInv
<1> DEFINE startup == ~reconciled[w]
           jobs == IF startup THEN [m \in Meetings |-> Reconcile(job[m])] ELSE job
           todo == {[meeting |-> m, job |-> jobs[m]] : m \in {n \in Meetings : Listed(jobs[n])}}
<1>1. UNCHANGED <<row, files, gateway, provider, erased, uploads, ops, inFlight>>
  BY DEF RecoverMeetingJobs, Remote
<1>2. jobs \in [Meetings -> JobRow] /\ \A m \in Meetings : jobs[m] = NoJob <=> job[m] = NoJob
  BY ReconcileRow DEF ShapesOK
<1>3. job' \in {job, jobs}
  BY DEF RecoverMeetingJobs
<1>4. pass' \in [Windows -> Pass] /\ reconciled' \in [Windows -> BOOLEAN]
  <2>1. CASE UNCHANGED <<pass, reconciled>>
    BY <2>1 DEF ShapesOK, CleanupTypeOK
  <2>2. CASE /\ pass' = [pass EXCEPT ![w] = [pc |-> "jobs", startup |-> startup, todo |-> todo]]
             /\ reconciled' = [reconciled EXCEPT ![w] = TRUE]
    <3>1. todo \subseteq [meeting : Meetings, job : JobRow]
      <4> HIDE DEF jobs
      <4> QED
        BY <1>2
    <3>2. startup \in BOOLEAN
      OBVIOUS
    <3> HIDE DEF todo, startup
    <3>3. [pc |-> "jobs", startup |-> startup, todo |-> todo] \in Pass
      BY <3>1, <3>2 DEF Pass
    <3> QED
      BY <2>2, <3>3 DEF ShapesOK, CleanupTypeOK
  <2> QED
    BY <2>1, <2>2 DEF RecoverMeetingJobs
<1> HIDE DEF jobs
<1>5. StaysGone(World, World')
  BY <1>1, SameWorld
<1>6. AnswersAreTrue'
  BY <1>1, <1>5, AnswersKept
<1>7. ShapesOK'
  BY <1>1, <1>2, <1>3, <1>4 DEF ShapesOK
<1>8. CleanupTypeOK'
  <2>1. \A m \in Meetings : job'[m] # NoJob <=> row'[m] = "tombstoned"
    BY <1>1, <1>2, <1>3 DEF CleanupTypeOK
  <2> QED
    BY <1>1, <1>4, <2>1 DEF CleanupTypeOK
<1> QED
  BY <1>1, <1>5, <1>6, <1>7, <1>8, GoneKept

\* A pass begins a deletion without an answer.
LEMMA ResumeCleanupInv ==
    ASSUME CleanupIInv, NEW w \in Windows, ResumeCleanup(w)
    PROVE  CleanupIInv'
<1> USE DEF CleanupIInv
<1>1. UNCHANGED <<row, job, files, gateway, provider, erased, uploads, reconciled>>
  BY DEF ResumeCleanup, Remote
<1>2. pass[w] \in [pc : {"jobs"}, startup : BOOLEAN,
                   todo : SUBSET [meeting : Meetings, job : JobRow]]
  <2>1. pass[w] \in Pass /\ pass[w].pc = "jobs"
    BY DEF ResumeCleanup, ShapesOK
  <2> QED
    BY <2>1, OpForms DEF Pass
<1>3. PICK next \in pass[w].todo :
          /\ pass' = [pass EXCEPT ![w].todo = @ \ {next}]
          /\ Begin(w, "pass", next.meeting) \/ UNCHANGED <<ops, inFlight>>
  BY DEF ResumeCleanup
<1>4. next.meeting \in Meetings /\ "pass" \in Slots
  BY <1>2 DEF Slots
<1>5. pass' \in [Windows -> Pass]
  <2>1. [pass[w] EXCEPT !.todo = @ \ {next}] \in Pass
    BY <1>2 DEF Pass
  <2> QED
    BY <1>3, <2>1 DEF ShapesOK
<1>6. StaysGone(World, World')
  BY <1>1, SameWorld
<1>7. /\ ops' \in [Windows -> [Slots -> Op]] /\ AnswersAreTrue'
      /\ inFlight' \in [Windows -> SUBSET Meetings]
  <2>1. CASE Begin(w, "pass", next.meeting)
    BY <1>4, <1>6, <2>1, BeginShapes
  <2>2. CASE UNCHANGED <<ops, inFlight>>
    BY <1>6, <2>2, AnswersKept DEF ShapesOK, CleanupTypeOK
  <2> QED
    BY <1>3, <2>1, <2>2
<1>8. ShapesOK'
  BY <1>1, <1>5, <1>7 DEF ShapesOK
<1>9. CleanupTypeOK'
  BY <1>1, <1>7 DEF CleanupTypeOK
<1> QED
  BY <1>1, <1>6, <1>7, <1>8, <1>9, GoneKept

\* A pass has seen its jobs.
LEMMA PassEndsInv ==
    ASSUME CleanupIInv, NEW w \in Windows, PassEnds(w)
    PROVE  CleanupIInv'
<1> USE DEF CleanupIInv, PassEnds, Remote
<1>1. StaysGone(World, World')
  BY SameWorld
<1>2. ShapesOK'
  BY OpForms DEF ShapesOK
<1>3. CleanupTypeOK'
  BY DEF CleanupTypeOK
<1> QED
  BY <1>1, <1>2, <1>3, AnswersKept, GoneKept

\* A launch forgets the deletions of the window and keeps the store.
LEMMA LaunchInv ==
    ASSUME CleanupIInv, NEW w \in Windows, Launch(w)
    PROVE  CleanupIInv'
<1> USE DEF CleanupIInv, Launch, Remote
<1>1. StaysGone(World, World')
  BY SameWorld
<1>2. /\ ops' \in [Windows -> [Slots -> Op]]
      /\ \A v \in Windows, s \in Slots : ops'[v][s] = IF v = w THEN Idle ELSE ops[v][s]
  BY OpForms DEF ShapesOK
<1>3. AnswersAreTrue'
  <2>1. ASSUME NEW v \in Windows, NEW s \in Slots PROVE TrueAnswers(ops'[v][s], World')
    <3>1. TrueAnswers(Idle, World')
      BY OpForms DEF TrueAnswers
    <3>2. ops[v][s] \in Op /\ TrueAnswers(ops[v][s], World)
      BY DEF ShapesOK, AnswersAreTrue
    <3>3. TrueAnswers(ops[v][s], World')
      BY <1>1, <3>2, AnswersLast
    <3> QED
      BY <1>2, <3>1, <3>3
  <2> QED
    BY <2>1 DEF AnswersAreTrue
<1>4. ShapesOK'
  BY <1>2, OpForms DEF ShapesOK
<1>5. CleanupTypeOK'
  BY DEF CleanupTypeOK
<1> QED
  BY <1>1, <1>3, <1>4, <1>5, GoneKept

\* An upload that arrives after the deletion is refused, so nothing comes back.
LEMMA UploadInv ==
    ASSUME CleanupIInv, NEW m \in Meetings, Upload(m)
    PROVE  CleanupIInv'
<1> USE DEF CleanupIInv, Upload
<1>1. StaysGone(World, World')
  BY DEF StaysGone, World, FilesGone, GatewayGone, ProviderGone, CleanupTypeOK
<1>2. ShapesOK'
  BY DEF ShapesOK
<1>3. CleanupTypeOK'
  BY DEF CleanupTypeOK
<1> QED
  BY <1>1, <1>2, <1>3, AnswersKept, GoneKept

\* The gateway or a provider finishes what it accepted.
LEMMA RemoteFinishesInv ==
    ASSUME CleanupIInv, NEW m \in Meetings, RemoteFinishes(m)
    PROVE  CleanupIInv'
<1> USE DEF CleanupIInv, RemoteFinishes
<1>1. StaysGone(World, World')
  BY DEF StaysGone, World, FilesGone, GatewayGone, ProviderGone, CleanupTypeOK
<1>2. ShapesOK'
  BY DEF ShapesOK
<1>3. CleanupTypeOK'
  BY DEF CleanupTypeOK
<1> QED
  BY <1>1, <1>2, <1>3, AnswersKept, GoneKept

-----------------------------------------------------------------------------
\* One step, action by action.
LEMMA NextInv == Routing = "hosted" /\ CleanupIInv /\ [Next]_vars => CleanupIInv'
<1> SUFFICES ASSUME Routing = "hosted", CleanupIInv, [Next]_vars PROVE CleanupIInv'
  OBVIOUS
<1>1. ASSUME NEW w \in Windows, NEW m \in Meetings, DeleteMeeting(w, m) PROVE CleanupIInv'
  BY <1>1, DeleteMeetingInv
<1>2. ASSUME NEW w \in Windows,
             StoreDelete(w) \/ RecoverMeetingJobs(w) \/ ResumeCleanup(w) \/ PassEnds(w)
                 \/ Launch(w)
      PROVE  CleanupIInv'
  BY <1>2, StoreDeleteInv, RecoverMeetingJobsInv, ResumeCleanupInv, PassEndsInv, LaunchInv
<1>3. ASSUME NEW w \in Windows, NEW slot \in Slots,
             DeleteLocal(w, slot) \/ DeleteRemote(w, slot) \/ ConfirmCleanup(w, slot)
      PROVE  CleanupIInv'
  BY <1>3, DeleteLocalInv, DeleteRemoteInv, ConfirmCleanupInv
<1>4. ASSUME NEW m \in Meetings, Upload(m) \/ RemoteFinishes(m) PROVE CleanupIInv'
  BY <1>4, UploadInv, RemoteFinishesInv
<1>5. CASE UNCHANGED vars
  BY <1>5 DEF vars, Remote, CleanupIInv, ShapesOK, CleanupTypeOK, AnswersAreTrue,
              GoneMeansGone, World
<1> QED
  BY <1>1, <1>2, <1>3, <1>4, <1>5 DEF Next

(***************************************************************************)
(* With hosted routing, a meeting's records are removed only when nothing  *)
(* of it is left, although confirmations carry old answers, calls fail,    *)
(* windows delete the same meeting and an upload arrives late.             *)
(***************************************************************************)
THEOREM NoRecordGoesFirst ==
    ASSUME Routing = "hosted"
    PROVE  Spec => []CleanupInv
<1>1. CleanupIInv /\ [Next]_vars => CleanupIInv'
  BY NextInv
<1>2. CleanupIInv => CleanupInv
  BY DEF CleanupIInv, CleanupInv, NothingLeftBehind, GoneMeansGone, FilesGone, GatewayGone,
         ProviderGone, World
<1> QED
  BY <1>1, <1>2, InitInv, PTL DEF Spec
=============================================================================
