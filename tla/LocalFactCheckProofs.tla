------------------------ MODULE LocalFactCheckProofs ------------------------
(***************************************************************************)
(* Proofs that the direct fact-check service keeps its promises for every  *)
(* number of jobs, meetings, failing file operations and restarts:         *)
(* LocalIInv is inductive, and a released meeting stays gone.              *)
(***************************************************************************)
EXTENDS LocalFactChecks, SequenceTheorems, TLAPS

-----------------------------------------------------------------------------
(* The inductive invariant.                                                *)

\* A renamed file has the status that is about to be published (persistJob).
RenamedIsStored ==
    \A m \in Meetings :
        (saves[m] # <<>> /\ m \notin released /\ Head(saves[m]).pc = "renamed")
            => disk[Head(saves[m]).job] = Head(saves[m]).status

\* A job of a meeting that is not released is cached while it is queued, is not queued
\* while a call for it is in flight, and is runnable while it runs (enqueue, getJob,
\* runJob).
CacheIsCurrent(j) ==
    /\ Queued(j) => mem[j] # "none" /\ calls[j] = "none"
    /\ calls[j] \in {"submit", "poll"} => mem[j] = "none"
    /\ calls[j] = "saving" => mem[j] = "pending"
    /\ WorksOn(QueueOf[j], j) => IsRunnable(mem[j])

CachesAreCurrent == \A j \in Jobs : ~Released(j) => CacheIsCurrent(j)

\* A meeting is marked before it is removed, and then nothing is saved for it any more
\* (releaseMeeting).
ReleasesAreOrdered ==
    \A m \in Meetings :
        /\ releasing[m] # "none" => m \in released
        /\ releasing[m] = "done" => m \notin dir /\ saves[m] = <<>>

\* The inductive invariant: LocalInv and what it needs to survive a step.
LocalIInv ==
    /\ LocalInv
    /\ RenamedIsStored
    /\ CachesAreCurrent
    /\ ReleasesAreOrdered
    /\ ReportedIsDurable

-----------------------------------------------------------------------------
(* Sequences, element by element.                                          *)

\* A sequence without its head.
LEMMA TailElements ==
    ASSUME NEW S, NEW s \in Seq(S), s # <<>>
    PROVE  /\ Head(s) = s[1] /\ Head(s) \in S /\ Tail(s) \in Seq(S)
           /\ DOMAIN s = 1..Len(s) /\ Len(s) \in Nat /\ Len(s) >= 1
           /\ 1 \in DOMAIN s
           /\ DOMAIN Tail(s) = 1..(Len(s) - 1)
           /\ \A i \in DOMAIN Tail(s) : i + 1 \in DOMAIN s /\ Tail(s)[i] = s[i + 1]
           /\ \A i \in DOMAIN s : i # 1 => i - 1 \in DOMAIN Tail(s) /\ Tail(s)[i - 1] = s[i]
<1>1. Len(s) \in Nat /\ Len(s) >= 1 /\ DOMAIN s = 1..Len(s)
  OBVIOUS
<1>2. Tail(s) \in Seq(S) /\ Len(Tail(s)) = Len(s) - 1 /\ Head(s) \in S
  BY HeadTailProperties
<1>3. DOMAIN Tail(s) = 1..(Len(s) - 1)
  BY <1>1, <1>2
<1>4. \A i \in 1..(Len(s) - 1) : Tail(s)[i] = s[i + 1]
  BY <1>2, HeadTailProperties
<1> QED
  BY <1>1, <1>2, <1>3, <1>4

\* A sequence with one more element.
LEMMA AppendElements ==
    ASSUME NEW S, NEW s \in Seq(S), NEW e \in S
    PROVE  /\ Append(s, e) \in Seq(S) /\ Append(s, e) # <<>>
           /\ DOMAIN s = 1..Len(s) /\ Len(s) \in Nat
           /\ DOMAIN Append(s, e) = 1..(Len(s) + 1)
           /\ Append(s, e)[Len(s) + 1] = e
           /\ \A i \in DOMAIN s : i \in DOMAIN Append(s, e) /\ Append(s, e)[i] = s[i]
           /\ \A i \in DOMAIN Append(s, e) : i = Len(s) + 1 \/ i \in DOMAIN s
           /\ s # <<>> => Head(Append(s, e)) = Head(s)
<1>1. Len(s) \in Nat /\ DOMAIN s = 1..Len(s)
  OBVIOUS
<1>2. /\ Append(s, e) \in Seq(S) /\ Append(s, e) # <<>> /\ Len(Append(s, e)) = Len(s) + 1
      /\ Append(s, e)[Len(s) + 1] = e
      /\ \A i \in 1..Len(s) : Append(s, e)[i] = s[i]
  BY AppendProperties
<1>3. DOMAIN Append(s, e) = 1..(Len(s) + 1)
  BY <1>2
<1>4. s # <<>> => Head(Append(s, e)) = Head(s)
  BY HeadTailAppend
<1> QED
  BY <1>1, <1>2, <1>3, <1>4

-----------------------------------------------------------------------------
(* The work queues.                                                        *)

\* What the queues promise by themselves.
QueueInv ==
    /\ lines \in [Queues -> Seq(Jobs)]
    /\ run \in [Queues -> {"idle", "marking", "working", "saving"}]
    /\ OneRunPerJob
    /\ QueuesHoldTheirJobs

\* enqueue adds the job at most once, and behind a running one.
LEMMA EnqueueQueues ==
    ASSUME QueueInv, NEW j \in Jobs, NEW status, Enqueue(j, status), run' = run
    PROVE  /\ QueueInv'
           /\ \A k \in Jobs : Queued(k)' <=> (Queued(k) \/ (k = j /\ Enqueues(j, status)))
           /\ \A q \in Queues, k \in Jobs : WorksOn(q, k)' <=> WorksOn(q, k)
<1>1. CASE ~Enqueues(j, status)
  BY <1>1 DEF Enqueue, QueueInv, OneRunPerJob, QueuesHoldTheirJobs, Queued, WorksOn
<1>2. CASE Enqueues(j, status)
  <2> DEFINE p == QueueOf[j]
  <2>1. p \in Queues
    BY LocalFactCheckAssumption DEF LocalFactCheckAssumption, Queues
  <2>2. lines' = [lines EXCEPT ![p] = Append(lines[p], j)]
    BY <1>2 DEF Enqueue
  <2>3. \A q \in Queues : lines[q] \in Seq(Jobs)
    BY DEF QueueInv
  <2>4. lines'[p] = Append(lines[p], j) /\ \A q \in Queues \ {p} : lines'[q] = lines[q]
    BY <2>1, <2>2 DEF QueueInv
  <2>5. /\ lines'[p] \in Seq(Jobs) /\ lines'[p] # <<>>
        /\ DOMAIN lines[p] = 1..Len(lines[p]) /\ Len(lines[p]) \in Nat
        /\ DOMAIN lines'[p] = 1..(Len(lines[p]) + 1)
        /\ lines'[p][Len(lines[p]) + 1] = j
        /\ \A i \in DOMAIN lines[p] : i \in DOMAIN lines'[p] /\ lines'[p][i] = lines[p][i]
        /\ \A i \in DOMAIN lines'[p] : i = Len(lines[p]) + 1 \/ i \in DOMAIN lines[p]
        /\ lines[p] # <<>> => Head(lines'[p]) = Head(lines[p])
    BY <2>1, <2>3, <2>4, AppendElements
  <2>6. lines' \in [Queues -> Seq(Jobs)]
    BY <2>1, <2>2, <2>3, <2>4, <2>5 DEF QueueInv
  <2>7. ~Queued(j)
    BY <1>2 DEF Enqueues
  <2> HIDE DEF p
  <2>8. OneRunPerJob'
    <3> SUFFICES ASSUME NEW q \in Queues, NEW n \in DOMAIN lines'[q], NEW k \in DOMAIN lines'[q],
                        lines'[q][n] = lines'[q][k]
                 PROVE  n = k
      BY DEF OneRunPerJob
    <3>1. CASE q = p
      <4>1. \A i \in DOMAIN lines[p] : lines[p][i] # j
        BY <2>1, <2>7 DEF Queued
      <4>2. \A a, b \in DOMAIN lines[p] : lines[p][a] = lines[p][b] => a = b
        BY <2>1 DEF QueueInv, OneRunPerJob
      <4> QED
        BY <3>1, <4>1, <4>2, <2>5
    <3>2. CASE q # p
      BY <3>2, <2>4 DEF QueueInv, OneRunPerJob
    <3> QED
      BY <3>1, <3>2
  <2>9. QueuesHoldTheirJobs'
    <3>1. \A n \in DOMAIN lines'[p] : QueueOf[lines'[p][n]] = p
      BY <2>1, <2>5 DEF QueueInv, QueuesHoldTheirJobs, p
    <3> QED
      BY <3>1, <2>1, <2>4, <2>5 DEF QueueInv, QueuesHoldTheirJobs
  <2>10. ASSUME NEW k \in Jobs PROVE Queued(k)' <=> (Queued(k) \/ k = j)
    <3>1. \A q \in Queues \ {p} : (\E n \in DOMAIN lines'[q] : lines'[q][n] = k)
                                    <=> (\E n \in DOMAIN lines[q] : lines[q][n] = k)
      BY <2>4
    <3>2. (\E n \in DOMAIN lines'[p] : lines'[p][n] = k)
             <=> ((\E n \in DOMAIN lines[p] : lines[p][n] = k) \/ k = j)
      <4>1. Len(lines[p]) + 1 \in DOMAIN lines'[p]
        BY <2>5
      <4> QED
        BY <4>1, <2>5
    <3> QED
      BY <3>1, <3>2, <2>1 DEF Queued
  <2>11. \A q \in Queues, k \in Jobs : WorksOn(q, k)' <=> WorksOn(q, k)
    BY <2>1, <2>4, <2>5 DEF QueueInv, QueuesHoldTheirJobs, WorksOn
  <2> QED
    BY <1>2, <2>6, <2>8, <2>9, <2>10, <2>11 DEF QueueInv
<1> QED
  BY <1>1, <1>2

\* The end of a run takes its job out of the queue.
LEMMA EndsQueues ==
    ASSUME QueueInv, NEW q \in Queues, lines[q] # <<>>, Ends(q)
    PROVE  /\ QueueInv' /\ run'[q] = "idle"
           /\ \A p \in Queues \ {q} : run'[p] = run[p]
           /\ \A k \in Jobs : Queued(k)' <=> (Queued(k) /\ k # Head(lines[q]))
           /\ \A p \in Queues, k \in Jobs : WorksOn(p, k)' <=> (p # q /\ WorksOn(p, k))
<1>1. \A p \in Queues : lines[p] \in Seq(Jobs)
  BY DEF QueueInv
<1>2. lines'[q] = Tail(lines[q]) /\ \A p \in Queues \ {q} : lines'[p] = lines[p]
  BY DEF QueueInv, Ends
<1>3. run'[q] = "idle" /\ \A p \in Queues \ {q} : run'[p] = run[p]
  BY DEF QueueInv, Ends
<1>4. /\ Head(lines[q]) = lines[q][1] /\ Head(lines[q]) \in Jobs /\ lines'[q] \in Seq(Jobs)
      /\ DOMAIN lines[q] = 1..Len(lines[q]) /\ Len(lines[q]) \in Nat /\ 1 \in DOMAIN lines[q]
      /\ DOMAIN lines'[q] = 1..(Len(lines[q]) - 1)
      /\ \A i \in DOMAIN lines'[q] : i + 1 \in DOMAIN lines[q] /\ lines'[q][i] = lines[q][i + 1]
      /\ \A i \in DOMAIN lines[q] : i # 1 => i - 1 \in DOMAIN lines'[q]
                                             /\ lines'[q][i - 1] = lines[q][i]
  BY <1>1, <1>2, TailElements
<1>5. lines' \in [Queues -> Seq(Jobs)] /\ run' \in [Queues -> {"idle", "marking", "working", "saving"}]
  BY <1>1, <1>2, <1>4 DEF QueueInv, Ends
<1>10. \A a, b \in DOMAIN lines[q] : lines[q][a] = lines[q][b] => a = b
  BY DEF QueueInv, OneRunPerJob
<1>6. OneRunPerJob'
  <2> SUFFICES ASSUME NEW p \in Queues, NEW n \in DOMAIN lines'[p], NEW k \in DOMAIN lines'[p],
                      lines'[p][n] = lines'[p][k]
               PROVE  n = k
    BY DEF OneRunPerJob
  <2>1. CASE p = q
    <3>1. n + 1 \in DOMAIN lines[q] /\ k + 1 \in DOMAIN lines[q]
          /\ lines[q][n + 1] = lines[q][k + 1]
      BY <2>1, <1>4
    <3>2. n + 1 = k + 1
      BY <3>1, <1>10
    <3> QED
      BY <3>2, <2>1, <1>4
  <2>2. CASE p # q
    BY <2>2, <1>2 DEF QueueInv, OneRunPerJob
  <2> QED
    BY <2>1, <2>2
<1>7. QueuesHoldTheirJobs'
  BY <1>2, <1>3, <1>4 DEF QueueInv, QueuesHoldTheirJobs
<1>8. ASSUME NEW k \in Jobs PROVE Queued(k)' <=> (Queued(k) /\ k # Head(lines[q]))
  <2>1. ASSUME Queued(k)' PROVE Queued(k) /\ k # Head(lines[q])
    <3>0. PICK p \in Queues : \E n \in DOMAIN lines'[p] : lines'[p][n] = k
      BY <2>1 DEF Queued
    <3>1. PICK n \in DOMAIN lines'[p] : lines'[p][n] = k
      BY <3>0
    <3>2. CASE p = q
      <4>1. n + 1 \in DOMAIN lines[q] /\ lines[q][n + 1] = k /\ n + 1 # 1
        BY <3>1, <3>2, <1>4
      <4> QED
        BY <4>1, <1>10, <1>4 DEF Queued
    <3>3. CASE p # q
      BY <3>1, <3>3, <1>2, <1>4 DEF QueueInv, QueuesHoldTheirJobs, Queued
    <3> QED
      BY <3>2, <3>3
  <2>2. ASSUME Queued(k), k # Head(lines[q]) PROVE Queued(k)'
    <3>0. PICK p \in Queues : \E n \in DOMAIN lines[p] : lines[p][n] = k
      BY <2>2 DEF Queued
    <3>1. PICK n \in DOMAIN lines[p] : lines[p][n] = k
      BY <3>0
    <3>2. CASE p = q
      <4>1. n - 1 \in DOMAIN lines'[q] /\ lines'[q][n - 1] = k
        BY <2>2, <3>1, <3>2, <1>4
      <4> QED
        BY <4>1 DEF Queued
    <3>3. CASE p # q
      BY <3>1, <3>3, <1>2 DEF Queued
    <3> QED
      BY <3>2, <3>3
  <2> QED
    BY <2>1, <2>2
<1>9. \A p \in Queues, k \in Jobs : WorksOn(p, k)' <=> (p # q /\ WorksOn(p, k))
  BY <1>2, <1>3 DEF WorksOn
<1> QED
  BY <1>3, <1>5, <1>6, <1>7, <1>8, <1>9 DEF QueueInv

-----------------------------------------------------------------------------
(* The chains of saves.                                                    *)

\* A save that is appended waits behind the others.
LEMMA ChainAppend ==
    ASSUME NEW m, NEW s, ChainOK(m, s), NEW e \in SaveRecord,
           e.pc = "queued", MeetingOf[e.job] = m, \A x \in Members(s) : x.job # e.job
    PROVE  /\ ChainOK(m, Append(s, e)) /\ Append(s, e) # <<>>
           /\ Members(Append(s, e)) = Members(s) \union {e}
           /\ Head(Append(s, e)) = (IF s = <<>> THEN e ELSE Head(s))
<1> DEFINE t == Append(s, e)
<1>1. s \in Seq(SaveRecord)
  BY DEF ChainOK
<1>2. /\ t \in Seq(SaveRecord) /\ t # <<>>
      /\ DOMAIN s = 1..Len(s) /\ Len(s) \in Nat
      /\ DOMAIN t = 1..(Len(s) + 1)
      /\ t[Len(s) + 1] = e
      /\ \A i \in DOMAIN s : i \in DOMAIN t /\ t[i] = s[i]
      /\ \A i \in DOMAIN t : i = Len(s) + 1 \/ i \in DOMAIN s
  BY <1>1, AppendElements
<1>3. Head(t) = (IF s = <<>> THEN e ELSE Head(s))
  BY <1>1, HeadTailAppend
<1> HIDE DEF t
<1>4. \A i \in DOMAIN s : s[i].job # e.job
  BY DEF Members
<1>5. ASSUME NEW n \in DOMAIN t PROVE MeetingOf[t[n].job] = m /\ (n # 1 => t[n].pc = "queued")
  BY <1>2 DEF ChainOK
<1>6. ASSUME NEW n \in DOMAIN t, NEW k \in DOMAIN t, t[k].job = t[n].job PROVE k = n
  <2>1. \A a, b \in DOMAIN s : s[a].job = s[b].job => a = b
    BY DEF ChainOK
  <2> QED
    BY <1>2, <1>4, <1>6, <2>1
<1>7. Len(s) + 1 \in DOMAIN t
  BY <1>2
<1>8. Members(t) = Members(s) \union {e}
  BY <1>2, <1>7 DEF Members
<1> QED
  BY <1>2, <1>3, <1>5, <1>6, <1>8 DEF ChainOK, t

\* The head leaves; no other save is for its job, and none of the rest has begun.
LEMMA ChainTail ==
    ASSUME NEW m, NEW s, ChainOK(m, s), s # <<>>
    PROVE  /\ Head(s) \in SaveRecord /\ Head(s) \in Members(s) /\ MeetingOf[Head(s).job] = m
           /\ ChainOK(m, Tail(s))
           /\ Members(Tail(s)) \subseteq Members(s)
           /\ \A x \in Members(Tail(s)) : x.job # Head(s).job
           /\ Tail(s) # <<>> => Head(Tail(s)).pc = "queued"
<1> DEFINE t == Tail(s)
<1>1. s \in Seq(SaveRecord)
  BY DEF ChainOK
<1>2. /\ Head(s) = s[1] /\ Head(s) \in SaveRecord /\ t \in Seq(SaveRecord)
      /\ DOMAIN s = 1..Len(s) /\ Len(s) \in Nat /\ Len(s) >= 1 /\ 1 \in DOMAIN s
      /\ DOMAIN t = 1..(Len(s) - 1)
      /\ \A i \in DOMAIN t : i + 1 \in DOMAIN s /\ t[i] = s[i + 1]
  BY <1>1, TailElements
<1>3. t # <<>> => Head(t) = t[1] /\ 1 \in DOMAIN t
  BY <1>2, TailElements
<1> HIDE DEF t
<1>4. \A a, b \in DOMAIN s : s[a].job = s[b].job => a = b
  BY DEF ChainOK
<1>5. ASSUME NEW n \in DOMAIN t
      PROVE  MeetingOf[t[n].job] = m /\ t[n].pc = "queued" /\ t[n].job # Head(s).job
             /\ t[n] \in Members(s)
  <2>1. n + 1 \in DOMAIN s /\ t[n] = s[n + 1] /\ n + 1 # 1
    BY <1>2
  <2> QED
    BY <2>1, <1>2, <1>4 DEF ChainOK, Members
<1>6. ASSUME NEW n \in DOMAIN t, NEW k \in DOMAIN t, t[k].job = t[n].job PROVE k = n
  <2>1. n + 1 \in DOMAIN s /\ k + 1 \in DOMAIN s /\ s[k + 1].job = s[n + 1].job
    BY <1>2, <1>6
  <2>2. k + 1 = n + 1
    BY <2>1, <1>4
  <2> QED
    BY <2>2, <1>2
<1>7. Head(s) \in Members(s) /\ MeetingOf[Head(s).job] = m
  BY <1>2 DEF Members, ChainOK
<1>8. Members(t) \subseteq Members(s) /\ \A x \in Members(t) : x.job # Head(s).job
  BY <1>5 DEF Members
<1>9. t # <<>> => Head(t).pc = "queued"
  BY <1>3, <1>5
<1> QED
  BY <1>2, <1>5, <1>6, <1>7, <1>8, <1>9 DEF ChainOK, t

\* The head moves on.
LEMMA ChainMove ==
    ASSUME NEW m, NEW s, ChainOK(m, s), s # <<>>, NEW h \in SaveRecord, h.job = Head(s).job
    PROVE  LET t == [s EXCEPT ![1] = h] IN
           /\ ChainOK(m, t) /\ t # <<>> /\ Head(t) = h
           /\ Members(t) \subseteq Members(s) \union {h}
<1> DEFINE t == [s EXCEPT ![1] = h]
<1>1. s \in Seq(SaveRecord)
  BY DEF ChainOK
<1>2. /\ Head(s) = s[1]
      /\ DOMAIN s = 1..Len(s) /\ Len(s) \in Nat /\ Len(s) >= 1 /\ 1 \in DOMAIN s
  BY <1>1, TailElements
<1>3. /\ t \in Seq(SaveRecord) /\ DOMAIN t = DOMAIN s /\ t[1] = h
      /\ \A n \in DOMAIN s : n # 1 => t[n] = s[n]
  BY <1>1, <1>2, ExceptSeq
<1> HIDE DEF t
<1>4. t # <<>> /\ Head(t) = h
  BY <1>2, <1>3
<1>5. ASSUME NEW n \in DOMAIN t
      PROVE  MeetingOf[t[n].job] = m /\ (n # 1 => t[n].pc = "queued") /\ t[n].job = s[n].job
  BY <1>2, <1>3 DEF ChainOK
<1>6. \A a, b \in DOMAIN s : s[a].job = s[b].job => a = b
  BY DEF ChainOK
<1>7. ChainOK(m, t)
  BY <1>3, <1>5, <1>6 DEF ChainOK
<1>8. Members(t) \subseteq Members(s) \union {h}
  BY <1>3 DEF Members
<1> QED
  BY <1>4, <1>7, <1>8 DEF t

-----------------------------------------------------------------------------
(* What the invariant says of one job, one queue and one save.             *)

LEMMA ConstantTypes ==
    ASSUME NEW j \in Jobs
    PROVE  MeetingOf[j] \in Meetings /\ QueueOf[j] \in Queues
BY LocalFactCheckAssumption DEF LocalFactCheckAssumption, Queues

LEMMA InvQueues == LocalIInv <=> (LocalIInv /\ QueueInv)
BY DEF LocalIInv, LocalInv, QueueInv, LocalFactCheckTypeOK

\* A job that is run is queued, in its own queue.
LEMMA RunIsQueued ==
    ASSUME QueueInv, NEW q \in Queues, lines[q] # <<>>
    PROVE  /\ Head(lines[q]) \in Jobs /\ QueueOf[Head(lines[q])] = q
           /\ Queued(Head(lines[q]))
<1>1. lines[q] \in Seq(Jobs)
  BY DEF QueueInv
<1>2. Head(lines[q]) = lines[q][1] /\ Head(lines[q]) \in Jobs /\ 1 \in DOMAIN lines[q]
  BY <1>1, TailElements
<1> QED
  BY <1>2 DEF QueueInv, QueuesHoldTheirJobs, Queued

LEMMA WorkIsQueued ==
    ASSUME QueueInv, NEW q \in Queues, NEW j \in Jobs, WorksOn(q, j)
    PROVE  QueueOf[j] = q /\ Queued(j) /\ lines[q] # <<>>
<1>1. lines[q] # <<>>
  BY DEF QueueInv, QueuesHoldTheirJobs, WorksOn
<1> QED
  BY <1>1, RunIsQueued DEF WorksOn

\* A job nobody awaits a save of has none.
LEMMA NoSaves ==
    ASSUME LocalIInv, NEW j \in Jobs, calls[j] # "saving",
           WorksOn(QueueOf[j], j) => run[QueueOf[j]] = "working"
    PROVE  \A m \in Meetings : \A x \in Members(saves[m]) : x.job # j
<1> SUFFICES ASSUME NEW m \in Meetings, NEW x \in Members(saves[m]), x.job = j
             PROVE  FALSE
  OBVIOUS
<1>1. SaveIsAwaited(x)
  BY DEF LocalIInv, LocalInv, SavesAreAwaited
<1> QED
  BY <1>1 DEF SaveIsAwaited

\* A save stays awaited while its caller and its run stay where they are.
LEMMA AwaitedKept ==
    ASSUME NEW x, SaveIsAwaited(x), calls'[x.job] = calls[x.job],
           run'[QueueOf[x.job]] = run[QueueOf[x.job]],
           WorksOn(QueueOf[x.job], x.job) => WorksOn(QueueOf[x.job], x.job)'
    PROVE  SaveIsAwaited(x)'
BY DEF SaveIsAwaited

\* A save in a chain is a save of a job.
LEMMA MemberTypes ==
    ASSUME NEW m, NEW s, ChainOK(m, s), NEW x \in Members(s)
    PROVE  x \in SaveRecord /\ x.job \in Jobs /\ MeetingOf[x.job] = m
<1>1. PICK n \in DOMAIN s : x = s[n]
  BY DEF Members
<1>2. s \in Seq(SaveRecord)
  BY DEF ChainOK
<1>3. s[n] \in SaveRecord
  BY <1>2
<1> QED
  BY <1>1, <1>3 DEF ChainOK, SaveRecord

LEMMA QueuesKept ==
    ASSUME QueueInv, lines' = lines, run' = run
    PROVE  /\ QueueInv'
           /\ \A k \in Jobs : Queued(k)' <=> Queued(k)
           /\ \A q \in Queues, k \in Jobs : WorksOn(q, k)' <=> WorksOn(q, k)
BY DEF QueueInv, OneRunPerJob, QueuesHoldTheirJobs, Queued, WorksOn

\* A save that is asked for joins the chain of its meeting.
LEMMA SaveJoins ==
    ASSUME LocalIInv, NEW j \in Jobs, NEW status \in Status,
           NEW by \in {"call", "run", "try", "catch"}, Save(j, status, by),
           \A x \in Members(saves[MeetingOf[j]]) : x.job # j
    PROVE  LET e == [job |-> j, status |-> status, by |-> by, pc |-> "queued"]
           IN  /\ saves' \in [Meetings -> Seq(SaveRecord)] /\ SavesAreChained'
               /\ \A m \in Meetings : Members(saves'[m]) \subseteq Members(saves[m]) \union {e}
               /\ \A m \in Meetings : Head(saves'[m]).pc = "renamed" /\ saves'[m] # <<>>
                                         => saves[m] # <<>> /\ Head(saves'[m]) = Head(saves[m])
               /\ \A m \in Meetings \ {MeetingOf[j]} : saves'[m] = saves[m]
<1> DEFINE e == [job |-> j, status |-> status, by |-> by, pc |-> "queued"]
           h == MeetingOf[j]
<1>1. h \in Meetings
  BY ConstantTypes
<1>2. e \in SaveRecord /\ e.pc = "queued" /\ e.job = j /\ MeetingOf[e.job] = h
  BY DEF SaveRecord
<1>3. saves \in [Meetings -> Seq(SaveRecord)] /\ \A m \in Meetings : ChainOK(m, saves[m])
  BY DEF LocalIInv, LocalInv, LocalFactCheckTypeOK, SavesAreChained
<1>4. saves' = [saves EXCEPT ![h] = Append(saves[h], e)]
  BY DEF Save
<1> HIDE DEF e, h
<1>5. saves'[h] = Append(saves[h], e) /\ \A m \in Meetings \ {h} : saves'[m] = saves[m]
  BY <1>1, <1>3, <1>4
<1>6. \A x \in Members(saves[h]) : x.job # e.job
  BY <1>2 DEF h
<1>7. /\ ChainOK(h, saves'[h]) /\ Members(saves'[h]) = Members(saves[h]) \union {e}
      /\ Head(saves'[h]) = (IF saves[h] = <<>> THEN e ELSE Head(saves[h]))
  BY <1>1, <1>2, <1>3, <1>5, <1>6, ChainAppend
<1>8. SavesAreChained'
  BY <1>3, <1>5, <1>7 DEF SavesAreChained
<1>9. saves' \in [Meetings -> Seq(SaveRecord)]
  BY <1>1, <1>3, <1>4, <1>5, <1>7 DEF ChainOK
<1>10. \A m \in Meetings : Members(saves'[m]) \subseteq Members(saves[m]) \union {e}
  BY <1>5, <1>7
<1>11. \A m \in Meetings : Head(saves'[m]).pc = "renamed" /\ saves'[m] # <<>>
                              => saves[m] # <<>> /\ Head(saves'[m]) = Head(saves[m])
  BY <1>2, <1>5, <1>7
<1> QED
  BY <1>5, <1>8, <1>9, <1>10, <1>11 DEF e, h

-----------------------------------------------------------------------------
(* submitFactCheck and pollFactCheck.                                      *)

\* A call queues a cached job or begins to read its file.
LEMMA CallStep ==
    ASSUME LocalIInv, NEW j \in Jobs, NEW kind \in {"submit", "poll"}, Call(j, kind)
    PROVE  LocalIInv'
<1>0. QueueInv /\ run' = run
  BY InvQueues DEF Call
<1>1. /\ QueueInv'
      /\ \A k \in Jobs : Queued(k)' => (Queued(k) \/ (k = j /\ mem[j] # "none"))
      /\ \A q \in Queues, k \in Jobs : WorksOn(q, k)' <=> WorksOn(q, k)
  BY <1>0, EnqueueQueues, QueuesKept DEF Call
<1>2. LocalFactCheckTypeOK'
  BY <1>1 DEF Call, LocalIInv, LocalInv, LocalFactCheckTypeOK, QueueInv
<1>3. SavesAreAwaited'
  <2> SUFFICES ASSUME NEW m \in Meetings, NEW x \in Members(saves[m])
               PROVE  SaveIsAwaited(x)'
    BY DEF SavesAreAwaited, Call
  <2>1. x.job \in Jobs /\ QueueOf[x.job] \in Queues /\ SaveIsAwaited(x)
    BY MemberTypes, ConstantTypes DEF LocalIInv, LocalInv, SavesAreChained, SavesAreAwaited
  <2>2. CASE x.by = "call"
    BY <2>1, <2>2 DEF SaveIsAwaited, Call, LocalIInv, LocalInv, LocalFactCheckTypeOK
  <2>3. CASE x.by # "call"
    BY <2>1, <2>3, <1>0, <1>1 DEF SaveIsAwaited
  <2> QED
    BY <2>2, <2>3
<1>4. CachesAreCurrent'
  <2> SUFFICES ASSUME NEW k \in Jobs, ~Released(k) PROVE CacheIsCurrent(k)'
    BY DEF CachesAreCurrent, Released, Call
  <2>1. CacheIsCurrent(k) /\ QueueOf[k] \in Queues
    BY ConstantTypes DEF LocalIInv, LocalInv, CachesAreCurrent
  <2> QED
    BY <2>1, <1>1 DEF CacheIsCurrent, Call, LocalIInv, LocalInv, LocalFactCheckTypeOK
<1> QED
  BY <1>1, <1>2, <1>3, <1>4
  DEF Call, LocalIInv, LocalInv, QueueInv, FilesHaveDirectories, SavesAreChained, RenamedIsStored,
      ReleasesAreOrdered, ReportedIsDurable, Released

\* A job that is read is cached; a new one is cached and its first save begins.
LEMMA GetJobStep ==
    ASSUME LocalIInv, NEW j \in Jobs, GetJob(j)
    PROVE  LocalIInv'
<1>0. /\ QueueInv /\ run' = run /\ released' = released /\ MeetingOf[j] \in Meetings
      /\ QueueOf[j] \in Queues
  BY InvQueues, ConstantTypes DEF GetJob
<1>1. ASSUME ~Released(j)
      PROVE  /\ ~Queued(j) /\ ~WorksOn(QueueOf[j], j) /\ calls[j] # "saving" /\ mem[j] = "none"
             /\ \A m \in Meetings : \A x \in Members(saves[m]) : x.job # j
  <2>1. ~Queued(j) /\ calls[j] # "saving" /\ mem[j] = "none"
    BY <1>1 DEF GetJob, LocalIInv, LocalInv, CachesAreCurrent, CacheIsCurrent
  <2>2. ~WorksOn(QueueOf[j], j)
    BY <2>1, <1>0, WorkIsQueued
  <2> QED
    BY <2>1, <2>2, NoSaves
<1>2. /\ QueueInv'
      /\ \A k \in Jobs : Queued(k)' => Queued(k) \/ (k = j /\ ~Released(j) /\ mem'[j] # "none" /\ calls'[j] = "none")
      /\ \A q \in Queues, k \in Jobs : WorksOn(q, k)' <=> WorksOn(q, k)
  BY <1>0, EnqueueQueues, QueuesKept DEF GetJob, Stored, LocalIInv, LocalInv, LocalFactCheckTypeOK
<1>3. CASE UNCHANGED saves
  <2>1. LocalFactCheckTypeOK'
    <3>1. mem' \in [Jobs -> Status \union {"none"}]
          /\ calls' \in [Jobs -> {"none", "submit", "poll", "saving"}]
      BY DEF GetJob, LocalIInv, LocalInv, LocalFactCheckTypeOK, Status, Runnable
    <3> QED
      BY <1>2, <1>3, <3>1 DEF GetJob, LocalIInv, LocalInv, LocalFactCheckTypeOK, QueueInv
  <2>2. SavesAreAwaited'
    <3> SUFFICES ASSUME NEW m \in Meetings, NEW x \in Members(saves[m])
                 PROVE  SaveIsAwaited(x)'
      BY <1>3 DEF SavesAreAwaited
    <3>1. x.job \in Jobs /\ QueueOf[x.job] \in Queues /\ SaveIsAwaited(x)
      BY MemberTypes, ConstantTypes DEF LocalIInv, LocalInv, SavesAreChained, SavesAreAwaited
    <3>2. CASE x.by = "call"
      BY <3>1, <3>2 DEF SaveIsAwaited, GetJob, LocalIInv, LocalInv, LocalFactCheckTypeOK
    <3>3. CASE x.by # "call"
      BY <3>1, <3>3, <1>0, <1>2 DEF SaveIsAwaited
    <3> QED
      BY <3>2, <3>3
  <2>3. ASSUME NEW k \in Jobs, ~Released(k) PROVE CacheIsCurrent(k)'
    <3>1. CacheIsCurrent(k) /\ QueueOf[k] \in Queues
      BY <2>3, ConstantTypes DEF LocalIInv, LocalInv, CachesAreCurrent
    <3>2. CASE k = j
      <4>1. calls'[k] = "none"
        BY <3>2, <1>3, <1>0 DEF GetJob, LocalIInv, LocalInv, LocalFactCheckTypeOK, Save
      <4> QED
        BY <3>1, <3>2, <4>1, <1>1, <1>2, <2>3 DEF CacheIsCurrent
    <3>3. CASE k # j
      BY <3>1, <3>3, <1>2 DEF CacheIsCurrent, GetJob, LocalIInv, LocalInv, LocalFactCheckTypeOK
    <3> QED
      BY <3>2, <3>3
  <2>4. ReportedIsDurable'
    BY <1>3 DEF GetJob, LocalIInv, LocalInv, LocalFactCheckTypeOK, ReportedIsDurable, Released, Settled
  <2> QED
    BY <1>2, <1>3, <2>1, <2>2, <2>3, <2>4
    DEF GetJob, LocalIInv, LocalInv, QueueInv, FilesHaveDirectories, SavesAreChained, RenamedIsStored,
        CachesAreCurrent, ReleasesAreOrdered, Released
<1>4. CASE /\ ~Released(j) /\ ~Stored(j) /\ calls[j] = "submit"
           /\ mem' = [mem EXCEPT ![j] = "pending"]
           /\ Save(j, "pending", "call")
           /\ calls' = [calls EXCEPT ![j] = "saving"]
           /\ UNCHANGED lines
  <2> DEFINE e == [job |-> j, status |-> "pending", by |-> "call", pc |-> "queued"]
  <2>0. "pending" \in Status
    BY DEF Status, Runnable
  <2>1. /\ saves' \in [Meetings -> Seq(SaveRecord)] /\ SavesAreChained'
        /\ \A m \in Meetings : Members(saves'[m]) \subseteq Members(saves[m]) \union {e}
        /\ \A m \in Meetings : Head(saves'[m]).pc = "renamed" /\ saves'[m] # <<>>
                                  => saves[m] # <<>> /\ Head(saves'[m]) = Head(saves[m])
        /\ \A m \in Meetings \ {MeetingOf[j]} : saves'[m] = saves[m]
    BY <1>0, <1>1, <1>4, <2>0, SaveJoins
  <2>2. LocalFactCheckTypeOK'
    BY <1>2, <1>4, <2>0, <2>1 DEF GetJob, LocalIInv, LocalInv, LocalFactCheckTypeOK, QueueInv
  <2>3. SavesAreAwaited'
    <3> SUFFICES ASSUME NEW m \in Meetings, NEW x \in Members(saves'[m])
                 PROVE  SaveIsAwaited(x)'
      BY DEF SavesAreAwaited
    <3>1. CASE x = e
      BY <3>1, <1>4 DEF SaveIsAwaited, LocalIInv, LocalInv, LocalFactCheckTypeOK
    <3>2. CASE x \in Members(saves[m])
      <4>1. x.job \in Jobs /\ QueueOf[x.job] \in Queues /\ SaveIsAwaited(x) /\ x.job # j
        BY <3>2, <1>1, <1>4, MemberTypes, ConstantTypes
        DEF LocalIInv, LocalInv, SavesAreChained, SavesAreAwaited
      <4>2. calls'[x.job] = calls[x.job]
        BY <4>1, <1>4 DEF LocalIInv, LocalInv, LocalFactCheckTypeOK
      <4> QED
        BY <4>1, <4>2, <1>0, <1>2, AwaitedKept
    <3> QED
      BY <2>1, <3>1, <3>2
  <2>4. ASSUME NEW k \in Jobs, ~Released(k) PROVE CacheIsCurrent(k)'
    <3>1. CacheIsCurrent(k) /\ QueueOf[k] \in Queues
      BY <2>4, ConstantTypes DEF LocalIInv, LocalInv, CachesAreCurrent
    <3>2. CASE k = j
      BY <3>2, <1>0, <1>1, <1>2, <1>4 DEF CacheIsCurrent, LocalIInv, LocalInv, LocalFactCheckTypeOK
    <3>3. CASE k # j
      BY <3>1, <3>3, <1>2, <1>4 DEF CacheIsCurrent, LocalIInv, LocalInv, LocalFactCheckTypeOK
    <3> QED
      BY <3>2, <3>3
  <2>5. ReportedIsDurable'
    BY <1>4 DEF GetJob, LocalIInv, LocalInv, LocalFactCheckTypeOK, ReportedIsDurable, Released, Settled
  <2>6. RenamedIsStored'
    BY <2>1 DEF GetJob, LocalIInv, LocalInv, RenamedIsStored
  <2>7. ReleasesAreOrdered'
    BY <1>4, <2>1 DEF GetJob, LocalIInv, LocalInv, ReleasesAreOrdered, Released
  <2> QED
    BY <1>2, <2>1, <2>2, <2>3, <2>4, <2>5, <2>6, <2>7
    DEF GetJob, LocalIInv, LocalInv, QueueInv, FilesHaveDirectories, CachesAreCurrent, Released
<1> QED
  BY <1>3, <1>4 DEF GetJob

-----------------------------------------------------------------------------
(* runJob.                                                                 *)

\* A run that has no save under way ends.
LEMMA EndsStep ==
    ASSUME LocalIInv, NEW q \in Queues, lines[q] # <<>>, run[q] \in {"idle", "working"}, Ends(q),
           UNCHANGED <<disk, dir, mem, calls, saves, released, releasing>>
    PROVE  LocalIInv'
<1>0. QueueInv
  BY InvQueues
<1>1. /\ QueueInv' /\ \A p \in Queues \ {q} : run'[p] = run[p]
      /\ \A k \in Jobs : Queued(k)' => Queued(k)
      /\ \A p \in Queues, k \in Jobs : WorksOn(p, k)' <=> (p # q /\ WorksOn(p, k))
  BY <1>0, EndsQueues
<1>2. SavesAreAwaited'
  <2> SUFFICES ASSUME NEW m \in Meetings, NEW x \in Members(saves[m])
               PROVE  SaveIsAwaited(x)'
    BY DEF SavesAreAwaited
  <2>1. x.job \in Jobs /\ QueueOf[x.job] \in Queues /\ SaveIsAwaited(x)
    BY MemberTypes, ConstantTypes DEF LocalIInv, LocalInv, SavesAreChained, SavesAreAwaited
  <2> QED
    BY <2>1, <1>1 DEF SaveIsAwaited
<1>3. CachesAreCurrent'
  <2> SUFFICES ASSUME NEW k \in Jobs, ~Released(k) PROVE CacheIsCurrent(k)'
    BY DEF CachesAreCurrent, Released
  <2>1. CacheIsCurrent(k) /\ QueueOf[k] \in Queues
    BY ConstantTypes DEF LocalIInv, LocalInv, CachesAreCurrent
  <2> QED
    BY <2>1, <1>1 DEF CacheIsCurrent
<1> QED
  BY <1>1, <1>2, <1>3
  DEF LocalIInv, LocalInv, LocalFactCheckTypeOK, QueueInv, FilesHaveDirectories, SavesAreChained,
      RenamedIsStored, ReleasesAreOrdered, ReportedIsDurable, Released

\* A run begins to save its job.
LEMMA StartsSaveStep ==
    ASSUME LocalIInv, NEW q \in Queues, lines[q] # <<>>, run[q] \in {"idle", "working"},
           NEW j, j = Head(lines[q]), IsRunnable(mem[j]), ~Released(j),
           NEW status \in Status, NEW by \in {"run", "try", "catch"},
           by = "run" => status = "running", Save(j, status, by),
           run' = [run EXCEPT ![q] = IF by = "run" THEN "marking" ELSE "saving"],
           UNCHANGED <<disk, dir, mem, calls, lines, released, releasing>>
    PROVE  LocalIInv'
<1> DEFINE e == [job |-> j, status |-> status, by |-> by, pc |-> "queued"]
<1>0. QueueInv /\ j \in Jobs /\ QueueOf[j] = q /\ Queued(j) /\ MeetingOf[j] \in Meetings
  BY InvQueues, RunIsQueued, ConstantTypes
<1>1. calls[j] # "saving" /\ \A x \in Members(saves[MeetingOf[j]]) : x.job # j
  <2>1. calls[j] = "none"
    BY <1>0 DEF LocalIInv, LocalInv, CachesAreCurrent, CacheIsCurrent
  <2>2. WorksOn(q, j) => run[q] = "working"
    BY DEF WorksOn
  <2> QED
    BY <1>0, <2>1, <2>2, NoSaves
<1>2. /\ saves' \in [Meetings -> Seq(SaveRecord)] /\ SavesAreChained'
      /\ \A m \in Meetings : Members(saves'[m]) \subseteq Members(saves[m]) \union {e}
      /\ \A m \in Meetings : Head(saves'[m]).pc = "renamed" /\ saves'[m] # <<>>
                                => saves[m] # <<>> /\ Head(saves'[m]) = Head(saves[m])
      /\ \A m \in Meetings \ {MeetingOf[j]} : saves'[m] = saves[m]
  BY <1>0, <1>1, SaveJoins
<1>3. /\ run'[q] = (IF by = "run" THEN "marking" ELSE "saving")
      /\ \A p \in Queues \ {q} : run'[p] = run[p]
  BY <1>0 DEF QueueInv
<1>4. QueueInv'
  BY <1>0, <1>3 DEF QueueInv, OneRunPerJob, QueuesHoldTheirJobs
<1>5. \A k \in Jobs : Queued(k)' <=> Queued(k)
  BY DEF Queued
<1>6. \A p \in Queues, k \in Jobs : WorksOn(p, k)' <=> IF p = q THEN k = j ELSE WorksOn(p, k)
  BY <1>3 DEF WorksOn
<1>7. SavesAreAwaited'
  <2> SUFFICES ASSUME NEW m \in Meetings, NEW x \in Members(saves'[m])
               PROVE  SaveIsAwaited(x)'
    BY DEF SavesAreAwaited
  <2>1. CASE x = e
    BY <2>1, <1>0, <1>3, <1>6 DEF SaveIsAwaited
  <2>2. CASE x \in Members(saves[m])
    <3>1. x.job \in Jobs /\ QueueOf[x.job] \in Queues /\ SaveIsAwaited(x)
      BY <2>2, MemberTypes, ConstantTypes DEF LocalIInv, LocalInv, SavesAreChained, SavesAreAwaited
    <3> QED
      BY <3>1, <1>3, <1>6 DEF SaveIsAwaited
  <2> QED
    BY <1>2, <2>1, <2>2
<1>8. CachesAreCurrent'
  <2> SUFFICES ASSUME NEW k \in Jobs, ~Released(k) PROVE CacheIsCurrent(k)'
    BY DEF CachesAreCurrent, Released
  <2>1. CacheIsCurrent(k) /\ QueueOf[k] \in Queues
    BY ConstantTypes DEF LocalIInv, LocalInv, CachesAreCurrent
  <2> QED
    BY <2>1, <1>5, <1>6 DEF CacheIsCurrent
<1>9. RenamedIsStored'
  BY <1>2 DEF LocalIInv, LocalInv, RenamedIsStored
<1>10. ReleasesAreOrdered'
  BY <1>2 DEF LocalIInv, LocalInv, ReleasesAreOrdered, Released
<1> QED
  BY <1>2, <1>4, <1>7, <1>8, <1>9, <1>10
  DEF LocalIInv, LocalInv, LocalFactCheckTypeOK, QueueInv, FilesHaveDirectories, ReportedIsDurable, Released

LEMMA RunJobStep ==
    ASSUME LocalIInv, NEW q \in Queues, RunJob(q)
    PROVE  LocalIInv'
<1> DEFINE j == Head(lines[q])
<1>1. CASE IsRunnable(mem[j]) /\ ~Released(j)
  <2>1. "running" \in Status
    BY DEF Status, Runnable
  <2> QED
    BY <1>1, <2>1, StartsSaveStep DEF RunJob
<1>2. CASE ~(IsRunnable(mem[j]) /\ ~Released(j))
  BY <1>2, EndsStep DEF RunJob
<1> QED
  BY <1>1, <1>2

LEMMA ResearchStep ==
    ASSUME LocalIInv, NEW q \in Queues, Research(q)
    PROVE  LocalIInv'
<1> DEFINE j == Head(lines[q])
<1>1. QueueInv /\ run[q] = "working" /\ lines[q] # <<>>
  BY InvQueues DEF Research, QueueInv, QueuesHoldTheirJobs
<1>2. j \in Jobs /\ QueueOf[j] = q
  BY <1>1, RunIsQueued
<1>3. CASE Released(j)
  BY <1>1, <1>3, EndsStep DEF Research
<1>4. CASE ~Released(j)
  <2>1. IsRunnable(mem[j])
    BY <1>1, <1>2, <1>4 DEF LocalIInv, LocalInv, CachesAreCurrent, CacheIsCurrent, WorksOn
  <2>2. PICK status \in Status, by \in {"try", "catch"} : Save(j, status, by)
    BY <1>4 DEF Research, Status, Runnable, Settled
  <2>3. run' = [run EXCEPT ![q] = "saving"]
        /\ UNCHANGED <<disk, dir, mem, calls, lines, released, releasing>>
    BY <1>4 DEF Research
  <2> QED
    BY <1>1, <1>4, <2>1, <2>2, <2>3, StartsSaveStep
<1> QED
  BY <1>3, <1>4

-----------------------------------------------------------------------------
(* persistJob.                                                             *)

\* The save at the head of a chain is awaited; its job has not settled.
LEMMA HeadSave ==
    ASSUME LocalIInv, NEW m \in Meetings, saves[m] # <<>>
    PROVE  LET save == Head(saves[m]) IN
           /\ save \in SaveRecord /\ save.job \in Jobs /\ MeetingOf[save.job] = m
           /\ QueueOf[save.job] \in Queues /\ SaveIsAwaited(save)
           /\ m \notin released => IsRunnable(mem[save.job])
<1> DEFINE save == Head(saves[m])
<1>1. save \in Members(saves[m])
  BY ChainTail DEF LocalIInv, LocalInv, SavesAreChained
<1>2. save \in SaveRecord /\ save.job \in Jobs /\ MeetingOf[save.job] = m
  BY <1>1, MemberTypes DEF LocalIInv, LocalInv, SavesAreChained
<1>3. SaveIsAwaited(save)
  BY <1>1 DEF LocalIInv, LocalInv, SavesAreAwaited
<1>4. ASSUME m \notin released PROVE IsRunnable(mem[save.job])
  <2>1. CacheIsCurrent(save.job)
    BY <1>2, <1>4 DEF LocalIInv, LocalInv, CachesAreCurrent, Released
  <2> QED
    BY <1>3, <2>1 DEF CacheIsCurrent, SaveIsAwaited, IsRunnable, Runnable
<1> QED
  BY <1>2, <1>3, <1>4, ConstantTypes

\* A save makes progress: the directory, the temporary file, the rename.
LEMMA MovesStep ==
    ASSUME LocalIInv, NEW m \in Meetings, saves[m] # <<>>, m \notin released,
           NEW pc \in {"directory", "written", "renamed"}, Moves(m, pc),
           UNCHANGED <<released, releasing>>, dir' \in {dir, dir \union {m}},
           IF pc = "renamed"
           THEN m \in dir /\ disk' = [disk EXCEPT ![Head(saves[m]).job] = Head(saves[m]).status]
           ELSE UNCHANGED disk
    PROVE  LocalIInv'
<1> DEFINE save == Head(saves[m])
           h == [save EXCEPT !.pc = pc]
<1>0. QueueInv /\ UNCHANGED <<mem, calls, lines, run>>
  BY InvQueues DEF Moves
<1>1. /\ save \in SaveRecord /\ save.job \in Jobs /\ MeetingOf[save.job] = m
      /\ SaveIsAwaited(save) /\ IsRunnable(mem[save.job])
  BY HeadSave
<1>2. h.job = save.job /\ h.status = save.status /\ h.by = save.by /\ h.pc = pc /\ save.status \in Status
  BY <1>1 DEF SaveRecord
<1>3. saves \in [Meetings -> Seq(SaveRecord)] /\ \A k \in Meetings : ChainOK(k, saves[k])
  BY DEF LocalIInv, LocalInv, LocalFactCheckTypeOK, SavesAreChained
<1>4. saves'[m] = [saves[m] EXCEPT ![1] = h] /\ \A k \in Meetings \ {m} : saves'[k] = saves[k]
  <2>1. Head(saves[m]) = saves[m][1]
    BY <1>3, TailElements
  <2> QED
    BY <2>1, <1>3 DEF Moves
<1>5. /\ ChainOK(m, saves'[m]) /\ saves'[m] # <<>> /\ Head(saves'[m]) = h
      /\ Members(saves'[m]) \subseteq Members(saves[m]) \union {h}
  <2> DEFINE c == saves[m]
             t == saves'[m]
  <2>1. /\ ChainOK(m, c) /\ c # <<>> /\ t = [c EXCEPT ![1] = h]
        /\ h \in SaveRecord /\ h.job = Head(c).job
    BY <1>1, <1>2, <1>3, <1>4 DEF SaveRecord
  <2> HIDE DEF c, t, h
  <2> DEFINE u == [c EXCEPT ![1] = h]
  <2>2. /\ ChainOK(m, u) /\ u # <<>> /\ Head(u) = h
        /\ Members(u) \subseteq Members(c) \union {h}
    BY <2>1, ChainMove
  <2> QED
    BY <2>1, <2>2 DEF c, t
<1> HIDE DEF save, h
<1>6. saves' \in [Meetings -> Seq(SaveRecord)]
  BY <1>3, <1>4, <1>5 DEF Moves, ChainOK
<1>7. /\ QueueInv'
      /\ \A k \in Jobs : Queued(k)' <=> Queued(k)
      /\ \A q \in Queues, k \in Jobs : WorksOn(q, k)' <=> WorksOn(q, k)
  BY <1>0, QueuesKept
<1>8. /\ disk' \in [Jobs -> Status \union {"none"}]
      /\ \A k \in Jobs \ {save.job} : disk'[k] = disk[k]
      /\ pc = "renamed" => disk'[save.job] = save.status
      /\ pc # "renamed" => disk' = disk
  BY <1>1, <1>2 DEF LocalIInv, LocalInv, LocalFactCheckTypeOK, save
<1>9. LocalFactCheckTypeOK'
  BY <1>0, <1>6, <1>8 DEF LocalIInv, LocalInv, LocalFactCheckTypeOK
<1>10. FilesHaveDirectories'
  BY <1>1, <1>8 DEF LocalIInv, LocalInv, FilesHaveDirectories
<1>11. SavesAreAwaited'
  <2>1. SaveIsAwaited(h)
    BY <1>1, <1>2 DEF SaveIsAwaited
  <2>2. \A k \in Meetings : \A x \in Members(saves'[k]) : SaveIsAwaited(x)
    BY <2>1, <1>4, <1>5 DEF LocalIInv, LocalInv, SavesAreAwaited
  <2> QED
    BY <2>2, <1>0 DEF SavesAreAwaited, SaveIsAwaited, WorksOn
<1>12. RenamedIsStored'
  <2> SUFFICES ASSUME NEW k \in Meetings, saves'[k] # <<>>, k \notin released,
                      Head(saves'[k]).pc = "renamed"
               PROVE  disk'[Head(saves'[k]).job] = Head(saves'[k]).status
    BY DEF RenamedIsStored
  <2>1. CASE k = m
    BY <2>1, <1>2, <1>5, <1>8
  <2>2. CASE k # m
    <3>1. saves'[k] = saves[k] /\ Head(saves[k]).job \in Jobs /\ MeetingOf[Head(saves[k]).job] = k
      BY <2>2, <1>4, HeadSave
    <3> QED
      BY <2>2, <3>1, <1>1, <1>8 DEF LocalIInv, LocalInv, RenamedIsStored
  <2> QED
    BY <2>1, <2>2
<1>13. CachesAreCurrent'
  <2> SUFFICES ASSUME NEW k \in Jobs, ~Released(k) PROVE CacheIsCurrent(k)'
    BY DEF CachesAreCurrent, Released
  <2>1. CacheIsCurrent(k) /\ QueueOf[k] \in Queues
    BY ConstantTypes DEF LocalIInv, LocalInv, CachesAreCurrent
  <2> QED
    BY <2>1, <1>0, <1>7 DEF CacheIsCurrent
<1>14. ReleasesAreOrdered'
  BY <1>4 DEF LocalIInv, LocalInv, ReleasesAreOrdered
<1>15. ReportedIsDurable'
  BY <1>0, <1>1, <1>8 DEF LocalIInv, LocalInv, ReportedIsDurable, Released, IsRunnable, Runnable, Settled
<1>16. SavesAreChained'
  BY <1>3, <1>4, <1>5 DEF SavesAreChained
<1> QED
  BY <1>7, <1>9, <1>10, <1>11, <1>12, <1>13, <1>14, <1>15, <1>16 DEF LocalIInv, LocalInv, QueueInv

\* The chains once the head of one of them has left.
LEMMA HeadLeaves ==
    ASSUME LocalIInv, NEW m \in Meetings, saves[m] # <<>>, saves' = [saves EXCEPT ![m] = Tail(@)]
    PROVE  /\ saves' \in [Meetings -> Seq(SaveRecord)] /\ SavesAreChained'
           /\ \A k \in Meetings \ {m} : saves'[k] = saves[k]
           /\ \A k \in Meetings : \A x \in Members(saves'[k]) :
                 x \in Members(saves[k]) /\ x.job # Head(saves[m]).job
           /\ saves'[m] # <<>> => Head(saves'[m]).pc = "queued"
<1>1. saves \in [Meetings -> Seq(SaveRecord)] /\ \A k \in Meetings : ChainOK(k, saves[k])
  BY DEF LocalIInv, LocalInv, LocalFactCheckTypeOK, SavesAreChained
<1>2. saves'[m] = Tail(saves[m]) /\ \A k \in Meetings \ {m} : saves'[k] = saves[k]
  BY <1>1
<1>3. /\ ChainOK(m, saves'[m])
      /\ Members(saves'[m]) \subseteq Members(saves[m])
      /\ \A x \in Members(saves'[m]) : x.job # Head(saves[m]).job
      /\ saves'[m] # <<>> => Head(saves'[m]).pc = "queued"
  BY <1>1, <1>2, ChainTail
<1>4. saves' \in [Meetings -> Seq(SaveRecord)]
  BY <1>1, <1>2, <1>3 DEF ChainOK
<1>5. ASSUME NEW k \in Meetings, NEW x \in Members(saves'[k])
      PROVE  x \in Members(saves[k]) /\ x.job # Head(saves[m]).job
  <2>1. CASE k = m
    BY <2>1, <1>3
  <2>2. CASE k # m
    <3>1. MeetingOf[x.job] = k /\ MeetingOf[Head(saves[m]).job] = m
      BY <2>2, <1>1, <1>2, HeadSave, MemberTypes
    <3> QED
      BY <2>2, <3>1, <1>2
  <2> QED
    BY <2>1, <2>2
<1> QED
  BY <1>1, <1>2, <1>3, <1>4, <1>5 DEF SavesAreChained

\* The files once a directory may have been removed.
LEMMA FilesKept ==
    ASSUME LocalIInv, NEW m \in Meetings, UNCHANGED released,
           UNCHANGED <<dir, disk>> \/ (m \in released /\ RemoveDirectory(m))
    PROVE  /\ disk' \in [Jobs -> Status \union {"none"}] /\ dir' \subseteq dir
           /\ FilesHaveDirectories'
           /\ \A k \in Jobs : ~Released(k) => disk'[k] = disk[k]
<1>1. CASE UNCHANGED <<dir, disk>>
  BY <1>1 DEF LocalIInv, LocalInv, LocalFactCheckTypeOK, FilesHaveDirectories
<1>2. CASE m \in released /\ RemoveDirectory(m)
  BY <1>2 DEF LocalIInv, LocalInv, LocalFactCheckTypeOK, FilesHaveDirectories, RemoveDirectory, Released
<1> QED
  BY <1>1, <1>2

\* The parts of the invariant that do not depend on who awaited the save.
LEMMA ResolvedParts ==
    ASSUME LocalIInv, NEW m \in Meetings, saves[m] # <<>>, saves' = [saves EXCEPT ![m] = Tail(@)],
           UNCHANGED <<released, releasing>>,
           UNCHANGED <<dir, disk>> \/ (m \in released /\ RemoveDirectory(m))
    PROVE  FilesHaveDirectories' /\ SavesAreChained' /\ RenamedIsStored' /\ ReleasesAreOrdered'
<1>1. /\ dir' \subseteq dir /\ FilesHaveDirectories'
      /\ \A k \in Jobs : ~Released(k) => disk'[k] = disk[k]
  BY FilesKept
<1>2. /\ SavesAreChained' /\ \A k \in Meetings \ {m} : saves'[k] = saves[k]
      /\ saves'[m] # <<>> => Head(saves'[m]).pc = "queued"
  BY HeadLeaves
<1>3. RenamedIsStored'
  <2> SUFFICES ASSUME NEW k \in Meetings, saves'[k] # <<>>, k \notin released,
                      Head(saves'[k]).pc = "renamed"
               PROVE  disk'[Head(saves'[k]).job] = Head(saves'[k]).status
    BY DEF RenamedIsStored
  <2>1. saves'[k] = saves[k]
    BY <1>2
  <2>2. Head(saves[k]).job \in Jobs /\ MeetingOf[Head(saves[k]).job] = k
    BY <2>1, HeadSave
  <2> QED
    BY <2>1, <2>2, <1>1 DEF LocalIInv, LocalInv, RenamedIsStored, Released
<1>4. ReleasesAreOrdered'
  <2>1. ASSUME NEW k \in Meetings, releasing[k] = "done" PROVE k \notin dir' /\ saves'[k] = <<>>
    BY <2>1, <1>1, <1>2 DEF LocalIInv, LocalInv, ReleasesAreOrdered
  <2> QED
    BY <2>1 DEF LocalIInv, LocalInv, ReleasesAreOrdered
<1> QED
  BY <1>1, <1>2, <1>3, <1>4

\* The first save of a submission resolves.
LEMMA SubmittedStep ==
    ASSUME LocalIInv, NEW m \in Meetings, saves[m] # <<>>, saves' = [saves EXCEPT ![m] = Tail(@)],
           NEW good, Head(saves[m]).by = "call", Submitted(Head(saves[m]).job, good),
           UNCHANGED <<released, releasing>>,
           UNCHANGED <<dir, disk>> \/ (m \in released /\ RemoveDirectory(m))
    PROVE  LocalIInv'
<1> DEFINE j == Head(saves[m]).job
<1>0. QueueInv /\ run' = run
  BY InvQueues DEF Submitted
<1>1. /\ j \in Jobs /\ MeetingOf[j] = m /\ calls[j] = "saving"
      /\ ~Released(j) => IsRunnable(mem[j])
  BY HeadSave DEF SaveIsAwaited, Released
<1>2. /\ saves' \in [Meetings -> Seq(SaveRecord)]
      /\ \A k \in Meetings : \A x \in Members(saves'[k]) : x \in Members(saves[k]) /\ x.job # j
  BY HeadLeaves
<1>3. /\ disk' \in [Jobs -> Status \union {"none"}] /\ dir' \subseteq dir
      /\ \A k \in Jobs : ~Released(k) => disk'[k] = disk[k]
  BY FilesKept
<1>4. FilesHaveDirectories' /\ SavesAreChained' /\ RenamedIsStored' /\ ReleasesAreOrdered'
  BY ResolvedParts
<1>5. /\ calls' = [calls EXCEPT ![j] = "none"]
      /\ mem' = IF Released(j) THEN [mem EXCEPT ![j] = "none"] ELSE mem
      /\ lines' = lines \/ Enqueue(j, mem[j])
  BY DEF Submitted
<1> HIDE DEF j
<1>6. /\ QueueInv'
      /\ \A k \in Jobs : Queued(k)' => (Queued(k) \/ k = j)
      /\ \A q \in Queues, k \in Jobs : WorksOn(q, k)' <=> WorksOn(q, k)
  BY <1>0, <1>1, <1>5, EnqueueQueues, QueuesKept
<1>7. LocalFactCheckTypeOK'
  BY <1>1, <1>2, <1>3, <1>5, <1>6 DEF LocalIInv, LocalInv, LocalFactCheckTypeOK, QueueInv
<1>8. SavesAreAwaited'
  <2> SUFFICES ASSUME NEW k \in Meetings, NEW x \in Members(saves'[k])
               PROVE  SaveIsAwaited(x)'
    BY DEF SavesAreAwaited
  <2>1. x.job \in Jobs /\ QueueOf[x.job] \in Queues /\ SaveIsAwaited(x) /\ x.job # j
    BY <1>2, MemberTypes, ConstantTypes DEF LocalIInv, LocalInv, SavesAreChained, SavesAreAwaited
  <2>2. calls'[x.job] = calls[x.job]
    BY <2>1, <1>5 DEF LocalIInv, LocalInv, LocalFactCheckTypeOK
  <2> QED
    BY <2>1, <2>2, <1>0, <1>6, AwaitedKept
<1>9. CachesAreCurrent'
  <2> SUFFICES ASSUME NEW k \in Jobs, ~Released(k) PROVE CacheIsCurrent(k)'
    BY DEF CachesAreCurrent, Released
  <2>1. CacheIsCurrent(k) /\ QueueOf[k] \in Queues
    BY ConstantTypes DEF LocalIInv, LocalInv, CachesAreCurrent
  <2>2. CASE k = j
    BY <2>1, <2>2, <1>1, <1>5, <1>6
    DEF CacheIsCurrent, LocalIInv, LocalInv, LocalFactCheckTypeOK, IsRunnable, Runnable
  <2>3. CASE k # j
    BY <2>1, <2>3, <1>1, <1>5, <1>6 DEF CacheIsCurrent, LocalIInv, LocalInv, LocalFactCheckTypeOK
  <2> QED
    BY <2>2, <2>3
<1>10. ReportedIsDurable'
  BY <1>1, <1>3, <1>5 DEF LocalIInv, LocalInv, LocalFactCheckTypeOK, ReportedIsDurable, Released, Settled
<1> QED
  BY <1>4, <1>6, <1>7, <1>8, <1>9, <1>10 DEF LocalIInv, LocalInv, QueueInv

\* A save of a run resolves: what was saved is published.
LEMMA RunSavedStep ==
    ASSUME LocalIInv, NEW m \in Meetings, saves[m] # <<>>, saves' = [saves EXCEPT ![m] = Tail(@)],
           NEW good, Head(saves[m]).by # "call", RunSaved(Head(saves[m]), good),
           good /\ m \notin released => Head(saves[m]).pc = "renamed",
           UNCHANGED <<released, releasing>>,
           UNCHANGED <<dir, disk>> \/ (m \in released /\ RemoveDirectory(m))
    PROVE  LocalIInv'
<1> DEFINE save == Head(saves[m])
           j == save.job
           q == QueueOf[j]
<1>0. QueueInv /\ calls' = calls
  BY InvQueues DEF RunSaved
<1>1. /\ j \in Jobs /\ MeetingOf[j] = m /\ q \in Queues /\ save.status \in Status
      /\ WorksOn(q, j) /\ run[q] \in {"marking", "saving"}
      /\ run[q] = "marking" => save.status = "running"
  BY HeadSave DEF SaveIsAwaited, SaveRecord
<1>2. Queued(j) /\ lines[q] # <<>> /\ Head(lines[q]) = j
  BY <1>0, <1>1, WorkIsQueued DEF WorksOn
<1>3. /\ saves' \in [Meetings -> Seq(SaveRecord)]
      /\ \A k \in Meetings : \A x \in Members(saves'[k]) : x \in Members(saves[k]) /\ x.job # j
  BY HeadLeaves
<1>4. /\ disk' \in [Jobs -> Status \union {"none"}] /\ dir' \subseteq dir
      /\ \A k \in Jobs : ~Released(k) => disk'[k] = disk[k]
  BY FilesKept
<1>5. FilesHaveDirectories' /\ SavesAreChained' /\ RenamedIsStored' /\ ReleasesAreOrdered'
  BY ResolvedParts
<1>6. /\ mem' = mem \/ (mem' = [mem EXCEPT ![j] = save.status] /\ ~Released(j) /\ save.pc = "renamed")
      /\ \/ /\ run[q] = "marking" /\ mem' = [mem EXCEPT ![j] = save.status]
            /\ run' = [run EXCEPT ![q] = "working"] /\ lines' = lines
         \/ Ends(q)
  BY <1>1 DEF RunSaved, Publishes, Released
<1>7. ~Released(j) /\ save.pc = "renamed" => disk[j] = save.status
  BY <1>1 DEF LocalIInv, LocalInv, RenamedIsStored, Released
<1> HIDE DEF save, j, q
<1>8. /\ QueueInv' /\ \A p \in Queues \ {q} : run'[p] = run[p]
      /\ \A k \in Jobs : Queued(k)' => Queued(k)
      /\ \A p \in Queues, k \in Jobs : WorksOn(p, k)' => WorksOn(p, k)
      /\ \A p \in Queues \ {q}, k \in Jobs : WorksOn(p, k) => WorksOn(p, k)'
  <2>1. CASE run' = [run EXCEPT ![q] = "working"] /\ lines' = lines
    <3>1. run'[q] = "working" /\ \A p \in Queues \ {q} : run'[p] = run[p]
      BY <2>1, <1>0, <1>1 DEF QueueInv
    <3>2. QueueInv'
      BY <2>1, <3>1, <1>0, <1>1, <1>2 DEF QueueInv, OneRunPerJob, QueuesHoldTheirJobs
    <3> QED
      BY <2>1, <3>1, <3>2, <1>1 DEF Queued, WorksOn
  <2>2. CASE Ends(q)
    BY <2>2, <1>0, <1>1, <1>2, EndsQueues
  <2> QED
    BY <2>1, <2>2, <1>6
<1>9. LocalFactCheckTypeOK'
  BY <1>0, <1>1, <1>3, <1>4, <1>6, <1>8 DEF LocalIInv, LocalInv, LocalFactCheckTypeOK, QueueInv
<1>10. SavesAreAwaited'
  <2> SUFFICES ASSUME NEW k \in Meetings, NEW x \in Members(saves'[k])
               PROVE  SaveIsAwaited(x)'
    BY DEF SavesAreAwaited
  <2>1. x.job \in Jobs /\ QueueOf[x.job] \in Queues /\ SaveIsAwaited(x) /\ x.job # j
    BY <1>3, MemberTypes, ConstantTypes DEF LocalIInv, LocalInv, SavesAreChained, SavesAreAwaited
  <2>2. WorksOn(QueueOf[x.job], x.job) => QueueOf[x.job] # q
    BY <2>1, <1>2 DEF WorksOn
  <2> QED
    BY <2>1, <2>2, <1>0, <1>8 DEF SaveIsAwaited
<1>11. CachesAreCurrent'
  <2> SUFFICES ASSUME NEW k \in Jobs, ~Released(k) PROVE CacheIsCurrent(k)'
    BY DEF CachesAreCurrent, Released
  <2>1. CacheIsCurrent(k) /\ QueueOf[k] \in Queues
    BY ConstantTypes DEF LocalIInv, LocalInv, CachesAreCurrent
  <2>2. CASE k = j
    <3>0. QueueOf[k] = q
      BY <2>2 DEF q
    <3>1. calls'[j] = "none" /\ mem[j] # "none" /\ IsRunnable(mem[j])
      BY <2>1, <2>2, <1>0, <1>1, <1>2 DEF CacheIsCurrent, q
    <3>2. mem'[j] # "none"
      BY <3>1, <1>1, <1>6 DEF LocalIInv, LocalInv, LocalFactCheckTypeOK, Status, Runnable, Settled
    <3>3. WorksOn(QueueOf[k], k)' => IsRunnable(mem'[k])
      <4>1. CASE Ends(q)
        <5>1. ~WorksOn(QueueOf[k], k)'
          BY <4>1, <3>0, <1>0, <1>1, <1>2, EndsQueues
        <5> QED
          BY <5>1
      <4>2. CASE run[q] = "marking" /\ mem' = [mem EXCEPT ![j] = save.status]
        BY <4>2, <2>2, <1>1 DEF LocalIInv, LocalInv, LocalFactCheckTypeOK, IsRunnable, Runnable
      <4> QED
        BY <4>1, <4>2, <1>6
    <3> QED
      BY <2>2, <3>1, <3>2, <3>3 DEF CacheIsCurrent
  <2>3. CASE k # j
    <3>1. mem'[k] = mem[k]
      BY <2>3, <1>6 DEF LocalIInv, LocalInv, LocalFactCheckTypeOK
    <3> QED
      BY <2>1, <3>1, <1>0, <1>8 DEF CacheIsCurrent
  <2> QED
    BY <2>2, <2>3
<1>12. ReportedIsDurable'
  <2> SUFFICES ASSUME NEW k \in Jobs, mem'[k] \in Settled, ~Released(k) PROVE disk'[k] = mem'[k]
    BY DEF ReportedIsDurable, Released
  <2>1. CASE mem'[k] = mem[k]
    BY <2>1, <1>4 DEF LocalIInv, LocalInv, ReportedIsDurable
  <2>2. CASE mem'[k] # mem[k]
    BY <2>2, <1>1, <1>4, <1>6, <1>7 DEF LocalIInv, LocalInv, LocalFactCheckTypeOK
  <2> QED
    BY <2>1, <2>2
<1> QED
  BY <1>5, <1>8, <1>9, <1>10, <1>11, <1>12 DEF LocalIInv, LocalInv, QueueInv

LEMMA ResolveStep ==
    ASSUME LocalIInv, NEW m \in Meetings, saves[m] # <<>>, NEW good, Resolve(m, good),
           good /\ m \notin released => Head(saves[m]).pc = "renamed",
           UNCHANGED <<released, releasing>>,
           UNCHANGED <<dir, disk>> \/ (m \in released /\ RemoveDirectory(m))
    PROVE  LocalIInv'
BY SubmittedStep, RunSavedStep DEF Resolve

LEMMA PersistJobStep ==
    ASSUME LocalIInv, NEW m \in Meetings, PersistJob(m)
    PROVE  LocalIInv'
<1> DEFINE save == Head(saves[m])
<1>0. saves[m] # <<>> /\ UNCHANGED <<released, releasing>>
  BY DEF PersistJob
<1>1. CASE save.pc = "queued" /\ m \in released /\ Resolve(m, TRUE) /\ UNCHANGED <<dir, disk>>
  BY <1>0, <1>1, ResolveStep
<1>2. CASE /\ save.pc = "queued" /\ m \notin released
           /\ dir' = dir \union {m} /\ Moves(m, "directory") /\ UNCHANGED disk
  BY <1>0, <1>2, MovesStep
<1>3. CASE save.pc = "directory" /\ m \in released /\ RemoveDirectory(m) /\ Resolve(m, TRUE)
  BY <1>0, <1>3, ResolveStep
<1>4. CASE /\ save.pc = "directory" /\ m \notin released
           /\ Moves(m, "written") /\ UNCHANGED <<dir, disk>>
  BY <1>0, <1>4, MovesStep
<1>5. CASE /\ save.pc = "written" /\ (m \in released \/ m \notin dir)
           /\ Resolve(m, m \in released) /\ UNCHANGED <<dir, disk>>
  BY <1>0, <1>5, ResolveStep
<1>6. CASE /\ save.pc = "written" /\ m \notin released /\ m \in dir
           /\ disk' = [disk EXCEPT ![save.job] = save.status]
           /\ Moves(m, "renamed") /\ UNCHANGED dir
  BY <1>0, <1>6, MovesStep
<1>7. CASE /\ save.pc = "renamed"
           /\ IF m \in released THEN RemoveDirectory(m) ELSE UNCHANGED <<dir, disk>>
           /\ Resolve(m, TRUE)
  BY <1>0, <1>7, ResolveStep
<1> QED
  BY <1>1, <1>2, <1>3, <1>4, <1>5, <1>6, <1>7 DEF PersistJob

\* A save of the result that fails is followed by the save of the failure.
LEMMA RetriesStep ==
    ASSUME LocalIInv, NEW m \in Meetings, saves[m] # <<>>, Head(saves[m]).by = "try",
           saves' = [saves EXCEPT ![m] =
                       Append(Tail(@), [Head(saves[m]) EXCEPT !.status = "failed", !.by = "catch", !.pc = "queued"])],
           UNCHANGED <<disk, dir, mem, calls, lines, run, released, releasing>>, m \notin released
    PROVE  LocalIInv'
<1> DEFINE save == Head(saves[m])
           e == [save EXCEPT !.status = "failed", !.by = "catch", !.pc = "queued"]
<1>1. /\ save \in SaveRecord /\ save.job \in Jobs /\ MeetingOf[save.job] = m
      /\ SaveIsAwaited(save)
  BY HeadSave
<1>2. e \in SaveRecord /\ e.job = save.job /\ e.by = "catch" /\ e.pc = "queued"
  BY <1>1 DEF SaveRecord, Status, Settled
<1>3. saves \in [Meetings -> Seq(SaveRecord)] /\ \A k \in Meetings : ChainOK(k, saves[k])
  BY DEF LocalIInv, LocalInv, LocalFactCheckTypeOK, SavesAreChained
<1>4. saves'[m] = Append(Tail(saves[m]), e) /\ \A k \in Meetings \ {m} : saves'[k] = saves[k]
  BY <1>3
<1>5. /\ ChainOK(m, Tail(saves[m])) /\ Members(Tail(saves[m])) \subseteq Members(saves[m])
      /\ \A x \in Members(Tail(saves[m])) : x.job # save.job
      /\ Tail(saves[m]) # <<>> => Head(Tail(saves[m])).pc = "queued"
  BY <1>3, ChainTail
<1> HIDE DEF save, e
<1>6. /\ ChainOK(m, saves'[m]) /\ saves'[m] # <<>>
      /\ Members(saves'[m]) = Members(Tail(saves[m])) \union {e}
      /\ Head(saves'[m]) = (IF Tail(saves[m]) = <<>> THEN e ELSE Head(Tail(saves[m])))
  <2> DEFINE t == Tail(saves[m])
  <2>1. ChainOK(m, t) /\ MeetingOf[e.job] = m /\ \A x \in Members(t) : x.job # e.job
    BY <1>1, <1>2, <1>5
  <2> HIDE DEF t
  <2>2. /\ ChainOK(m, Append(t, e)) /\ Append(t, e) # <<>>
        /\ Members(Append(t, e)) = Members(t) \union {e}
        /\ Head(Append(t, e)) = (IF t = <<>> THEN e ELSE Head(t))
    BY <2>1, <1>2, ChainAppend
  <2> QED
    BY <2>2, <1>4 DEF t
<1>7. saves' \in [Meetings -> Seq(SaveRecord)] /\ SavesAreChained'
  <2>1. saves'[m] \in Seq(SaveRecord)
    BY <1>6 DEF ChainOK
  <2> QED
    BY <2>1, <1>3, <1>4, <1>6 DEF SavesAreChained
<1>8. SavesAreAwaited'
  <2>1. SaveIsAwaited(e)
    BY <1>1, <1>2 DEF SaveIsAwaited, save
  <2>2. \A k \in Meetings : \A x \in Members(saves'[k]) : SaveIsAwaited(x)
    BY <2>1, <1>4, <1>5, <1>6 DEF LocalIInv, LocalInv, SavesAreAwaited
  <2> QED
    BY <2>2 DEF SavesAreAwaited, SaveIsAwaited, WorksOn
<1>9. RenamedIsStored'
  BY <1>2, <1>4, <1>5, <1>6 DEF LocalIInv, LocalInv, RenamedIsStored
<1>10. ReleasesAreOrdered'
  BY <1>4 DEF LocalIInv, LocalInv, ReleasesAreOrdered
<1>11. CachesAreCurrent'
  BY DEF LocalIInv, LocalInv, CachesAreCurrent, CacheIsCurrent, Released, Queued, WorksOn
<1> QED
  BY <1>7, <1>8, <1>9, <1>10, <1>11
  DEF LocalIInv, LocalInv, LocalFactCheckTypeOK, OneRunPerJob, QueuesHoldTheirJobs, FilesHaveDirectories,
      ReportedIsDurable, Released

LEMMA PersistFailsStep ==
    ASSUME LocalIInv, NEW m \in Meetings, PersistFails(m)
    PROVE  LocalIInv'
<1>1. CASE Head(saves[m]).by = "try" /\ m \notin released
  BY <1>1, RetriesStep DEF PersistFails
<1>2. CASE ~(Head(saves[m]).by = "try" /\ m \notin released)
  BY <1>2, ResolveStep DEF PersistFails
<1> QED
  BY <1>1, <1>2

-----------------------------------------------------------------------------
(* releaseMeeting, dispose and restart.                                    *)

LEMMA ReleaseMeetingStep ==
    ASSUME LocalIInv, NEW m \in Meetings, ReleaseMeeting(m)
    PROVE  LocalIInv'
<1>1. /\ released' = released \union {m} /\ releasing' = [releasing EXCEPT ![m] = "waiting"]
      /\ mem' = [j \in Jobs |-> IF MeetingOf[j] = m THEN "none" ELSE mem[j]]
      /\ UNCHANGED <<disk, dir, calls, saves, lines, run>>
  BY DEF ReleaseMeeting, MarksReleased
<1>2. LocalFactCheckTypeOK'
  BY <1>1 DEF LocalIInv, LocalInv, LocalFactCheckTypeOK
<1>3. SavesAreAwaited'
  BY <1>1 DEF LocalIInv, LocalInv, SavesAreAwaited, SaveIsAwaited, WorksOn
<1>4. CachesAreCurrent'
  <2> SUFFICES ASSUME NEW k \in Jobs, ~Released(k)' PROVE CacheIsCurrent(k)'
    BY DEF CachesAreCurrent
  <2>1. CacheIsCurrent(k) /\ mem'[k] = mem[k]
    BY <1>1 DEF LocalIInv, LocalInv, CachesAreCurrent, Released
  <2> QED
    BY <1>1, <2>1 DEF CacheIsCurrent, Queued, WorksOn
<1>5. ReportedIsDurable' /\ RenamedIsStored'
  BY <1>1 DEF LocalIInv, LocalInv, ReportedIsDurable, RenamedIsStored, Released
<1>6. ReleasesAreOrdered'
  BY <1>1 DEF LocalIInv, LocalInv, LocalFactCheckTypeOK, ReleasesAreOrdered
<1> QED
  BY <1>1, <1>2, <1>3, <1>4, <1>5, <1>6
  DEF LocalIInv, LocalInv, OneRunPerJob, QueuesHoldTheirJobs, FilesHaveDirectories, SavesAreChained

LEMMA RemoveMeetingStep ==
    ASSUME LocalIInv, NEW m \in Meetings, RemoveMeeting(m)
    PROVE  LocalIInv'
<1>1. /\ m \in released /\ saves[m] = <<>> /\ RemoveDirectory(m)
      /\ releasing' = [releasing EXCEPT ![m] = "done"]
      /\ UNCHANGED <<mem, calls, saves, lines, run, released>>
  BY DEF RemoveMeeting, LocalIInv, LocalInv, ReleasesAreOrdered
<1>2. /\ disk' \in [Jobs -> Status \union {"none"}] /\ dir' \subseteq dir
      /\ FilesHaveDirectories'
      /\ \A k \in Jobs : ~Released(k) => disk'[k] = disk[k]
  BY <1>1, FilesKept
<1>3. LocalFactCheckTypeOK'
  BY <1>1, <1>2 DEF LocalIInv, LocalInv, LocalFactCheckTypeOK
<1>4. SavesAreAwaited'
  BY <1>1 DEF LocalIInv, LocalInv, SavesAreAwaited, SaveIsAwaited, WorksOn
<1>5. CachesAreCurrent'
  BY <1>1 DEF LocalIInv, LocalInv, CachesAreCurrent, CacheIsCurrent, Released, Queued, WorksOn
<1>6. RenamedIsStored'
  <2> SUFFICES ASSUME NEW k \in Meetings, saves[k] # <<>>, k \notin released,
                      Head(saves[k]).pc = "renamed"
               PROVE  disk'[Head(saves[k]).job] = Head(saves[k]).status
    BY <1>1 DEF RenamedIsStored
  <2>1. Head(saves[k]).job \in Jobs /\ MeetingOf[Head(saves[k]).job] = k
    BY HeadSave
  <2> QED
    BY <2>1, <1>2 DEF LocalIInv, LocalInv, RenamedIsStored, Released
<1>7. ReleasesAreOrdered'
  BY <1>1 DEF LocalIInv, LocalInv, LocalFactCheckTypeOK, ReleasesAreOrdered, RemoveDirectory
<1>8. ReportedIsDurable'
  BY <1>1, <1>2 DEF LocalIInv, LocalInv, ReportedIsDurable, Released
<1> QED
  BY <1>1, <1>2, <1>3, <1>4, <1>5, <1>6, <1>7, <1>8
  DEF LocalIInv, LocalInv, OneRunPerJob, QueuesHoldTheirJobs, SavesAreChained

\* A process that has just started: nothing cached, queued, called or saved.
Fresh ==
    /\ disk \in [Jobs -> Status \union {"none"}] /\ dir \subseteq Meetings /\ FilesHaveDirectories
    /\ mem = [j \in Jobs |-> "none"] /\ calls = [j \in Jobs |-> "none"]
    /\ saves = [m \in Meetings |-> <<>>] /\ lines = [q \in Queues |-> <<>>]
    /\ run = [q \in Queues |-> "idle"] /\ released = {}
    /\ releasing = [m \in Meetings |-> "none"]

LEMMA FreshProcess == Fresh => LocalIInv
<1> SUFFICES ASSUME Fresh PROVE LocalIInv
  OBVIOUS
<1> USE DEF Fresh
<1>1. <<>> \in Seq(SaveRecord) /\ <<>> \in Seq(Jobs) /\ DOMAIN <<>> = {}
  OBVIOUS
<1>2. LocalFactCheckTypeOK
  BY <1>1 DEF LocalFactCheckTypeOK
<1>3. OneRunPerJob /\ QueuesHoldTheirJobs
  BY <1>1 DEF OneRunPerJob, QueuesHoldTheirJobs
<1>4. SavesAreChained /\ SavesAreAwaited
  BY <1>1 DEF SavesAreChained, ChainOK, SavesAreAwaited, Members
<1>5. CachesAreCurrent
  <2>1. \A k \in Jobs : ~Queued(k) /\ ~WorksOn(QueueOf[k], k)
    BY <1>1, ConstantTypes DEF Queued, WorksOn
  <2> QED
    BY <2>1 DEF CachesAreCurrent, CacheIsCurrent
<1> QED
  BY <1>2, <1>3, <1>4, <1>5
  DEF LocalIInv, LocalInv, RenamedIsStored, ReleasesAreOrdered, ReportedIsDurable, Settled

\* Files survive the process, and nothing else does.
LEMMA RestartStep ==
    ASSUME LocalIInv, Restart
    PROVE  LocalIInv'
<1>1. Fresh'
  BY DEF Restart, Fresh, LocalIInv, LocalInv, LocalFactCheckTypeOK, FilesHaveDirectories
<1> QED
  BY <1>1, FreshProcess, PTL

\* Steps that leave what the invariant speaks of alone.
LEMMA OtherStep ==
    ASSUME LocalIInv,
           UNCHANGED <<disk, dir, mem, calls, saves, lines, run, released, releasing>>
    PROVE  LocalIInv'
<1>1. CachesAreCurrent' /\ SavesAreAwaited'
  BY DEF LocalIInv, LocalInv, CachesAreCurrent, CacheIsCurrent, SavesAreAwaited, SaveIsAwaited, Released,
         Queued, WorksOn
<1> QED
  BY <1>1
  DEF LocalIInv, LocalInv, LocalFactCheckTypeOK, OneRunPerJob, QueuesHoldTheirJobs, FilesHaveDirectories,
      SavesAreChained, RenamedIsStored, ReleasesAreOrdered, ReportedIsDurable, Released

-----------------------------------------------------------------------------
(* The theorems.                                                           *)

\* Memory, queues, chains of saves and files agree in every state of the service,
\* whatever the calls, failures, releases and restarts (LocalFactCheckService).
THEOREM InductiveInvariant == Spec => []LocalIInv
<1>1. Init => LocalIInv
  <2>1. Init => Fresh
    BY DEF Init, Fresh, FilesHaveDirectories
  <2> QED
    BY <2>1, FreshProcess
<1>2. LocalIInv /\ [Next]_vars => LocalIInv'
  <2> SUFFICES ASSUME LocalIInv, [Next]_vars PROVE LocalIInv'
    OBVIOUS
  <2>1. ASSUME NEW j \in Jobs, SubmitFactCheck(j) \/ PollFactCheck(j) PROVE LocalIInv'
    BY <2>1, CallStep DEF SubmitFactCheck, PollFactCheck
  <2>2. ASSUME NEW j \in Jobs, GetJob(j) PROVE LocalIInv'
    BY <2>2, GetJobStep
  <2>3. ASSUME NEW q \in Queues, RunJob(q) PROVE LocalIInv'
    BY <2>3, RunJobStep
  <2>4. ASSUME NEW q \in Queues, Research(q) PROVE LocalIInv'
    BY <2>4, ResearchStep
  <2>5. ASSUME NEW m \in Meetings, PersistJob(m) PROVE LocalIInv'
    BY <2>5, PersistJobStep
  <2>6. ASSUME NEW m \in Meetings, PersistFails(m) PROVE LocalIInv'
    BY <2>6, PersistFailsStep
  <2>7. ASSUME NEW m \in Meetings, ReleaseMeeting(m) PROVE LocalIInv'
    BY <2>7, ReleaseMeetingStep
  <2>8. ASSUME NEW m \in Meetings, RemoveMeeting(m) PROVE LocalIInv'
    BY <2>8, RemoveMeetingStep
  <2>9. CASE Dispose \/ UNCHANGED vars
    BY <2>9, OtherStep DEF Dispose, vars
  <2>10. CASE Restart
    BY <2>10, RestartStep
  <2> QED
    BY <2>1, <2>2, <2>3, <2>4, <2>5, <2>6, <2>7, <2>8, <2>9, <2>10 DEF Next
<1> QED
  BY <1>1, <1>2, PTL DEF Spec

\* What a caller is told of a settled job was on disk first (updateJob).
THEOREM ReportedDurable == Spec => []ReportedIsDurable
<1>1. LocalIInv => ReportedIsDurable
  BY DEF LocalIInv, LocalInv
<1> QED
  BY <1>1, InductiveInvariant, PTL

\* A released meeting's files do not come back while the process lives
\* (releaseMeeting, persistJob).
THEOREM ReleasedGone == Spec => []ReleasedStaysGone
<1>1. LocalIInv => ReleasedStaysGone
  BY DEF LocalIInv, LocalInv, ReleasesAreOrdered, ReleasedStaysGone
<1> QED
  BY <1>1, InductiveInvariant, PTL

\* A job is in its own queue, once, and has one save under way, which its call or
\* its run awaits (enqueue, persistJob, updateJob).
THEOREM LocalInvariant == Spec => []LocalInv
<1>1. LocalIInv => LocalInv
  BY DEF LocalIInv, LocalInv
<1> QED
  BY <1>1, InductiveInvariant, PTL

=============================================================================
