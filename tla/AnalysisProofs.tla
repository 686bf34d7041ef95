---------------------------- MODULE AnalysisProofs ----------------------------
(***************************************************************************)
(* Proofs about EnqueueTransaction, for any keys, calls, limits and either *)
(* database, and about AnalysisContent, for any tracks, contents, workers  *)
(* and requests.                                                           *)
(***************************************************************************)
EXTENDS AnalysisContent, EnqueueTransaction, FiniteSetTheorems, TLAPS

-----------------------------------------------------------------------------
(* EnqueueTransaction: a call that loses the race for a key.               *)

\* The statements of a call.
LEMMA CallKeeps ==
    ASSUME RaceResolved, NEW c \in Calls, Enqueue(c)
    PROVE  RaceResolved'
<1>0. KeyOf[c] \in JobKeys
  BY EnqueueConstants
<1>1. EnqueueTypeOK
  BY DEF RaceResolved
<1>2. CASE Begin(c)
  BY <1>0, <1>2 DEF RaceResolved, EnqueueTypeOK, ConflictsLeaveRows, Begin, Goes
<1>3. CASE Lookup(c)
  BY <1>0, <1>3 DEF RaceResolved, EnqueueTypeOK, ConflictsLeaveRows, Lookup, Goes, Returns
<1>4. CASE Reset(c)
  BY <1>0, <1>4, EnqueueConstants DEF RaceResolved, EnqueueTypeOK, ConflictsLeaveRows, Reset, Returns
<1>5. CASE Count(c)
  BY <1>0, <1>5 DEF RaceResolved, EnqueueTypeOK, ConflictsLeaveRows, Count, Goes, Returns
<1>6. CASE Insert(c)
  BY <1>0, <1>6, EnqueueConstants DEF RaceResolved, EnqueueTypeOK, ConflictsLeaveRows, Insert, Create, Goes, Returns
<1>7. CASE Resolve(c)
  BY <1>0, <1>7 DEF RaceResolved, EnqueueTypeOK, ConflictsLeaveRows, Resolve, Returns
<1>8. QED
  BY <1>2, <1>3, <1>4, <1>5, <1>6, <1>7 DEF Enqueue

\* The statements of workers, of administrators and of deletions.
LEMMA OthersKeep ==
    ASSUME RaceResolved, NEW k \in JobKeys, ClaimJob(k) \/ Complete(k) \/ Cancel(k) \/ DeleteMusic(k)
    PROVE  RaceResolved'
<1>1. CASE ClaimJob(k) \/ Complete(k) \/ Cancel(k)
  BY <1>1, EnqueueConstants DEF RaceResolved, EnqueueTypeOK, ConflictsLeaveRows, ClaimJob, Complete, Cancel
<1>2. CASE DeleteMusic(k)
  BY <1>2, EnqueueConstants DEF RaceResolved, EnqueueTypeOK, ConflictsLeaveRows, DeleteMusic
<1>3. QED
  BY <1>1, <1>2

\* Whatever transactions overlap, a call that meets a conflict answers with the
\* job of the winner; it fails only when a job was deleted (Enqueue).
THEOREM LosersGetTheJob == EnqueueSpec => []RaceResolved
<1>1. EnqueueInit => RaceResolved
  BY DEF EnqueueInit, RaceResolved, EnqueueTypeOK, ConflictsLeaveRows
<1>2. RaceResolved /\ [EnqueueNext]_enqueueVars => RaceResolved'
  <2>1. RaceResolved /\ UNCHANGED enqueueVars => RaceResolved'
    BY DEF RaceResolved, EnqueueTypeOK, ConflictsLeaveRows, enqueueVars
  <2>2. QED
    BY <2>1, CallKeeps, OthersKeep DEF EnqueueNext
<1>3. QED
  BY <1>1, <1>2, PTL DEF EnqueueSpec

-----------------------------------------------------------------------------
(* EnqueueTransaction over one connection.                                 *)

\* The call that is about to insert is alone in its transaction, and counted
\* less than the limit.
LimitInv ==
    /\ RaceResolved /\ QueueBounded
    /\ \A c \in Calls : /\ pc[c] # "reset"
                        /\ pc[c] \in {"lookup", "count", "insert"} => writer = c
                        /\ pc[c] = "insert" /\ QueueLimit > 0 => Cardinality(Active) < QueueLimit

\* Keys that become active or cease to be.
LEMMA ActiveChanges ==
    ASSUME IsFiniteSet(JobKeys), RaceResolved, NEW k \in JobKeys,
           NEW s \in {"absent", "pending", "running", "settled"},
           status' = [status EXCEPT ![k] = s]
    PROVE  /\ Cardinality(Active) \in Nat /\ Cardinality(Active') \in Nat
           /\ Cardinality(Active') <= Cardinality(Active) + 1
           /\ k \in Active \/ s \notin {"pending", "running"} => Cardinality(Active') <= Cardinality(Active)
<1>1. status \in [JobKeys -> {"absent", "pending", "running", "settled"}]
  BY DEF RaceResolved, EnqueueTypeOK
<1>2. IsFiniteSet(Active) /\ IsFiniteSet(Active')
  <2>1. Active \subseteq JobKeys /\ Active' \subseteq JobKeys
    BY DEF Active
  <2>2. QED
    BY <2>1, FS_Subset
<1>3. Active' \subseteq Active \cup {k}
  BY <1>1 DEF Active
<1>4. k \in Active \/ s \notin {"pending", "running"} => Active' \subseteq Active
  BY <1>1 DEF Active
<1>5. /\ IsFiniteSet(Active \cup {k})
      /\ Cardinality(Active \cup {k}) <= Cardinality(Active) + 1
  <2>1. /\ IsFiniteSet(Active \cup {k})
        /\ \/ Cardinality(Active \cup {k}) = Cardinality(Active)
           \/ Cardinality(Active \cup {k}) = Cardinality(Active) + 1
    BY <1>2, FS_AddElement
  <2>2. Cardinality(Active) \in Nat
    BY <1>2, FS_CardinalityType
  <2>3. QED
    BY <2>1, <2>2
<1>6. /\ Cardinality(Active) \in Nat /\ Cardinality(Active') \in Nat
      /\ Cardinality(Active \cup {k}) \in Nat
  BY <1>2, <1>5, FS_CardinalityType
<1>7. Cardinality(Active') <= Cardinality(Active \cup {k})
  BY <1>3, <1>5, FS_Subset
<1>8. Active' \subseteq Active => Cardinality(Active') <= Cardinality(Active)
  BY <1>2, FS_Subset
<1>9. QED
  BY <1>4, <1>5, <1>6, <1>7, <1>8

\* A statement of a call keeps the limit.
LEMMA CallKeepsLimit ==
    ASSUME IsFiniteSet(JobKeys), OneWriter, Forced = {}, LimitInv, RaceResolved',
           NEW c \in Calls, Enqueue(c)
    PROVE  LimitInv'
<1>0. /\ KeyOf[c] \in JobKeys /\ c # Nobody /\ RaceResolved /\ EnqueueTypeOK
      /\ QueueLimit \in Nat
  BY EnqueueConstants DEF LimitInv, RaceResolved
<1>1. Cardinality(Active) \in Nat
  <2>1. Active \subseteq JobKeys
    BY DEF Active
  <2>2. QED
    BY <2>1, FS_Subset, FS_CardinalityType
<1>2. ASSUME status' = status
      PROVE  Active' = Active
  BY <1>2 DEF Active
<1>3. CASE Begin(c)
  BY <1>0, <1>2, <1>3, EnqueueConstants DEF LimitInv, EnqueueTypeOK, QueueBounded, Begin, Goes
<1>4. CASE Lookup(c)
  BY <1>0, <1>2, <1>4 DEF LimitInv, EnqueueTypeOK, QueueBounded, Lookup, Turn, Goes, Returns
<1>5. CASE Reset(c)
  BY <1>5 DEF LimitInv, Reset
<1>6. CASE Count(c)
  BY <1>0, <1>1, <1>2, <1>6 DEF LimitInv, EnqueueTypeOK, QueueBounded, Count, Turn, Goes, Returns
<1>7. CASE Insert(c)
  <2>1. CASE status[KeyOf[c]] = "absent"
    <3>1. status' = [status EXCEPT ![KeyOf[c]] = "pending"]
      BY <1>7, <2>1 DEF Insert, Create
    <3>2. QueueLimit > 0 => Cardinality(Active') <= QueueLimit
      <4>1. /\ Cardinality(Active') \in Nat
            /\ Cardinality(Active') <= Cardinality(Active) + 1
        BY <1>0, <3>1, ActiveChanges
      <4>2. QueueLimit > 0 => Cardinality(Active) < QueueLimit
        BY <1>7 DEF LimitInv, Insert
      <4>3. QED
        BY <1>0, <1>1, <4>1, <4>2
    <3>3. \A d \in Calls : pc'[d] = (IF d = c THEN "done" ELSE pc[d])
      BY <1>0, <1>7, <2>1 DEF Insert, Returns, EnqueueTypeOK
    <3>4. \A d \in Calls \ {c} : pc[d] \notin {"lookup", "count", "insert"}
      BY <1>7 DEF LimitInv, Insert, Turn
    <3>5. QED
      BY <3>2, <3>3, <3>4 DEF LimitInv, QueueBounded
  <2>2. CASE status[KeyOf[c]] # "absent"
    BY <1>0, <1>2, <1>7, <2>2 DEF LimitInv, EnqueueTypeOK, QueueBounded, Insert, Turn, Goes
  <2>3. QED
    BY <2>1, <2>2
<1>8. CASE Resolve(c)
  BY <1>0, <1>2, <1>8 DEF LimitInv, EnqueueTypeOK, QueueBounded, Resolve, Returns
<1>9. QED
  BY <1>3, <1>4, <1>5, <1>6, <1>7, <1>8 DEF Enqueue

\* Over one connection, as on SQLite, and without forced calls the jobs that
\* wait or run are never more than the limit (Enqueue, connectionPoolLimits).
THEOREM OneWriterHoldsLimit ==
    ASSUME IsFiniteSet(JobKeys), OneWriter, Forced = {}
    PROVE  EnqueueSpec => []QueueBounded
<1>1. EnqueueInit /\ RaceResolved => LimitInv
  <2>1. EnqueueInit => Active = {}
    BY DEF EnqueueInit, Active
  <2>2. QED
    BY <2>1, FS_EmptySet, EnqueueConstants DEF EnqueueInit, LimitInv, QueueBounded
<1>2. LimitInv /\ RaceResolved' /\ [EnqueueNext]_enqueueVars => LimitInv'
  <2> SUFFICES ASSUME LimitInv, RaceResolved', [EnqueueNext]_enqueueVars
               PROVE  LimitInv'
    OBVIOUS
  <2>0. RaceResolved /\ QueueLimit \in Nat
    BY EnqueueConstants DEF LimitInv
  <2>1. ASSUME NEW c \in Calls, Enqueue(c)
        PROVE  LimitInv'
    BY <2>1, CallKeepsLimit
  <2>2. ASSUME NEW k \in JobKeys, ClaimJob(k) \/ Complete(k) \/ Cancel(k) \/ DeleteMusic(k)
        PROVE  LimitInv'
    <3>1. PICK s \in {"absent", "pending", "running", "settled"} :
            /\ status' = [status EXCEPT ![k] = s]
            /\ status[k] \in {"pending", "running"} \/ s \notin {"pending", "running"}
      BY <2>2 DEF ClaimJob, Complete, Cancel, DeleteMusic
    <3>2. k \in Active \/ s \notin {"pending", "running"}
      BY <3>1 DEF Active
    <3>3. /\ Cardinality(Active) \in Nat /\ Cardinality(Active') \in Nat
          /\ Cardinality(Active') <= Cardinality(Active)
      BY <2>0, <3>1, <3>2, ActiveChanges
    <3>4. /\ pc' = pc /\ writer' = writer
      BY <2>2 DEF ClaimJob, Complete, Cancel, DeleteMusic
    <3>5. QED
      BY <2>0, <3>3, <3>4 DEF LimitInv, QueueBounded
  <2>3. CASE UNCHANGED enqueueVars
    BY <2>3 DEF LimitInv, QueueBounded, Active, enqueueVars
  <2>4. QED
    BY <2>1, <2>2, <2>3 DEF EnqueueNext
<1>3. LimitInv => QueueBounded
  BY DEF LimitInv
<1>4. QED
  BY <1>1, <1>2, <1>3, LosersGetTheJob, PTL DEF EnqueueSpec

-----------------------------------------------------------------------------
(* AnalysisContent: the shapes of keys, requests and workers.              *)

Row == [status : {"absent", "pending", "running", "succeeded", "failed", "stale", "cancelled"},
        artifact : Nat, cancel : BOOLEAN]

TrackRow == [live : BOOLEAN, hash : Contents, revision : Nat, ext : Exts, content : Nat]

Class == [hash : Contents, manual : BOOLEAN]

Finding == [pc : {"find"}, kind : Kinds, music : Musics, force : BOOLEAN]

Serving == [pc : {"mark", "settle", "rules", "audio"}, kind : Kinds, music : Musics, force : BOOLEAN,
            hash : Contents, content : Nat, revision : Nat]

Working == [pc : {"start", "analyze", "store", "apply", "write", "finish", "lost"}, key : Keys,
            holds : BOOLEAN, artifact : Nat,
            result : {"none", "succeeded", "failed", "stale", "retry"}]

\* A key is of a track, and an audio key of a content.
LEMMA KeyShape ==
    \A k \in Keys : /\ k[1] \in {"audio", "rules"} /\ k[2] \in Musics
                    /\ k[1] = "audio" => /\ k[3] \in Hashes /\ k[4] \in Revisions
                                         /\ k = AudioKey(k[2], k[3], k[4])
<1>1. ASSUME NEW m \in Musics, NEW h \in Hashes, NEW n \in Revisions
      PROVE  /\ AudioKey(m, h, n)[1] = "audio" /\ AudioKey(m, h, n)[2] = m
             /\ AudioKey(m, h, n)[3] = h /\ AudioKey(m, h, n)[4] = n
  BY DEF AudioKey
<1>2. ASSUME NEW m \in Musics, NEW n \in 1..MaxEdits+1
      PROVE  RulesKey(m, n)[1] = "rules" /\ RulesKey(m, n)[2] = m
  BY DEF RulesKey
<1>3. QED
  BY <1>1, <1>2 DEF Keys

\* The parts of an audio key.
LEMMA AudioKeyParts ==
    ASSUME NEW m, NEW h, NEW n
    PROVE  /\ AudioKey(m, h, n)[1] = "audio" /\ AudioKey(m, h, n)[2] = m
           /\ AudioKey(m, h, n)[3] = h /\ AudioKey(m, h, n)[4] = n
           /\ m \in Musics /\ h \in Hashes /\ n \in Revisions => AudioKey(m, h, n) \in Keys
BY DEF AudioKey, Keys

\* The key of the content a track has.
LEMMA CurrentKeyShape ==
    ASSUME TypeOK, KeysReached, NEW m \in Musics, music[m].hash # NoHash
    PROVE  /\ CurrentKey(m) \in Keys /\ CurrentKey(m)[1] = "audio" /\ CurrentKey(m)[2] = m
           /\ CurrentKey(m)[3] = music[m].hash /\ CurrentKey(m)[4] = music[m].content
<1>1. /\ music[m].hash \in Hashes /\ music[m].content \in Nat /\ uploads \in Nat
  BY DEF TypeOK, Contents
<1>2. music[m].content \in Revisions
  BY <1>1, ContentConstants DEF KeysReached, Revisions
<1>3. QED
  BY <1>1, <1>2, AudioKeyParts DEF CurrentKey

\* Idle requests and workers, and those that are not.
LEMMA Shapes ==
    ASSUME TypeOK
    PROVE  /\ \A q \in Requests : \/ request[q] = IdleRequest /\ request[q].pc = "idle"
                                  \/ request[q] \in Finding /\ request[q].pc = "find"
                                  \/ request[q] \in Serving /\ request[q].pc \notin {"idle", "find"}
           /\ \A w \in Workers : \/ worker[w] = IdleWorker /\ worker[w].pc = "idle"
                                 \/ worker[w] \in Working /\ worker[w].pc # "idle"
<1>1. ASSUME NEW q \in Requests
      PROVE  \/ request[q] = IdleRequest /\ request[q].pc = "idle"
             \/ request[q] \in Finding /\ request[q].pc = "find"
             \/ request[q] \in Serving /\ request[q].pc \notin {"idle", "find"}
  <2>1. request[q] = IdleRequest \/ request[q] \in Finding \/ request[q] \in Serving
    BY DEF TypeOK, RequestStates, Finding, Serving
  <2>2. IdleRequest.pc = "idle"
    BY DEF IdleRequest
  <2>3. QED
    BY <2>1, <2>2 DEF Finding, Serving
<1>2. ASSUME NEW w \in Workers
      PROVE  \/ worker[w] = IdleWorker /\ worker[w].pc = "idle"
             \/ worker[w] \in Working /\ worker[w].pc # "idle"
  <2>1. worker[w] = IdleWorker \/ worker[w] \in Working
    BY DEF TypeOK, WorkerStates, Working
  <2>2. IdleWorker.pc = "idle"
    BY DEF IdleWorker
  <2>3. QED
    BY <2>1, <2>2 DEF Working
<1>3. QED
  BY <1>1, <1>2

-----------------------------------------------------------------------------
(* Steps of a worker that leave the jobs alone.                            *)

\* The worker w goes on with its job, which it neither takes for succeeded nor
\* calls stale but for what the track has.
GoesOn(w) ==
    /\ w \in Busy /\ UNCHANGED <<music, jobs, request, uploads, edits, lost>>
    /\ \A v \in Workers \ {w} : worker'[v] = worker[v]
    /\ \/ worker'[w] = IdleWorker
       \/ /\ worker'[w].key = worker[w].key /\ worker'[w].holds = worker[w].holds
          /\ Past(w)' => \/ Past(w) \/ Job(w)[1] = "rules"
                         \/ music[Track(w)].hash = Content(w)
          /\ worker'[w].result = "stale" =>
               \/ worker[w].result = "stale" \/ Job(w)[1] = "rules"
               \/ ~music[Track(w)].live \/ music[Track(w)].hash # Content(w)

LEMMA GoesOnKeeps ==
    ASSUME ContentInv, NEW w \in Workers, GoesOn(w),
           TypeOK', WorkersSound', SucceededHasArtifact', Serial => EvidenceIsCurrent'
    PROVE  ContentInv'
<1> USE DEF Busy, Job, Track, Content
<1>0. /\ TypeOK /\ w \in Workers /\ worker[w] \in Working /\ IdleWorker.pc = "idle"
      /\ music' = music /\ jobs' = jobs /\ request' = request /\ uploads' = uploads /\ lost' = lost
      /\ \A v \in Workers \ {w} : worker'[v] = worker[v]
  BY Shapes DEF ContentInv, GoesOn, IdleWorker
<1>1. \A v \in Busy' : v \in Busy /\ worker'[v].key = worker[v].key /\ worker'[v].holds = worker[v].holds
  BY <1>0 DEF GoesOn
<1>2. \A v \in Busy : worker[v].key \in Keys
  BY Shapes, <1>0 DEF Working
<1>3. HoldersRun'
  BY <1>0, <1>1 DEF ContentInv, HoldersRun
<1>4. \A m, pcs : Owed(m, pcs)' <=> Owed(m, pcs)
  BY <1>0 DEF Owed, Marking
<1>5. ASSUME OneRequest
      PROVE  RequestsCurrent' /\ OldContentMarked'
  <2>1. RequestsCurrent'
    BY <1>0, <1>5 DEF ContentInv, RequestsCurrent
  <2>2. ASSUME NEW v \in Busy', worker'[v].key[1] = "audio", worker'[v].holds,
               music[worker'[v].key[2]].live, worker'[v].key[3] # music[worker'[v].key[2]].hash, Past(v)'
        PROVE  jobs[worker'[v].key].cancel \/ Owed(worker'[v].key[2], {"find", "mark"})
    <3>1. v \in Busy /\ worker'[v].key = worker[v].key /\ worker[v].holds
      BY <1>1, <2>2
    <3>2. Past(v)
      BY <1>0, <1>1, <2>2 DEF GoesOn, Past
    <3>3. QED
      BY <1>5, <2>2, <3>1, <3>2 DEF ContentInv, OldContentMarked
  <2>3. OldContentMarked'
    BY <1>0, <1>4, <1>5, <2>2 DEF ContentInv, OldContentMarked, AudioKeys
  <2>4. QED
    BY <2>1, <2>3
<1>6. ASSUME OneRequest, OneExtension
      PROVE  KeysReached' /\ CurrentScheduled'
  <2>1. CurrentScheduled'
    BY <1>0, <1>4, <1>6 DEF ContentInv, CurrentScheduled, CurrentKey
  <2>2. ASSUME NEW v \in Busy', worker'[v].key[1] = "audio"
        PROVE  /\ Reached(worker[v].key) /\ worker'[v].key = worker[v].key
               /\ worker'[v].result = "stale" /\ music[worker[v].key[2]].live =>
                    worker[v].key # CurrentKey(worker[v].key[2])
    <3>1. v \in Busy /\ worker'[v].key = worker[v].key
      BY <1>1
    <3>2. /\ Reached(worker[v].key)
          /\ worker[v].result = "stale" /\ music[worker[v].key[2]].live =>
               worker[v].key # CurrentKey(worker[v].key[2])
      BY <1>6, <2>2, <3>1 DEF ContentInv, KeysReached
    <3>3. music[worker[v].key[2]].hash # worker[v].key[3] => worker[v].key # CurrentKey(worker[v].key[2])
      BY AudioKeyParts DEF CurrentKey
    <3>4. v # w => worker'[v] = worker[v]
      BY <1>0, <3>1
    <3>5. v = w => /\ worker'[v] # IdleWorker
                   /\ worker[v].key[1] # "rules"
      BY <1>0, <2>2, <3>1
    <3>6. QED
      BY <3>1, <3>2, <3>3, <3>4, <3>5 DEF GoesOn
  <2>3. KeysReached'
    BY <1>0, <1>6, <2>2 DEF ContentInv, KeysReached, Reached, CurrentKey
  <2>4. QED
    BY <2>1, <2>3
<1>7. QED
  BY <1>3, <1>5, <1>6 DEF ContentInv

\* What must hold of the statement, the result and the artifact of a worker.
Fit(w, at, result, number) ==
    /\ at \in {"start", "analyze", "store", "apply", "write", "finish", "lost"}
    /\ result \in {"none", "succeeded", "failed", "stale", "retry"} /\ number \in Nat
    /\ at \in {"analyze", "store", "apply", "write"} => Job(w)[1] = "audio"
    /\ Job(w)[1] = "audio" /\ (at \in {"apply", "write"} \/ result = "succeeded") => number # 0
    /\ at = "finish" => result # "none"
    /\ Serial => at # "write"

\* A worker that goes on to another statement of its job.
LEMMA WorkerGoes ==
    ASSUME ContentInv, NEW w \in Busy, NEW at, NEW result, NEW number, Fit(w, at, result, number),
           worker' = [worker EXCEPT ![w] =
                        [worker[w] EXCEPT !.pc = at, !.result = result, !.artifact = number]],
           UNCHANGED <<music, jobs, request, uploads, edits, lost>>,
           lastId' \in Nat, artifact' \in [Hashes -> Nat], class' \in [Musics -> Class],
           SucceededHasArtifact', Serial => EvidenceIsCurrent',
           at \in {"analyze", "store", "apply", "write"} \/ result = "succeeded" =>
             Past(w) \/ Job(w)[1] = "rules" \/ music[Track(w)].hash = Content(w),
           result = "stale" =>
             \/ worker[w].result = "stale" \/ Job(w)[1] = "rules"
             \/ ~music[Track(w)].live \/ music[Track(w)].hash # Content(w)
    PROVE  ContentInv'
<1>1. /\ TypeOK /\ w \in Workers /\ worker[w] \in Working
      /\ worker \in [Workers -> WorkerStates]
  BY Shapes DEF ContentInv, Busy, TypeOK
<1> DEFINE new == [worker[w] EXCEPT !.pc = at, !.result = result, !.artifact = number]
<1>2. /\ new \in Working /\ new.pc = at /\ new.result = result /\ new.artifact = number
      /\ new.key = worker[w].key /\ new.holds = worker[w].holds
  BY <1>1 DEF Working, Fit
<1>3. worker' = [worker EXCEPT ![w] = new]
  OBVIOUS
<1>4. new \in WorkerStates
  BY <1>2 DEF WorkerStates, Working
<1> HIDE DEF new
<1>5. /\ worker' \in [Workers -> WorkerStates] /\ worker'[w] = new
      /\ \A v \in Workers \ {w} : worker'[v] = worker[v]
  BY <1>1, <1>3, <1>4
<1>6. TypeOK'
  BY <1>1, <1>5 DEF TypeOK, Class
<1>7. WorkersSound'
  BY <1>2, <1>5 DEF ContentInv, WorkersSound, Busy, Job, Fit
<1>8. GoesOn(w)
  BY <1>1, <1>2, <1>5 DEF GoesOn, Past
<1>9. QED
  BY <1>1, <1>6, <1>7, <1>8, GoesOnKeeps

\* Start, Analyze, Fail and Lost change nothing but the worker.
LEMMA StartKeeps ==
    ASSUME ContentInv, NEW w \in Workers, Start(w)
    PROVE  ContentInv'
<1>1. /\ w \in Busy /\ worker[w] \in Working /\ TypeOK /\ Job(w) \in Keys /\ Job(w)[1] = "audio"
      /\ UNCHANGED <<music, artifact, jobs, class, request, uploads, edits, lastId, lost>>
  BY Shapes DEF ContentInv, Start, Busy, Working, Job
<1>2. /\ lastId' \in Nat /\ artifact' \in [Hashes -> Nat] /\ class' \in [Musics -> Class]
      /\ SucceededHasArtifact' /\ (Serial => EvidenceIsCurrent')
  BY <1>1 DEF ContentInv, TypeOK, Class, SucceededHasArtifact, EvidenceIsCurrent
<1>3. Content(w) \in Hashes /\ artifact[Content(w)] \in Nat /\ worker[w].artifact \in Nat
  BY <1>1, KeyShape DEF Content, TypeOK, Working
<1>4. worker \in [Workers -> WorkerStates] /\ worker[w].result \in {"none", "succeeded", "failed", "stale", "retry"}
  BY <1>1 DEF TypeOK, Working
<1>6. CASE ~music[Track(w)].live \/ music[Track(w)].hash # Content(w)
  <2>1. PICK result \in {"failed", "stale"} : worker' = [worker EXCEPT ![w].pc = "finish", ![w].result = result]
    BY <1>6 DEF Start, Ends
  <2>2. worker' = [worker EXCEPT ![w] =
                     [worker[w] EXCEPT !.pc = "finish", !.result = result, !.artifact = worker[w].artifact]]
    BY <1>1, <1>4, <2>1 DEF Working
  <2>3. Fit(w, "finish", result, worker[w].artifact)
    BY <1>3 DEF Fit
  <2>4. QED
    BY <1>1, <1>2, <1>6, <2>2, <2>3, WorkerGoes
<1>7. CASE music[Track(w)].live /\ music[Track(w)].hash = Content(w)
  <2>1. PICK at \in {"apply", "analyze"}, number \in Nat :
          /\ worker' = [worker EXCEPT ![w].pc = at, ![w].artifact = number]
          /\ at = "apply" => number # 0
          /\ number = worker[w].artifact \/ number # 0
    <3>1. CASE artifact[Content(w)] # 0
      BY <1>3, <1>7, <3>1 DEF Start
    <3>2. CASE artifact[Content(w)] = 0
      <4>1. worker' = [worker EXCEPT ![w].pc = "analyze"]
        BY <1>7, <3>2 DEF Start, To
      <4>2. worker' = [worker EXCEPT ![w].pc = "analyze", ![w].artifact = worker[w].artifact]
        BY <1>1, <1>4, <4>1 DEF Working
      <4>3. QED
        BY <1>3, <4>2
    <3>3. QED
      BY <3>1, <3>2
  <2>2. worker' = [worker EXCEPT ![w] =
                     [worker[w] EXCEPT !.pc = at, !.result = worker[w].result, !.artifact = number]]
    BY <1>1, <1>4, <2>1 DEF Working
  <2>3. worker[w].result = "succeeded" => worker[w].artifact # 0
    BY <1>1 DEF ContentInv, WorkersSound
  <2>4. Fit(w, at, worker[w].result, number)
    BY <1>1, <1>4, <2>1, <2>3 DEF Fit
  <2>5. QED
    BY <1>1, <1>2, <1>7, <2>2, <2>4, WorkerGoes
<1>8. QED
  BY <1>6, <1>7

\* Facts about a worker at its job.
LEMMA AtJob ==
    ASSUME ContentInv, NEW w \in Workers, worker[w].pc # "idle"
    PROVE  /\ TypeOK /\ w \in Busy /\ worker[w] \in Working /\ Job(w) \in Keys
           /\ worker \in [Workers -> WorkerStates] /\ worker[w].artifact \in Nat
           /\ worker[w].result \in {"none", "succeeded", "failed", "stale", "retry"}
           /\ Track(w) \in Musics
           /\ Job(w)[1] = "audio" => Content(w) \in Hashes
<1>1. TypeOK /\ w \in Busy /\ worker[w] \in Working
  BY Shapes DEF ContentInv, Busy
<1>2. QED
  BY <1>1, KeyShape DEF TypeOK, Working, Job, Track, Content

\* The end of an attempt.
LEMMA EndsKeeps ==
    ASSUME ContentInv, NEW w \in Workers, worker[w].pc # "idle",
           NEW result \in {"succeeded", "failed", "stale", "retry"}, Ends(w, result),
           UNCHANGED <<music, artifact, jobs, request, uploads, edits, lastId, lost>>,
           class' \in [Musics -> Class], Serial => EvidenceIsCurrent',
           result = "succeeded" => /\ Past(w) \/ Job(w)[1] = "rules" \/ music[Track(w)].hash = Content(w)
                                   /\ Job(w)[1] = "audio" => worker[w].artifact # 0,
           result = "stale" => \/ Job(w)[1] = "rules"
                               \/ ~music[Track(w)].live \/ music[Track(w)].hash # Content(w)
    PROVE  ContentInv'
<1>1. /\ TypeOK /\ w \in Busy /\ worker[w] \in Working /\ worker \in [Workers -> WorkerStates]
      /\ worker[w].artifact \in Nat
  BY AtJob
<1>2. worker' = [worker EXCEPT ![w] =
                   [worker[w] EXCEPT !.pc = "finish", !.result = result, !.artifact = worker[w].artifact]]
  BY <1>1 DEF Ends, Working
<1>3. Fit(w, "finish", result, worker[w].artifact)
  BY <1>1 DEF Fit
<1>4. /\ lastId' \in Nat /\ artifact' \in [Hashes -> Nat] /\ SucceededHasArtifact'
  BY <1>1 DEF ContentInv, TypeOK, SucceededHasArtifact
<1>5. QED
  BY <1>1, <1>2, <1>3, <1>4, WorkerGoes

\* The classifications stay as they are.
LEMMA SameEvidence ==
    ASSUME ContentInv, music' = music, class' = class
    PROVE  class' \in [Musics -> Class] /\ (Serial => EvidenceIsCurrent')
BY DEF ContentInv, TypeOK, Class, EvidenceIsCurrent

\* A worker is at another statement, with the result it had.
LEMMA MovesKeeps ==
    ASSUME ContentInv, NEW w \in Workers, worker[w].pc # "idle",
           NEW at \in {"store", "write"}, worker' = [worker EXCEPT ![w].pc = at],
           UNCHANGED <<music, artifact, jobs, class, request, uploads, edits, lastId, lost>>,
           Past(w), Job(w)[1] = "audio",
           at = "write" => worker[w].artifact # 0 /\ ~Serial
    PROVE  ContentInv'
<1>1. /\ TypeOK /\ w \in Busy /\ worker[w] \in Working /\ worker \in [Workers -> WorkerStates]
      /\ worker[w].artifact \in Nat
      /\ worker[w].result \in {"none", "succeeded", "failed", "stale", "retry"}
  BY AtJob
<1>2. worker' = [worker EXCEPT ![w] =
                   [worker[w] EXCEPT !.pc = at, !.result = worker[w].result, !.artifact = worker[w].artifact]]
  BY <1>1 DEF Working
<1>3. Fit(w, at, worker[w].result, worker[w].artifact)
  BY <1>1 DEF Fit, ContentInv, WorkersSound
<1>4. /\ lastId' \in Nat /\ artifact' \in [Hashes -> Nat] /\ SucceededHasArtifact'
  BY <1>1 DEF ContentInv, TypeOK, SucceededHasArtifact
<1>5. QED
  BY <1>1, <1>2, <1>3, <1>4, SameEvidence, WorkerGoes

LEMMA AnalyzeKeeps ==
    ASSUME ContentInv, NEW w \in Workers, Analyze(w)
    PROVE  ContentInv'
<1>1. /\ worker[w].pc = "analyze" /\ worker[w].pc # "idle" /\ Past(w) /\ w \in Busy
      /\ UNCHANGED <<music, artifact, jobs, class, request, uploads, edits, lastId, lost>>
  BY DEF Analyze, Past, Busy
<1>2. Job(w)[1] = "audio"
  BY <1>1 DEF ContentInv, WorkersSound
<1>3. CASE music[Track(w)].live /\ music[Track(w)].hash = Content(w)
  BY <1>1, <1>2, <1>3, MovesKeeps DEF Analyze, To
<1>4. CASE ~music[Track(w)].live \/ music[Track(w)].hash # Content(w)
  BY <1>1, <1>4, EndsKeeps, SameEvidence DEF Analyze
<1>5. QED
  BY <1>3, <1>4

LEMMA FailKeeps ==
    ASSUME ContentInv, NEW w \in Workers, Fail(w)
    PROVE  ContentInv'
BY EndsKeeps, SameEvidence DEF Fail

LEMMA LostKeeps ==
    ASSUME ContentInv, NEW w \in Workers, Lost(w)
    PROVE  ContentInv'
<1>1. /\ worker[w].pc = "lost" /\ worker' = [worker EXCEPT ![w] = IdleWorker]
      /\ UNCHANGED <<music, artifact, jobs, class, request, uploads, edits, lastId, lost>>
  BY DEF Lost
<1>2. /\ TypeOK /\ w \in Busy /\ worker[w] \in Working /\ worker \in [Workers -> WorkerStates]
  BY <1>1, AtJob
<1>3. /\ worker' \in [Workers -> WorkerStates] /\ worker'[w] = IdleWorker
      /\ \A v \in Workers \ {w} : worker'[v] = worker[v]
  BY <1>1, <1>2 DEF WorkerStates
<1>4. TypeOK'
  BY <1>1, <1>2, <1>3 DEF TypeOK
<1>5. IdleWorker.pc = "idle"
  BY DEF IdleWorker
<1>6. WorkersSound' /\ SucceededHasArtifact'
  BY <1>1, <1>3, <1>5 DEF ContentInv, WorkersSound, SucceededHasArtifact, Busy, Job
<1>7. GoesOn(w)
  BY <1>1, <1>2, <1>3 DEF GoesOn
<1>8. QED
  BY <1>1, <1>4, <1>6, <1>7, GoesOnKeeps, SameEvidence

\* StoreAnalysis names no artifact anew that a succeeded job names.
LEMMA StoreKeeps ==
    ASSUME ContentInv, NEW w \in Workers, Store(w)
    PROVE  ContentInv'
<1> DEFINE h == Content(w)
           number == IF artifact[h] = 0 THEN lastId + 1 ELSE artifact[h]
<1>1. /\ worker[w].pc = "store" /\ worker[w].pc # "idle" /\ Past(w)
      /\ artifact' = [artifact EXCEPT ![h] = number]
      /\ lastId' = IF number > lastId THEN number ELSE lastId
      /\ worker' = [worker EXCEPT ![w].pc = "apply", ![w].artifact = number]
      /\ UNCHANGED <<music, jobs, class, request, uploads, edits, lost>>
  BY DEF Store, Past
<1>2. /\ TypeOK /\ w \in Busy /\ worker[w] \in Working /\ worker \in [Workers -> WorkerStates]
      /\ worker[w].result \in {"none", "succeeded", "failed", "stale", "retry"}
      /\ Job(w)[1] = "audio" => h \in Hashes
  BY <1>1, AtJob
<1>3. Job(w)[1] = "audio" /\ h \in Hashes
  BY <1>1, <1>2 DEF ContentInv, WorkersSound
<1>4. number \in Nat /\ number # 0 /\ lastId' \in Nat
  BY <1>1, <1>2, <1>3 DEF TypeOK
<1>5. worker' = [worker EXCEPT ![w] =
                   [worker[w] EXCEPT !.pc = "apply", !.result = worker[w].result, !.artifact = number]]
  BY <1>1, <1>2 DEF Working
<1>6. Fit(w, "apply", worker[w].result, number)
  BY <1>2, <1>3, <1>4 DEF Fit
<1>7. artifact' \in [Hashes -> Nat] /\ artifact'[h] = number
      /\ \A g \in Hashes : artifact'[g] = artifact[g] \/ artifact[g] = 0
  BY <1>1, <1>2, <1>3, <1>4 DEF TypeOK
<1>8. SucceededHasArtifact'
  BY <1>1, <1>7, KeyShape DEF ContentInv, SucceededHasArtifact
<1> HIDE DEF number
<1>9. QED
  BY <1>1, <1>2, <1>4, <1>5, <1>6, <1>7, <1>8, SameEvidence, WorkerGoes

\* ReclassifyWithAudio, in one transaction or at its last statement.
LEMMA ReclassifiedKeeps ==
    ASSUME ContentInv, NEW w \in Workers, worker[w].pc \in {"apply", "write"}, Reclassified(w),
           Serial => Matches(Track(w), Content(w)),
           UNCHANGED <<music, artifact, jobs, request, uploads, edits, lastId, lost>>
    PROVE  ContentInv'
<1>1. /\ TypeOK /\ w \in Busy /\ Past(w) /\ Job(w)[1] = "audio" /\ worker[w].artifact # 0
      /\ Track(w) \in Musics /\ Content(w) \in Hashes
  BY AtJob DEF Past, ContentInv, WorkersSound
<1>2. CASE artifact[Content(w)] = worker[w].artifact
  <2>1. class' = [class EXCEPT ![Track(w)] = [class[Track(w)] EXCEPT !.hash = Content(w)]]
    BY <1>2 DEF Reclassified, Projected
  <2>2. class' \in [Musics -> Class]
    BY <1>1, <2>1 DEF TypeOK, Class, Contents
  <2>3. Serial => EvidenceIsCurrent'
    BY <1>1, <2>1 DEF ContentInv, EvidenceIsCurrent, TypeOK, Matches
  <2>4. QED
    BY <1>1, <1>2, <2>2, <2>3, EndsKeeps DEF Reclassified
<1>3. CASE artifact[Content(w)] # worker[w].artifact
  BY <1>1, <1>3, EndsKeeps, SameEvidence DEF Reclassified
<1>4. QED
  BY <1>2, <1>3

LEMMA ApplyKeeps ==
    ASSUME ContentInv, NEW w \in Workers, Apply(w) \/ ApplyWrite(w)
    PROVE  ContentInv'
<1>1. CASE ApplyWrite(w)
  <2>1. ~Serial
    BY <1>1 DEF ApplyWrite, ContentInv, WorkersSound, Busy
  <2>2. QED
    BY <1>1, <2>1, ReclassifiedKeeps DEF ApplyWrite
<1>2. CASE Apply(w)
  <2>1. /\ worker[w].pc = "apply" /\ worker[w].pc # "idle" /\ Past(w) /\ w \in Busy
        /\ UNCHANGED <<music, artifact, jobs, request, uploads, edits, lastId, lost>>
    BY <1>2 DEF Apply, Past, Busy
  <2>2. Job(w)[1] = "audio" /\ worker[w].artifact # 0
    BY <2>1 DEF ContentInv, WorkersSound
  <2>3. CASE ~Matches(Track(w), Content(w))
    BY <1>2, <2>1, <2>3, EndsKeeps, SameEvidence DEF Apply, Matches
  <2>4. CASE Matches(Track(w), Content(w)) /\ Serial
    BY <1>2, <2>1, <2>4, ReclassifiedKeeps DEF Apply
  <2>5. CASE Matches(Track(w), Content(w)) /\ ~Serial
    BY <1>2, <2>1, <2>2, <2>5, MovesKeeps DEF Apply, To
  <2>6. QED
    BY <2>3, <2>4, <2>5
<1>3. QED
  BY <1>1, <1>2

LEMMA ApplyRulesKeeps ==
    ASSUME ContentInv, NEW w \in Workers, ApplyRules(w)
    PROVE  ContentInv'
<1>1. /\ worker[w].pc = "start" /\ worker[w].pc # "idle" /\ Job(w)[1] = "rules"
      /\ UNCHANGED <<music, artifact, jobs, request, uploads, edits, lastId, lost>>
  BY DEF ApplyRules
<1>2. TypeOK /\ Track(w) \in Musics
  BY <1>1, AtJob
<1>3. CASE music[Track(w)].live /\ music[Track(w)].revision = Job(w)[3]
  <2>1. class' = [class EXCEPT ![Track(w)] = [class[Track(w)] EXCEPT !.hash = Latest(Track(w))]]
    BY <1>3 DEF ApplyRules, Projected
  <2>2. Latest(Track(w)) \in {NoHash, music[Track(w)].hash} /\ Latest(Track(w)) \in Contents
    BY <1>2 DEF Latest, TypeOK, Contents
  <2>3. class' \in [Musics -> Class]
    BY <1>2, <2>1, <2>2 DEF TypeOK, Class
  <2>4. Serial => EvidenceIsCurrent'
    BY <1>1, <1>2, <2>1, <2>2 DEF ContentInv, EvidenceIsCurrent, TypeOK
  <2>5. QED
    BY <1>1, <1>3, <2>3, <2>4, EndsKeeps DEF ApplyRules
<1>4. CASE ~(music[Track(w)].live /\ music[Track(w)].revision = Job(w)[3])
  BY <1>1, <1>4, EndsKeeps, SameEvidence DEF ApplyRules
<1>5. QED
  BY <1>3, <1>4

-----------------------------------------------------------------------------
(* Steps of a worker that change its job.                                  *)

\* The worker w takes the job k or gives it up; no other worker holds it.
LEMMA JobKeeps ==
    ASSUME ContentInv, NEW w \in Workers, NEW k \in Keys, NEW row \in Row, NEW new \in WorkerStates,
           jobs' = [jobs EXCEPT ![k] = row], worker' = [worker EXCEPT ![w] = new],
           UNCHANGED <<music, artifact, class, request, uploads, edits, lastId, lost>>,
           jobs[k].status # "absent", row.status # "absent", row.cancel = jobs[k].cancel,
           music[k[2]].live => \A v \in Busy \ {w} : ~(worker[v].holds /\ Job(v) = k),
           \/ new = IdleWorker
           \/ /\ new.key = k /\ w \in Busy /\ Job(w) = k /\ ~new.holds
              /\ new.pc = worker[w].pc /\ new.result = worker[w].result /\ new.artifact = worker[w].artifact
           \/ new.key = k /\ new.pc = "start" /\ new.result = "none" /\ row.status = "running",
           k[1] = "audio" /\ row.status = "succeeded" =>
             /\ row.artifact # 0 /\ artifact[k[3]] = row.artifact
             /\ OneRequest /\ music[k[2]].live /\ k[3] # music[k[2]].hash =>
                  Owed(k[2], {"find", "mark", "settle"}),
           row.status = "stale" /\ OneRequest /\ OneExtension /\ music[k[2]].live /\ k[1] = "audio" =>
             k # CurrentKey(k[2])
    PROVE  ContentInv'
<1> USE DEF Busy, Job, Track, Content
<1>0. TypeOK /\ IdleWorker.pc = "idle"
  BY DEF ContentInv, IdleWorker
<1>1. /\ jobs' \in [Keys -> Row] /\ jobs'[k] = row /\ \A j \in Keys \ {k} : jobs'[j] = jobs[j]
      /\ \A j \in Keys : jobs'[j].cancel = jobs[j].cancel
  BY <1>0 DEF TypeOK, Row
<1>2. /\ worker' \in [Workers -> WorkerStates] /\ worker'[w] = new
      /\ \A v \in Workers \ {w} : worker'[v] = worker[v]
  BY <1>0 DEF TypeOK
<1>3. TypeOK'
  BY <1>0, <1>1, <1>2 DEF TypeOK, Row
<1>4. /\ \A v \in Busy : worker[v].key \in Keys /\ worker[v].key[2] \in Musics
      /\ \A v \in Busy' : worker'[v].key \in Keys /\ worker'[v].key[2] \in Musics
  BY <1>2, <1>0, Shapes, KeyShape DEF Working
<1>5. \A v \in Busy' \ {w} : v \in Busy /\ worker'[v] = worker[v]
  BY <1>2
<1>6. WorkersSound'
  BY <1>0, <1>2, <1>5 DEF ContentInv, WorkersSound
<1>7. HoldersRun'
  BY <1>0, <1>1, <1>2, <1>4, <1>5 DEF ContentInv, HoldersRun
<1>8. SucceededHasArtifact'
  BY <1>0, <1>1 DEF ContentInv, SucceededHasArtifact
<1>9. Serial => EvidenceIsCurrent'
  BY DEF ContentInv, EvidenceIsCurrent
<1>10. \A m, pcs : Owed(m, pcs)' <=> Owed(m, pcs)
  BY DEF Owed, Marking
<1>11. ASSUME OneRequest
       PROVE  RequestsCurrent' /\ OldContentMarked'
  <2>1. RequestsCurrent'
    BY <1>11 DEF ContentInv, RequestsCurrent
  <2>2. ASSUME NEW v \in Busy', worker'[v].key[1] = "audio", worker'[v].holds,
               music[worker'[v].key[2]].live, worker'[v].key[3] # music[worker'[v].key[2]].hash, Past(v)'
        PROVE  jobs'[worker'[v].key].cancel \/ Owed(worker'[v].key[2], {"find", "mark"})
    <3>1. v # w
      BY <1>0, <1>2, <2>2 DEF Past
    <3>2. v \in Busy /\ worker'[v] = worker[v] /\ Past(v)
      BY <1>5, <2>2, <3>1 DEF Past
    <3>3. jobs'[worker'[v].key].cancel = jobs[worker[v].key].cancel
      BY <1>1, <1>4, <3>2
    <3>4. QED
      BY <1>11, <2>2, <3>2, <3>3 DEF ContentInv, OldContentMarked
  <2>3. ASSUME NEW m \in Musics, music[m].live, NEW j \in AudioKeys(m), j[3] # music[m].hash,
               jobs'[j].status = "succeeded"
        PROVE  Owed(m, {"find", "mark", "settle"})
    BY <1>1, <1>11, <2>3 DEF ContentInv, OldContentMarked, AudioKeys
  <2>4. OldContentMarked'
    BY <1>10, <2>2, <2>3 DEF OldContentMarked, AudioKeys
  <2>5. QED
    BY <2>1, <2>4
<1>12. ASSUME OneRequest, OneExtension
       PROVE  KeysReached' /\ CurrentScheduled'
  <2>1. KeysReached
    BY <1>12 DEF ContentInv
  <2>2. k[1] = "audio" => Reached(k)
    BY <2>1 DEF KeysReached
  <2>3. \A j : Reached(j)' <=> Reached(j)
    BY DEF Reached
  <2>4. \A m : CurrentKey(m)' = CurrentKey(m)
    BY DEF CurrentKey
  <2>5. \A j \in Keys : j[1] = "audio" /\ jobs'[j].status # "absent" => Reached(j)
    BY <1>1, <2>1, <2>2 DEF KeysReached
  <2>6. ASSUME NEW v \in Busy', worker'[v].key[1] = "audio"
        PROVE  /\ Reached(worker'[v].key)
               /\ worker'[v].result = "stale" /\ music[worker'[v].key[2]].live =>
                    worker'[v].key # CurrentKey(worker'[v].key[2])
    <3>1. CASE v = w
      BY <1>0, <1>2, <2>1, <2>2, <2>6, <3>1 DEF KeysReached
    <3>2. CASE v # w
      BY <1>5, <2>1, <2>6, <3>2 DEF KeysReached
    <3>3. QED
      BY <3>1, <3>2
  <2>7. KeysReached'
    BY <2>1, <2>3, <2>4, <2>5, <2>6 DEF KeysReached
  <2>8. ASSUME NEW m \in Musics, music[m].live, music[m].hash # NoHash
        PROVE  CurrentKey(m) \in Keys
    BY <1>0, <2>1, <2>8, CurrentKeyShape
  <2>9. ASSUME NEW m \in Musics, music[m].live, music[m].hash # NoHash, CurrentKey(m) = k
        PROVE  row.status \notin {"absent", "stale"}
    <3>1. k[1] = "audio" /\ k[2] = m
      BY <2>9, AudioKeyParts DEF CurrentKey
    <3>2. QED
      BY <1>12, <2>9, <3>1
  <2>10. CurrentScheduled'
    <3>1. CurrentScheduled
      BY <1>12 DEF ContentInv
    <3>2. QED
      BY <1>1, <1>10, <2>4, <2>8, <2>9, <3>1 DEF CurrentScheduled
  <2>11. QED
    BY <2>7, <2>10
<1>13. QED
  BY <1>3, <1>6, <1>7, <1>8, <1>9, <1>11, <1>12 DEF ContentInv

LEMMA ClaimKeeps ==
    ASSUME ContentInv, NEW w \in Workers, NEW k \in Keys, Claim(w, k)
    PROVE  ContentInv'
<1>1. TypeOK /\ jobs[k] \in Row
  BY DEF ContentInv, TypeOK, Row
<1> DEFINE new == [pc |-> "start", key |-> k, holds |-> TRUE, artifact |-> 0, result |-> "none"]
           row == [jobs[k] EXCEPT !.status = "running"]
<1>2. /\ jobs' = [jobs EXCEPT ![k] = row] /\ worker' = [worker EXCEPT ![w] = new]
      /\ jobs[k].status = "pending"
      /\ UNCHANGED <<music, artifact, class, request, uploads, edits, lastId, lost>>
  BY DEF Claim
<1>3. row \in Row /\ row.status = "running" /\ row.cancel = jobs[k].cancel
  BY <1>1 DEF Row
<1>4. /\ new \in WorkerStates /\ new.key = k /\ new.pc = "start" /\ new.result = "none"
  BY DEF WorkerStates
<1>5. music[k[2]].live => \A v \in Busy \ {w} : ~(worker[v].holds /\ Job(v) = k)
  BY <1>2 DEF ContentInv, HoldersRun, Track
<1> HIDE DEF new, row
<1>6. QED
  BY <1>2, <1>3, <1>4, <1>5, JobKeeps

LEMMA RecoverKeeps ==
    ASSUME ContentInv, NEW w \in Workers, Recover(w)
    PROVE  ContentInv'
<1> DEFINE k == Job(w)
           new == [worker[w] EXCEPT !.holds = FALSE]
           Given(status1) == [jobs[k] EXCEPT !.status = status1]
<1>0. PICK status1 \in {"cancelled", "pending", "failed"} : jobs' = [jobs EXCEPT ![k] = Given(status1)]
  BY DEF Recover
<1> DEFINE row == Given(status1)
<1>1. /\ worker[w].pc # "idle" /\ worker[w].holds /\ jobs[k].status = "running"
      /\ jobs' = [jobs EXCEPT ![k] = row] /\ worker' = [worker EXCEPT ![w] = new]
      /\ UNCHANGED <<music, artifact, class, request, uploads, edits, lastId, lost>>
  BY <1>0 DEF Recover
<1>2. TypeOK /\ w \in Busy /\ worker[w] \in Working /\ k \in Keys
  BY <1>1, AtJob
<1>3. jobs[k] \in Row
  BY <1>2 DEF TypeOK, Row
<1>4. row \in Row /\ row.status \in {"cancelled", "pending", "failed"} /\ row.cancel = jobs[k].cancel
  BY <1>3 DEF Row
<1>5. /\ new \in WorkerStates /\ new.key = k /\ ~new.holds /\ new.pc = worker[w].pc
      /\ new.result = worker[w].result /\ new.artifact = worker[w].artifact
  BY <1>2 DEF WorkerStates, Working, Job
<1>6. music[k[2]].live => \A v \in Busy \ {w} : ~(worker[v].holds /\ Job(v) = k)
  BY <1>1, <1>2 DEF ContentInv, HoldersRun, Track
<1> HIDE DEF new, row
<1>7. QED
  BY <1>1, <1>2, <1>4, <1>5, <1>6, JobKeeps

\* A result that is refused, or of a job that was taken back.
LEMMA UnsavedKeeps ==
    ASSUME ContentInv, NEW w \in Workers, worker[w].pc # "idle",
           NEW new \in {IdleWorker, [worker[w] EXCEPT !.pc = "lost"]},
           worker' = [worker EXCEPT ![w] = new],
           UNCHANGED <<music, artifact, jobs, class, request, uploads, edits, lastId, lost>>
    PROVE  ContentInv'
<1>1. /\ TypeOK /\ w \in Busy /\ worker[w] \in Working /\ worker \in [Workers -> WorkerStates]
      /\ worker[w].result \in {"none", "succeeded", "failed", "stale", "retry"} /\ worker[w].artifact \in Nat
  BY AtJob
<1>2. CASE new = IdleWorker
  <2>1. /\ worker' \in [Workers -> WorkerStates] /\ worker'[w] = IdleWorker
        /\ \A v \in Workers \ {w} : worker'[v] = worker[v]
    BY <1>1, <1>2 DEF WorkerStates
  <2>2. TypeOK'
    BY <1>1, <2>1 DEF TypeOK
  <2>3. IdleWorker.pc = "idle"
    BY DEF IdleWorker
  <2>4. WorkersSound' /\ SucceededHasArtifact'
    BY <2>1, <2>3 DEF ContentInv, WorkersSound, SucceededHasArtifact, Busy, Job
  <2>5. GoesOn(w)
    BY <1>1, <2>1 DEF GoesOn
  <2>6. QED
    BY <2>2, <2>4, <2>5, GoesOnKeeps, SameEvidence
<1>3. CASE new = [worker[w] EXCEPT !.pc = "lost"]
  <2>1. worker' = [worker EXCEPT ![w] =
                     [worker[w] EXCEPT !.pc = "lost", !.result = worker[w].result, !.artifact = worker[w].artifact]]
    BY <1>1, <1>3 DEF Working
  <2>2. Fit(w, "lost", worker[w].result, worker[w].artifact)
    BY <1>1 DEF Fit, ContentInv, WorkersSound
  <2>3. /\ lastId' \in Nat /\ artifact' \in [Hashes -> Nat] /\ SucceededHasArtifact'
    BY <1>1 DEF ContentInv, TypeOK, SucceededHasArtifact
  <2>4. worker[w].result = "succeeded" => Past(w)
    BY DEF Past
  <2>5. QED
    BY <1>1, <2>1, <2>2, <2>3, <2>4, SameEvidence, WorkerGoes
<1>4. QED
  BY <1>2, <1>3

\* Complete
LEMMA FinishKeeps ==
    ASSUME ContentInv, NEW w \in Workers, Finish(w)
    PROVE  ContentInv'
<1> DEFINE k == Job(w)
           number == IF k[1] = "audio" THEN worker[w].artifact ELSE 0
           outcome == CASE jobs[k].cancel -> IF music[k[2]].hash # k[3] THEN "stale" ELSE "cancelled"
                        [] worker[w].result = "retry" -> "pending"
                        [] OTHER -> worker[w].result
           row == [status |-> outcome, artifact |-> number, cancel |-> jobs[k].cancel]
<1>1. /\ worker[w].pc = "finish" /\ worker[w].pc # "idle"
      /\ UNCHANGED <<music, artifact, class, request, uploads, edits, lastId, lost>>
  BY DEF Finish
<1>2. TypeOK /\ w \in Busy /\ worker[w] \in Working /\ k \in Keys /\ worker[w].artifact \in Nat
  BY <1>1, AtJob
<1>3. jobs[k] \in Row
  BY <1>2 DEF TypeOK, Row
<1>4. CASE worker[w].holds /\ jobs[k].status = "running" /\ (number = 0 \/ artifact[k[3]] = number)
  <2>1. worker[w].result \in {"succeeded", "failed", "stale", "retry"}
    BY <1>1, <1>2 DEF ContentInv, WorkersSound, Working
  <2>2. /\ outcome \in {"stale", "cancelled", "pending", "succeeded", "failed"}
        /\ outcome = "succeeded" => worker[w].result = "succeeded" /\ ~jobs[k].cancel
        /\ outcome = "stale" => IF jobs[k].cancel THEN music[k[2]].hash # k[3]
                                ELSE worker[w].result = "stale"
    BY <1>3, <2>1 DEF Row
  <2>3. /\ row \in Row /\ row.status = outcome /\ row.artifact = number /\ row.cancel = jobs[k].cancel
    <3>1. number \in Nat /\ jobs[k].cancel \in BOOLEAN
      BY <1>2, <1>3 DEF Row
    <3> HIDE DEF outcome, number
    <3>2. QED
      BY <2>2, <3>1 DEF Row
  <2>4. jobs' = [jobs EXCEPT ![k] = row]
    BY <1>4 DEF Finish
  <2>5. worker' = [worker EXCEPT ![w] = IdleWorker]
    <3>1. jobs'[k] = row
      BY <1>2, <2>4 DEF TypeOK
    <3>2. jobs' # jobs
      BY <1>4, <2>2, <2>3, <3>1
    <3>3. QED
      BY <3>2 DEF Finish
  <2>6. music[k[2]].live => \A v \in Busy \ {w} : ~(worker[v].holds /\ Job(v) = k)
    BY <1>2, <1>4 DEF ContentInv, HoldersRun, Track
  <2>7. k[1] = "audio" /\ row.status = "succeeded" =>
          /\ row.artifact # 0 /\ artifact[k[3]] = row.artifact
          /\ OneRequest /\ music[k[2]].live /\ k[3] # music[k[2]].hash =>
               Owed(k[2], {"find", "mark", "settle"})
    <3>1. ASSUME k[1] = "audio", row.status = "succeeded"
          PROVE  /\ number # 0 /\ artifact[k[3]] = number
                 /\ worker[w].result = "succeeded" /\ ~jobs[k].cancel
      BY <1>2, <1>4, <2>2, <2>3, <3>1 DEF ContentInv, WorkersSound
    <3>2. ASSUME k[1] = "audio", row.status = "succeeded", OneRequest, music[k[2]].live,
                 k[3] # music[k[2]].hash
          PROVE  Owed(k[2], {"find", "mark", "settle"})
      <4>1. Past(w) /\ ~jobs[k].cancel
        BY <3>1, <3>2 DEF Past
      <4>2. Owed(k[2], {"find", "mark"})
        BY <1>2, <1>4, <3>2, <4>1 DEF ContentInv, OldContentMarked
      <4>3. QED
        BY <4>2 DEF Owed, Marking
    <3>3. QED
      BY <2>3, <3>1, <3>2
  <2>8. row.status = "stale" /\ OneRequest /\ OneExtension /\ music[k[2]].live /\ k[1] = "audio" =>
          k # CurrentKey(k[2])
    <3>1. CASE jobs[k].cancel
      BY <2>2, <2>3, <3>1, AudioKeyParts DEF CurrentKey
    <3>2. CASE ~jobs[k].cancel
      BY <1>2, <2>2, <2>3, <3>2 DEF ContentInv, KeysReached, Track
    <3>3. QED
      BY <3>1, <3>2
  <2>9. IdleWorker \in WorkerStates /\ row.status # "absent"
    BY <2>2, <2>3 DEF WorkerStates
  <2> HIDE DEF row, number, outcome
  <2>10. QED
    BY <1>1, <1>2, <1>4, <2>3, <2>4, <2>5, <2>6, <2>7, <2>8, <2>9, JobKeeps
<1>5. CASE ~(worker[w].holds /\ jobs[k].status = "running" /\ (number = 0 \/ artifact[k[3]] = number))
  <2>1. jobs' = jobs
    BY <1>5 DEF Finish
  <2>2. PICK new \in {IdleWorker, [worker[w] EXCEPT !.pc = "lost"]} : worker' = [worker EXCEPT ![w] = new]
    BY DEF Finish
  <2>3. QED
    BY <1>1, <2>1, <2>2, UnsavedKeeps
<1>6. QED
  BY <1>4, <1>5

-----------------------------------------------------------------------------
(* Steps of a request.                                                     *)

\* What is owed to a track when the request r is alone, and L are the lost ones.
OwedBy(r, L, m, pcs) ==
    \/ r.pc \in pcs /\ r.kind = "content" /\ r.music = m
    \/ m \in L /\ ~(r.pc \in {"settle", "audio"} \ pcs /\ r.kind # "backfill" /\ r.music = m)

LEMMA AloneOwes ==
    ASSUME OneRequest, TypeOK, NEW q \in Requests, NEW new, request' = [request EXCEPT ![q] = new]
    PROVE  /\ request'[q] = new /\ \A p \in Requests : p = q
           /\ \A m, pcs : /\ Owed(m, pcs) <=> OwedBy(request[q], lost, m, pcs)
                          /\ Owed(m, pcs)' <=> OwedBy(new, lost', m, pcs)
<1>1. request'[q] = new /\ \A p \in Requests : p = q
  BY DEF OneRequest, TypeOK
<1>2. QED
  BY <1>1 DEF Owed, OwedBy, Marking

\* A request that changes no job that runs and makes none succeed.
LEMMA ServedKeeps ==
    ASSUME ContentInv, NEW q \in Requests, NEW new \in RequestStates,
           request' = [request EXCEPT ![q] = new],
           UNCHANGED <<music, artifact, class, worker, uploads, edits, lastId>>,
           jobs' \in [Keys -> Row], lost' \subseteq Musics,
           \A k \in Keys : jobs[k].status = "running" => jobs'[k].status = "running",
           \A k \in Keys : jobs'[k].status = "succeeded" => jobs'[k] = jobs[k],
           OneRequest => RequestsCurrent' /\ OldContentMarked',
           OneRequest /\ OneExtension => KeysReached' /\ CurrentScheduled'
    PROVE  ContentInv'
<1> USE DEF Busy, Job, Track
<1>1. TypeOK'
  BY DEF ContentInv, TypeOK, Row
<1>2. \A v \in Busy : worker[v].key \in Keys
  BY Shapes DEF ContentInv, Working
<1>3. WorkersSound' /\ HoldersRun'
  BY <1>2 DEF ContentInv, WorkersSound, HoldersRun
<1>4. SucceededHasArtifact' /\ (Serial => EvidenceIsCurrent')
  BY DEF ContentInv, SucceededHasArtifact, EvidenceIsCurrent
<1>5. QED
  BY <1>1, <1>3, <1>4 DEF ContentInv

\* A request whose step leaves the jobs of contents as they are, or flags them.
LEMMA PassesKeeps ==
    ASSUME ContentInv, NEW q \in Requests, NEW new \in RequestStates,
           request' = [request EXCEPT ![q] = new],
           UNCHANGED <<music, artifact, class, worker, uploads, edits, lastId>>,
           jobs' \in [Keys -> Row], lost' \subseteq Musics,
           \A k \in Keys : jobs[k].status = "running" => jobs'[k].status = "running",
           \A k \in Keys : jobs'[k].status = "succeeded" => jobs'[k] = jobs[k],
           \A k \in Keys : k[1] = "audio" => /\ jobs'[k].status = jobs[k].status
                                             /\ jobs[k].cancel => jobs'[k].cancel,
           OneRequest => RequestsCurrent',
           OneRequest => \A m \in Musics : music[m].live =>
             /\ Owed(m, {"find", "mark"}) =>
                  \/ Owed(m, {"find", "mark"})'
                  \/ \A k \in AudioKeys(m) : k[3] # music[m].hash /\ jobs[k].status = "running" => jobs'[k].cancel
             /\ Owed(m, {"find", "mark", "settle"}) => Owed(m, {"find", "mark", "settle"})'
             /\ Owed(m, {"find", "mark", "settle", "audio"}) =>
                  Owed(m, {"find", "mark", "settle", "audio"})'
    PROVE  ContentInv'
<1> USE DEF Busy, Job, Track, Content
<1>1. TypeOK /\ \A v \in Busy : worker[v].key \in Keys /\ worker[v].key[2] \in Musics
  BY Shapes, KeyShape DEF ContentInv, Working
<1>2. ASSUME OneRequest
      PROVE  OldContentMarked'
  <2>1. ASSUME NEW v \in Busy, worker[v].key[1] = "audio", worker[v].holds,
               music[worker[v].key[2]].live, worker[v].key[3] # music[worker[v].key[2]].hash, Past(v)
        PROVE  jobs'[worker[v].key].cancel \/ Owed(worker[v].key[2], {"find", "mark"})'
    <3>1. jobs[worker[v].key].cancel \/ Owed(worker[v].key[2], {"find", "mark"})
      BY <1>2, <2>1 DEF ContentInv, OldContentMarked
    <3>2. jobs[worker[v].key].status = "running"
      BY <2>1 DEF ContentInv, HoldersRun
    <3>3. worker[v].key \in AudioKeys(worker[v].key[2])
      BY <1>1, <2>1 DEF AudioKeys
    <3>4. QED
      BY <1>1, <1>2, <2>1, <3>1, <3>2, <3>3
  <2>2. ASSUME NEW m \in Musics, music[m].live, NEW k \in AudioKeys(m), k[3] # music[m].hash,
               jobs'[k].status = "succeeded"
        PROVE  Owed(m, {"find", "mark", "settle"})'
    <3>1. jobs[k].status = "succeeded"
      BY <2>2 DEF AudioKeys
    <3>2. Owed(m, {"find", "mark", "settle"})
      BY <1>2, <2>2, <3>1 DEF ContentInv, OldContentMarked
    <3>3. QED
      BY <1>2, <2>2, <3>2
  <2>3. QED
    BY <2>1, <2>2 DEF OldContentMarked, Past, AudioKeys
<1>3. ASSUME OneRequest, OneExtension
      PROVE  KeysReached' /\ CurrentScheduled'
  <2>1. KeysReached /\ CurrentScheduled
    BY <1>3 DEF ContentInv
  <2>2. KeysReached'
    BY <2>1 DEF KeysReached, Reached, CurrentKey
  <2>3. ASSUME NEW m \in Musics, music[m].live, music[m].hash # NoHash
        PROVE  CurrentKey(m) \in Keys /\ CurrentKey(m)[1] = "audio"
    BY <1>1, <2>1, <2>3, CurrentKeyShape
  <2>4. \A m : CurrentKey(m)' = CurrentKey(m)
    BY DEF CurrentKey
  <2>5. CurrentScheduled'
    BY <1>3, <2>1, <2>3, <2>4 DEF CurrentScheduled
  <2>6. QED
    BY <2>2, <2>5
<1>4. QED
  BY <1>2, <1>3, ServedKeeps

LEMMA AdministerKeeps ==
    ASSUME ContentInv, NEW q \in Requests, NEW m \in Musics, NEW kind \in {"admin", "backfill"},
           NEW force \in BOOLEAN, Administer(q, m, kind, force)
    PROVE  ContentInv'
<1> DEFINE new == [pc |-> "find", kind |-> kind, music |-> m, force |-> force]
<1>1. /\ TypeOK /\ jobs' = jobs /\ request[q].pc = "idle" /\ request' = [request EXCEPT ![q] = new]
      /\ UNCHANGED <<music, artifact, class, worker, uploads, edits, lastId, lost>>
  BY DEF Administer, ContentInv
<1>2. new \in RequestStates /\ new.pc = "find" /\ new.kind # "content"
  BY DEF RequestStates, Kinds
<1> HIDE DEF new
<1>3. jobs' \in [Keys -> Row]
  BY <1>1 DEF TypeOK, Row
<1>4. ASSUME OneRequest
      PROVE  /\ RequestsCurrent'
             /\ \A n : /\ Owed(n, {"find", "mark"}) => Owed(n, {"find", "mark"})'
                       /\ Owed(n, {"find", "mark", "settle"}) => Owed(n, {"find", "mark", "settle"})'
                       /\ Owed(n, {"find", "mark", "settle", "audio"}) =>
                            Owed(n, {"find", "mark", "settle", "audio"})'
  <2>1. /\ request'[q] = new /\ \A p \in Requests : p = q
        /\ \A n, pcs : /\ Owed(n, pcs) <=> OwedBy(request[q], lost, n, pcs)
                       /\ Owed(n, pcs)' <=> OwedBy(new, lost', n, pcs)
    BY <1>1, <1>4, AloneOwes
  <2>2. QED
    BY <1>1, <1>2, <2>1 DEF RequestsCurrent, OwedBy
<1>5. lost' \subseteq Musics
  BY <1>1 DEF TypeOK
<1>6. QED
  BY <1>1, <1>2, <1>3, <1>4, <1>5, PassesKeeps

\* The candidate is current when it is copied.
LEMMA FindKeeps ==
    ASSUME ContentInv, NEW q \in Requests, Find(q)
    PROVE  ContentInv'
<1> DEFINE r == request[q]
           serving == [pc |-> IF r.kind = "content" THEN "mark" ELSE "rules", kind |-> r.kind, music |-> r.music,
                       force |-> r.force, hash |-> music[r.music].hash, content |-> music[r.music].content,
                       revision |-> music[r.music].revision]
           new == IF ~music[r.music].live THEN IdleRequest ELSE serving
<1>1. /\ TypeOK /\ jobs' = jobs /\ r.pc = "find" /\ r \in Finding /\ request' = [request EXCEPT ![q] = new]
      /\ UNCHANGED <<music, artifact, class, worker, uploads, edits, lastId, lost>>
  BY Shapes DEF Find, ContentInv, Serving
<1>2. /\ IdleRequest \in RequestStates /\ IdleRequest.pc = "idle"
  BY DEF RequestStates, IdleRequest
<1>3. /\ serving \in RequestStates /\ serving.kind = r.kind /\ serving.music = r.music
      /\ serving.hash = music[r.music].hash /\ serving.content = music[r.music].content
      /\ serving.pc = (IF r.kind = "content" THEN "mark" ELSE "rules")
  <2>1. music[r.music] \in TrackRow
    BY <1>1 DEF TypeOK, TrackRow, Finding
  <2>2. serving \in Serving
    BY <1>1, <2>1 DEF Serving, TrackRow, Finding
  <2>3. QED
    BY <2>2 DEF RequestStates, Serving
<1>4. jobs' \in [Keys -> Row]
  BY <1>1 DEF TypeOK, Row
<1> HIDE DEF serving
<1>5. ASSUME OneRequest
      PROVE  /\ RequestsCurrent'
             /\ \A m \in Musics : music[m].live =>
                  /\ Owed(m, {"find", "mark"}) => Owed(m, {"find", "mark"})'
                  /\ Owed(m, {"find", "mark", "settle"}) => Owed(m, {"find", "mark", "settle"})'
                  /\ Owed(m, {"find", "mark", "settle", "audio"}) =>
                       Owed(m, {"find", "mark", "settle", "audio"})'
  <2>1. /\ request'[q] = new /\ \A p \in Requests : p = q
        /\ \A n, pcs : /\ Owed(n, pcs) <=> OwedBy(r, lost, n, pcs)
                       /\ Owed(n, pcs)' <=> OwedBy(new, lost', n, pcs)
    BY ZenonT(40), <1>1, <1>5, AloneOwes
  <2>2. RequestsCurrent'
    BY <1>1, <1>2, <1>3, <2>1 DEF RequestsCurrent
  <2>3. ASSUME NEW m \in Musics, music[m].live,
               NEW pcs \in {{"find", "mark"}, {"find", "mark", "settle"}, {"find", "mark", "settle", "audio"}},
               OwedBy(r, lost, m, pcs)
        PROVE  OwedBy(new, lost', m, pcs)
    BY <1>1, <1>2, <1>3, <2>3 DEF OwedBy
  <2>4. QED
    BY <2>1, <2>2, <2>3
<1>6. new \in RequestStates /\ lost' \subseteq Musics
  BY <1>1, <1>2, <1>3 DEF TypeOK
<1> HIDE DEF new
<1>7. QED
  BY <1>1, <1>4, <1>5, <1>6, PassesKeeps

\* Enqueue changes one job that is not active, and makes it wait.
LEMMA EnqueuedJobs ==
    ASSUME TypeOK, NEW m, NEW key, NEW force, jobs' = Enqueued(m, key, force)
    PROVE  /\ jobs' \in [Keys -> Row]
           /\ \A k \in Keys : \/ jobs'[k] = jobs[k]
                              \/ /\ k = key /\ music[m].live
                                 /\ jobs[k].status \notin {"pending", "running"}
                                 /\ jobs'[k].status = "pending"
           /\ key \in Keys /\ music[m].live => jobs'[key].status # "absent"
           /\ key \in Keys /\ music[m].live /\ jobs[key].status # "stale" => jobs'[key].status # "stale"
<1> DEFINE waiting == [NoJob EXCEPT !.status = "pending"]
<1>1. waiting \in Row /\ waiting.status = "pending"
  BY DEF NoJob, Row
<1>2. jobs \in [Keys -> Row]
  BY DEF TypeOK, Row
<1> HIDE DEF waiting
<1>3. CASE jobs' = jobs /\ (music[m].live => jobs[key].status # "absent")
  BY <1>2, <1>3
<1>4. CASE /\ jobs' = [jobs EXCEPT ![key] = waiting] /\ music[m].live
           /\ jobs[key].status \notin {"pending", "running"}
  BY <1>1, <1>2, <1>4
<1>5. \/ jobs' = jobs /\ (music[m].live => jobs[key].status # "absent")
      \/ /\ jobs' = [jobs EXCEPT ![key] = waiting] /\ music[m].live
         /\ jobs[key].status \notin {"pending", "running"}
  BY DEF Enqueued, waiting
<1>6. QED
  BY <1>3, <1>4, <1>5

LEMMA EnqueueMetadataKeeps ==
    ASSUME ContentInv, NEW q \in Requests, EnqueueMetadata(q)
    PROVE  ContentInv'
<1> DEFINE r == request[q]
           key == RulesKey(r.music, r.revision)
<1>1. /\ TypeOK /\ r.pc = "rules" /\ r \in Serving /\ jobs' = Enqueued(r.music, key, r.force)
      /\ UNCHANGED <<music, artifact, class, worker, uploads, edits, lastId, lost>>
  BY Shapes DEF EnqueueMetadata, ContentInv, Finding
<1>2. PICK new : /\ request' = [request EXCEPT ![q] = new]
                 /\ \/ new = IdleRequest \/ new = [r EXCEPT !.pc = "mark"]
                    \/ new = [r EXCEPT !.pc = "audio"] /\ r.kind = "backfill"
  BY DEF EnqueueMetadata
<1>3. /\ new \in RequestStates /\ new.pc \in {"idle", "audio", "mark"}
      /\ new.pc # "idle" => /\ new.kind = r.kind /\ new.music = r.music
                            /\ new.hash = r.hash /\ new.content = r.content
      /\ new.pc = "audio" => new.kind = "backfill"
  BY <1>1, <1>2 DEF RequestStates, IdleRequest, Serving
<1>4. key[1] = "rules"
  BY DEF RulesKey
<1>5. /\ jobs' \in [Keys -> Row]
      /\ \A k \in Keys : \/ jobs'[k] = jobs[k]
                         \/ /\ k[1] = "rules" /\ jobs[k].status # "running" /\ jobs'[k].status = "pending"
  BY <1>1, <1>4, EnqueuedJobs
<1>6. ASSUME OneRequest
      PROVE  /\ RequestsCurrent'
             /\ \A n : /\ Owed(n, {"find", "mark"}) => Owed(n, {"find", "mark"})'
                       /\ Owed(n, {"find", "mark", "settle"}) => Owed(n, {"find", "mark", "settle"})'
                       /\ Owed(n, {"find", "mark", "settle", "audio"}) =>
                            Owed(n, {"find", "mark", "settle", "audio"})'
  <2>1. /\ request'[q] = new /\ \A p \in Requests : p = q
        /\ \A n, pcs : /\ Owed(n, pcs) <=> OwedBy(r, lost, n, pcs)
                       /\ Owed(n, pcs)' <=> OwedBy(new, lost', n, pcs)
    BY <1>1, <1>2, <1>6, AloneOwes
  <2>2. RequestsCurrent
    BY <1>6 DEF ContentInv
  <2>3. RequestsCurrent'
    BY <1>1, <1>3, <2>1, <2>2 DEF RequestsCurrent
  <2>4. \A n, pcs : "audio" \notin pcs \/ "settle" \in pcs =>
                    (OwedBy(r, lost, n, pcs) => OwedBy(new, lost', n, pcs))
    BY <1>1, <1>3, <2>2 DEF RequestsCurrent, OwedBy
  <2>5. QED
    BY <2>1, <2>3, <2>4
<1>7. lost' \subseteq Musics
  BY <1>1 DEF TypeOK
<1>8. QED
  BY <1>1, <1>2, <1>3, <1>5, <1>6, <1>7, PassesKeeps

\* The flags of the running jobs of old contents.
LEMMA MarkRunningKeeps ==
    ASSUME ContentInv, NEW q \in Requests, MarkRunning(q)
    PROVE  ContentInv'
<1> DEFINE r == request[q]
           new == [r EXCEPT !.pc = "settle"]
           Old(k) == k \in AudioKeys(r.music) /\ k[3] # r.hash /\ jobs[k].status = "running"
<1>1. /\ TypeOK /\ r.pc = "mark" /\ r \in Serving
      /\ jobs' = [k \in Keys |-> IF Old(k) THEN [jobs[k] EXCEPT !.cancel = TRUE] ELSE jobs[k]]
      /\ UNCHANGED <<music, artifact, class, worker, uploads, edits, lastId, lost>>
  BY Shapes DEF MarkRunning, Superseded, ContentInv, Finding
<1>2. /\ new \in RequestStates /\ new.pc = "settle" /\ new.kind = r.kind /\ new.music = r.music
      /\ new.hash = r.hash /\ new.content = r.content
  BY <1>1 DEF RequestStates, Serving
<1>3. request' = [request EXCEPT ![q] = new]
  BY <1>1 DEF MarkRunning, TypeOK
<1>4. \A k \in Keys : /\ jobs'[k] \in Row /\ jobs'[k].status = jobs[k].status
                      /\ jobs[k].cancel => jobs'[k].cancel
                      /\ Old(k) => jobs'[k].cancel
                      /\ ~Old(k) => jobs'[k] = jobs[k]
  BY <1>1 DEF TypeOK, Row
<1>5. jobs' \in [Keys -> Row]
  BY <1>1, <1>4
<1> HIDE DEF new
<1>6. ASSUME OneRequest
      PROVE  /\ RequestsCurrent'
             /\ \A m \in Musics : music[m].live =>
                  /\ Owed(m, {"find", "mark"}) =>
                       \/ Owed(m, {"find", "mark"})'
                       \/ \A k \in AudioKeys(m) :
                            k[3] # music[m].hash /\ jobs[k].status = "running" => jobs'[k].cancel
                  /\ Owed(m, {"find", "mark", "settle"}) => Owed(m, {"find", "mark", "settle"})'
                  /\ Owed(m, {"find", "mark", "settle", "audio"}) =>
                       Owed(m, {"find", "mark", "settle", "audio"})'
  <2>1. /\ request'[q] = new /\ \A p \in Requests : p = q
        /\ \A n, pcs : /\ Owed(n, pcs) <=> OwedBy(r, lost, n, pcs)
                       /\ Owed(n, pcs)' <=> OwedBy(new, lost', n, pcs)
    BY <1>1, <1>3, <1>6, AloneOwes
  <2>2. RequestsCurrent
    BY <1>6 DEF ContentInv
  <2>3. RequestsCurrent'
    BY <1>1, <1>2, <2>1, <2>2 DEF RequestsCurrent
  <2>4. ASSUME NEW m \in Musics, music[m].live, r.music = m, NEW k \in AudioKeys(m),
               k[3] # music[m].hash, jobs[k].status = "running"
        PROVE  jobs'[k].cancel
    <3>1. r.hash = music[m].hash
      BY <1>1, <2>2, <2>4 DEF RequestsCurrent
    <3>2. Old(k) /\ k \in Keys
      BY <2>4, <3>1 DEF AudioKeys
    <3>3. QED
      BY <1>4, <3>2
  <2>5. \A m, pcs : r.music # m => (OwedBy(r, lost, m, pcs) => OwedBy(new, lost', m, pcs))
    BY <1>1, <1>2 DEF OwedBy
  <2>6. \A m, pcs : "settle" \in pcs => (OwedBy(r, lost, m, pcs) => OwedBy(new, lost', m, pcs))
    BY <1>1, <1>2 DEF OwedBy
  <2>7. QED
    BY <2>1, <2>3, <2>4, <2>5, <2>6
<1>7. \A k \in Keys : jobs'[k].status = "succeeded" => jobs'[k] = jobs[k]
  BY <1>4
<1> HIDE DEF Old
<1>8. lost' \subseteq Musics
  BY <1>1 DEF TypeOK
<1>9. QED
  BY <1>1, <1>2, <1>3, <1>4, <1>5, <1>6, <1>7, <1>8, PassesKeeps

\* Then the others are called stale.
LEMMA MarkOthersKeeps ==
    ASSUME ContentInv, NEW q \in Requests, MarkOthers(q)
    PROVE  ContentInv'
<1> DEFINE r == request[q]
           new == [r EXCEPT !.pc = "audio"]
           Old(k) == /\ k \in AudioKeys(r.music) /\ k[3] # r.hash
                     /\ jobs[k].status \in {"pending", "succeeded", "failed"}
<1>1. /\ TypeOK /\ r.pc = "settle" /\ r \in Serving
      /\ jobs' = [k \in Keys |-> IF Old(k) THEN [jobs[k] EXCEPT !.status = "stale"] ELSE jobs[k]]
      /\ UNCHANGED <<music, artifact, class, worker, uploads, edits, lastId, lost>>
  BY Shapes DEF MarkOthers, Superseded, ContentInv, Finding
<1>2. /\ new \in RequestStates /\ new.pc = "audio" /\ new.kind = r.kind /\ new.music = r.music
      /\ new.hash = r.hash /\ new.content = r.content
  BY <1>1 DEF RequestStates, Serving
<1>3. request' = [request EXCEPT ![q] = new]
  BY <1>1 DEF MarkOthers, TypeOK
<1>4. \A k \in Keys : /\ jobs'[k] \in Row /\ jobs'[k].cancel = jobs[k].cancel
                      /\ Old(k) => jobs'[k].status = "stale" /\ jobs[k].status \notin {"running", "absent"}
                      /\ ~Old(k) => jobs'[k] = jobs[k]
  BY <1>1 DEF TypeOK, Row
<1>5. jobs' \in [Keys -> Row]
  BY <1>1, <1>4
<1>6. /\ \A k \in Keys : jobs[k].status = "running" => jobs'[k].status = "running"
      /\ \A k \in Keys : jobs'[k].status = "succeeded" => jobs'[k] = jobs[k]
      /\ \A k \in Keys : jobs'[k].status # "absent" => jobs[k].status # "absent"
  BY <1>4
<1> HIDE DEF new
<1>7. ASSUME OneRequest
      PROVE  /\ request'[q] = new /\ \A p \in Requests : p = q
             /\ \A n, pcs : /\ Owed(n, pcs) <=> OwedBy(r, lost, n, pcs)
                            /\ Owed(n, pcs)' <=> OwedBy(new, lost', n, pcs)
             /\ music[r.music].live => r.hash = music[r.music].hash
  <2>1. /\ request'[q] = new /\ \A p \in Requests : p = q
        /\ \A n, pcs : /\ Owed(n, pcs) <=> OwedBy(r, lost, n, pcs)
                       /\ Owed(n, pcs)' <=> OwedBy(new, lost', n, pcs)
    BY <1>1, <1>3, <1>7, AloneOwes
  <2>2. QED
    BY <1>1, <1>7, <2>1 DEF ContentInv, RequestsCurrent
<1>8. ASSUME OneRequest
      PROVE  RequestsCurrent' /\ OldContentMarked'
  <2>1. RequestsCurrent /\ OldContentMarked
    BY <1>8 DEF ContentInv
  <2>2. RequestsCurrent'
    BY <1>1, <1>2, <1>7, <1>8, <2>1 DEF RequestsCurrent
  <2>3. ASSUME NEW m \in Musics, music[m].live, NEW k \in AudioKeys(m), k[3] # music[m].hash,
               jobs'[k].status = "succeeded"
        PROVE  Owed(m, {"find", "mark", "settle"})'
    <3>1. jobs[k].status = "succeeded" /\ ~Old(k) /\ k \in Keys
      BY <1>4, <2>3 DEF AudioKeys
    <3>2. r.music # m
      BY <1>7, <1>8, <2>3, <3>1
    <3>3. OwedBy(r, lost, m, {"find", "mark", "settle"})
      BY <1>7, <1>8, <2>1, <2>3, <3>1 DEF OldContentMarked
    <3>4. QED
      BY <1>1, <1>2, <1>7, <1>8, <3>2, <3>3 DEF OwedBy
  <2>4. ASSUME NEW v \in Busy, NEW n, n = Job(v)[2], Job(v) \in Keys, Job(v)[1] = "audio", worker[v].holds,
               music[n].live, Job(v)[3] # music[n].hash, Past(v)
        PROVE  jobs'[Job(v)].cancel \/ Owed(n, {"find", "mark"})'
    <3>1. jobs[Job(v)].cancel \/ Owed(n, {"find", "mark"})
      BY <1>8, <2>1, <2>4 DEF OldContentMarked
    <3>2. \A m : OwedBy(r, lost, m, {"find", "mark"}) => OwedBy(new, lost', m, {"find", "mark"})
      BY <1>1, <1>2 DEF OwedBy
    <3>3. QED
      BY <1>4, <1>7, <1>8, <2>4, <3>1, <3>2
  <2>5. \A v \in Busy : Job(v) \in Keys
    BY <1>1, Shapes DEF Busy, Job, Working
  <2>6. OldContentMarked'
    BY <1>1, <2>3, <2>4, <2>5 DEF OldContentMarked, Busy, Job, Past, AudioKeys
  <2>7. QED
    BY <2>2, <2>6
<1>9. ASSUME OneRequest, OneExtension
      PROVE  KeysReached' /\ CurrentScheduled'
  <2>1. KeysReached /\ CurrentScheduled
    BY <1>9 DEF ContentInv
  <2>2. KeysReached'
    BY <1>1, <1>6, <2>1 DEF KeysReached, Reached, CurrentKey, Busy, Job, Track
  <2>3. ASSUME NEW m \in Musics, music[m].live, music[m].hash # NoHash
        PROVE  /\ CurrentKey(m) \in Keys /\ jobs'[CurrentKey(m)] = jobs[CurrentKey(m)]
    <3>1. CurrentKey(m) \in Keys /\ CurrentKey(m)[2] = m /\ CurrentKey(m)[3] = music[m].hash
      BY <1>1, <2>1, <2>3, CurrentKeyShape
    <3>2. ~Old(CurrentKey(m))
      BY <1>7, <1>9, <2>3, <3>1 DEF AudioKeys
    <3>3. QED
      BY <1>4, <3>1, <3>2
  <2>4. \A m : CurrentKey(m)' = CurrentKey(m)
    BY <1>1 DEF CurrentKey
  <2>5. \A m : Owed(m, {"find", "mark", "settle", "audio"}) =>
                 Owed(m, {"find", "mark", "settle", "audio"})'
    <3>1. \A m, pcs : {"settle", "audio"} \subseteq pcs =>
                      (OwedBy(r, lost, m, pcs) => OwedBy(new, lost', m, pcs))
      BY <1>1, <1>2 DEF OwedBy
    <3>2. QED
      BY <1>7, <1>9, <3>1
  <2>6. CurrentScheduled'
    BY <1>1, <2>1, <2>3, <2>4, <2>5 DEF CurrentScheduled
  <2>7. QED
    BY <2>2, <2>6
<1> HIDE DEF Old
<1>10. lost' \subseteq Musics
  BY <1>1 DEF TypeOK
<1>11. QED
  BY <1>1, <1>2, <1>3, <1>5, <1>6, <1>8, <1>9, <1>10, ServedKeeps

\* Last, the job of the content is there.
LEMMA EnqueueAudioKeeps ==
    ASSUME ContentInv, NEW q \in Requests, EnqueueAudio(q)
    PROVE  ContentInv'
<1> DEFINE r == request[q]
           key == AudioKey(r.music, r.hash, r.content)
<1>1. /\ TypeOK /\ r.pc = "audio" /\ r \in Serving /\ request' = [request EXCEPT ![q] = IdleRequest]
      /\ jobs' = IF r.hash = NoHash THEN jobs ELSE Enqueued(r.music, key, r.force)
      /\ lost' = IF r.kind = "backfill" THEN lost ELSE lost \ {r.music}
      /\ UNCHANGED <<music, artifact, class, worker, uploads, edits, lastId>>
  BY Shapes DEF EnqueueAudio, ContentInv, Finding
<1>2. IdleRequest \in RequestStates /\ IdleRequest.pc = "idle"
  BY DEF RequestStates, IdleRequest
<1>3. /\ jobs' \in [Keys -> Row]
      /\ \A k \in Keys : \/ jobs'[k] = jobs[k]
                         \/ /\ k = key /\ music[r.music].live /\ r.hash # NoHash
                            /\ jobs[k].status \notin {"pending", "running"}
                            /\ jobs'[k].status = "pending"
      /\ key \in Keys /\ music[r.music].live /\ r.hash # NoHash => jobs'[key].status # "absent"
      /\ key \in Keys /\ music[r.music].live /\ jobs[key].status # "stale" => jobs'[key].status # "stale"
  <2>1. CASE r.hash = NoHash
    BY <1>1, <2>1 DEF TypeOK, Row
  <2>2. CASE r.hash # NoHash
    BY <1>1, <2>2, EnqueuedJobs
  <2>3. QED
    BY <2>1, <2>2
<1>4. /\ \A k \in Keys : jobs[k].status = "running" => jobs'[k].status = "running"
      /\ \A k \in Keys : jobs'[k].status = "succeeded" => jobs'[k] = jobs[k]
  BY <1>3
<1>5. ASSUME OneRequest
      PROVE  /\ request'[q] = IdleRequest /\ \A p \in Requests : p = q
             /\ \A n, pcs : /\ Owed(n, pcs) <=> OwedBy(r, lost, n, pcs)
                            /\ Owed(n, pcs)' <=> OwedBy(IdleRequest, lost', n, pcs)
             /\ music[r.music].live => r.hash = music[r.music].hash /\ r.content = music[r.music].content
  <2>1. /\ request'[q] = IdleRequest /\ \A p \in Requests : p = q
        /\ \A n, pcs : /\ Owed(n, pcs) <=> OwedBy(r, lost, n, pcs)
                       /\ Owed(n, pcs)' <=> OwedBy(IdleRequest, lost', n, pcs)
    BY <1>1, <1>5, AloneOwes
  <2>2. QED
    BY <1>1, <1>5, <2>1 DEF ContentInv, RequestsCurrent
<1>6. ASSUME OneRequest
      PROVE  RequestsCurrent' /\ OldContentMarked'
  <2>1. OldContentMarked
    BY <1>6 DEF ContentInv
  <2>2. RequestsCurrent'
    BY <1>2, <1>5, <1>6 DEF RequestsCurrent
  <2>3. \A v \in Busy : Job(v) \in Keys
    BY <1>1, Shapes DEF Busy, Job, Working
  <2>4. \A n, pcs : "audio" \notin pcs => (OwedBy(r, lost, n, pcs) => OwedBy(IdleRequest, lost', n, pcs))
    BY <1>1, <1>2 DEF OwedBy
  <2>5. ASSUME NEW v \in Busy, NEW n, n = Job(v)[2], Job(v)[1] = "audio", worker[v].holds,
               music[n].live, Job(v)[3] # music[n].hash, Past(v)
        PROVE  jobs'[Job(v)].cancel \/ Owed(n, {"find", "mark"})'
    <3>1. jobs[Job(v)].cancel \/ Owed(n, {"find", "mark"})
      BY <1>6, <2>1, <2>5 DEF OldContentMarked
    <3>2. jobs[Job(v)].status = "running"
      BY <2>5 DEF ContentInv, HoldersRun, Track
    <3>3. jobs'[Job(v)] = jobs[Job(v)]
      BY <1>3, <2>3, <3>2
    <3>4. Owed(n, {"find", "mark"}) => Owed(n, {"find", "mark"})'
      BY <1>5, <1>6, <2>4
    <3>5. QED
      BY <3>1, <3>3, <3>4
  <2>6. ASSUME NEW m \in Musics, music[m].live, NEW k \in AudioKeys(m), k[3] # music[m].hash,
               jobs'[k].status = "succeeded"
        PROVE  Owed(m, {"find", "mark", "settle"})'
    <3>1. jobs[k].status = "succeeded"
      BY <1>3, <2>6 DEF AudioKeys
    <3>2. Owed(m, {"find", "mark", "settle"})
      BY <1>6, <2>1, <2>6, <3>1 DEF OldContentMarked
    <3>3. QED
      BY <1>5, <1>6, <2>4, <3>2
  <2>7. OldContentMarked'
    BY <1>1, <2>3, <2>5, <2>6 DEF OldContentMarked, Busy, Job, Past, AudioKeys
  <2>8. QED
    BY <2>2, <2>7
<1>7. ASSUME OneRequest, OneExtension
      PROVE  KeysReached' /\ CurrentScheduled'
  <2>1. KeysReached /\ CurrentScheduled
    BY <1>7 DEF ContentInv
  <2>2. \A m : CurrentKey(m)' = CurrentKey(m)
    BY <1>1 DEF CurrentKey
  <2>3. r.music \in Musics
    BY <1>1 DEF Serving
  <2>4. music[r.music].live => key = CurrentKey(r.music) /\ Reached(key)
    <3>1. music[r.music].live => key = CurrentKey(r.music)
      BY <1>5, <1>7 DEF CurrentKey
    <3>2. music[r.music].content \in Nat
      BY <1>1, <2>3 DEF TypeOK
    <3>3. /\ CurrentKey(r.music)[2] = r.music /\ CurrentKey(r.music)[3] = music[r.music].hash
          /\ CurrentKey(r.music)[4] = music[r.music].content
      BY AudioKeyParts DEF CurrentKey
    <3>4. Reached(CurrentKey(r.music))
      BY <3>2, <3>3 DEF Reached
    <3>5. QED
      BY <3>1, <3>4
  <2>5. \A k : Reached(k)' <=> Reached(k)
    BY <1>1 DEF Reached
  <2>6. ASSUME NEW k \in Keys, k[1] = "audio", jobs'[k].status # "absent"
        PROVE  Reached(k)
    BY <1>3, <2>1, <2>4, <2>6 DEF KeysReached
  <2>7. KeysReached'
    BY <1>1, <2>1, <2>2, <2>5, <2>6 DEF KeysReached, Busy, Job, Track
  <2>8. ASSUME NEW m \in Musics, music[m].live, music[m].hash # NoHash
        PROVE  \/ jobs'[CurrentKey(m)].status \notin {"absent", "stale"}
               \/ /\ jobs'[CurrentKey(m)].status = "absent"
                  /\ Owed(m, {"find", "mark", "settle", "audio"})'
    <3>1. CurrentKey(m) \in Keys
      BY <1>1, <2>1, <2>8, CurrentKeyShape
    <3>2. CASE jobs[CurrentKey(m)].status \notin {"absent", "stale"}
      BY <1>3, <3>1, <3>2
    <3>3. CASE /\ jobs[CurrentKey(m)].status = "absent"
               /\ Owed(m, {"find", "mark", "settle", "audio"})
      <4>1. CASE r.music = m
        <5>1. r.hash # NoHash /\ key = CurrentKey(m)
          BY <1>5, <1>7, <2>4, <2>8, <4>1
        <5>2. QED
          BY <1>3, <2>8, <3>1, <3>3, <4>1, <5>1
      <4>2. CASE r.music # m
        <5>1. m \in lost /\ m \in lost'
          BY <1>1, <1>5, <1>7, <3>3, <4>2 DEF OwedBy
        <5>2. Owed(m, {"find", "mark", "settle", "audio"})'
          BY <1>2, <1>5, <1>7, <5>1 DEF OwedBy
        <5>3. jobs'[CurrentKey(m)].status \in {"absent", "pending"}
          BY <1>3, <3>1, <3>3
        <5>4. QED
          BY <5>2, <5>3
      <4>3. QED
        BY <4>1, <4>2
    <3>4. QED
      BY <2>1, <2>8, <3>2, <3>3 DEF CurrentScheduled
  <2>9. CurrentScheduled'
    BY <1>1, <2>2, <2>8 DEF CurrentScheduled
  <2>10. QED
    BY <2>7, <2>9
<1> HIDE DEF key
<1>8. lost' \subseteq Musics
  BY <1>1 DEF TypeOK
<1>9. QED
  BY <1>1, <1>2, <1>3, <1>4, <1>6, <1>7, <1>8, ServedKeeps

\* A request that stops leaves to a track what it owed to it.
LEMMA GiveUpKeeps ==
    ASSUME ContentInv, NEW q \in Requests, GiveUp(q)
    PROVE  ContentInv'
<1> DEFINE r == request[q]
<1>1. /\ TypeOK /\ jobs' = jobs /\ r.pc # "idle" /\ request' = [request EXCEPT ![q] = IdleRequest]
      /\ lost' = IF r.kind = "content" THEN lost \cup {r.music} ELSE lost
      /\ UNCHANGED <<music, artifact, class, worker, uploads, edits, lastId>>
  BY DEF GiveUp, ContentInv
<1>2. IdleRequest \in RequestStates /\ IdleRequest.pc = "idle"
  BY DEF RequestStates, IdleRequest
<1>3. r.music \in Musics
  BY <1>1, Shapes DEF Finding, Serving
<1>4. jobs' \in [Keys -> Row] /\ lost' \subseteq Musics
  BY <1>1, <1>3 DEF TypeOK, Row
<1>5. ASSUME OneRequest
      PROVE  /\ RequestsCurrent'
             /\ \A n, pcs : Owed(n, pcs) => Owed(n, pcs)'
  <2>1. /\ request'[q] = IdleRequest /\ \A p \in Requests : p = q
        /\ \A n, pcs : /\ Owed(n, pcs) <=> OwedBy(r, lost, n, pcs)
                       /\ Owed(n, pcs)' <=> OwedBy(IdleRequest, lost', n, pcs)
    BY <1>1, <1>5, AloneOwes
  <2>2. RequestsCurrent'
    BY <1>2, <2>1 DEF RequestsCurrent
  <2>3. \A n, pcs : OwedBy(r, lost, n, pcs) => OwedBy(IdleRequest, lost', n, pcs)
    BY <1>1, <1>2 DEF OwedBy
  <2>4. QED
    BY <2>1, <2>2, <2>3
<1>6. QED
  BY <1>1, <1>2, <1>4, <1>5, PassesKeeps

-----------------------------------------------------------------------------
(* Uploads, edits, deletions and manual choices.                           *)

\* A new content of the track; with the extension it had, a new key.
LEMMA UploadKeeps ==
    ASSUME ContentInv, NEW q \in Requests, NEW m \in Musics, NEW e \in Exts, NEW h \in Hashes,
           Upload(q, m, e, h)
    PROVE  ContentInv'
<1> USE DEF Busy, Job, Track, Content
<1> DEFINE next == NextRevision(m, e, h)
           row == [music[m] EXCEPT !.hash = h, !.ext = e, !.content = next]
           new == [pc |-> "find", kind |-> "content", music |-> m, force |-> FALSE]
<1>1. /\ TypeOK /\ request[q].pc = "idle" /\ music[m].live /\ uploads < MaxUploads
      /\ uploads' = uploads + 1 /\ request' = [request EXCEPT ![q] = new]
      /\ class' = [class EXCEPT ![m] = [class[m] EXCEPT !.hash = NoHash]]
      /\ lost' = lost \ {m}
      /\ UNCHANGED <<artifact, jobs, worker, edits, lastId>>
  BY DEF Upload, ContentInv, Projected
<1>2. music \in [Musics -> TrackRow] /\ music[m] \in TrackRow
  BY <1>1 DEF TypeOK, TrackRow
<1>3. next \in Nat /\ h \in Contents /\ uploads \in Nat /\ music[m].content \in Nat
  BY <1>1, <1>2 DEF NextRevision, TrackRow, Contents, TypeOK
<1>4. music' = [music EXCEPT ![m] = row]
  BY <1>2 DEF Upload, TrackRow
<1> HIDE DEF next
<1>5. row \in TrackRow /\ row.live /\ row.hash = h /\ row.content = next
  BY <1>1, <1>2, <1>3 DEF TrackRow
<1> HIDE DEF row
<1>6. /\ music' \in [Musics -> TrackRow] /\ music'[m] = row
      /\ \A n \in Musics \ {m} : music'[n] = music[n]
      /\ \A n \in Musics : music'[n].live = music[n].live
  BY <1>1, <1>2, <1>4, <1>5
<1>7. new \in RequestStates /\ new.pc = "find" /\ new.kind = "content" /\ new.music = m
  BY DEF RequestStates, Kinds
<1> HIDE DEF new
<1>8. class' \in [Musics -> Class] /\ (Serial => EvidenceIsCurrent')
  BY <1>1, <1>6 DEF ContentInv, TypeOK, Class, Contents, EvidenceIsCurrent
<1>9. TypeOK'
  BY <1>1, <1>3, <1>6, <1>7, <1>8 DEF TypeOK, TrackRow, Class
<1>10. \A v \in Busy : worker[v].key \in Keys /\ worker[v].key[2] \in Musics
  BY <1>1, Shapes, KeyShape DEF Working
<1>11. WorkersSound' /\ HoldersRun' /\ SucceededHasArtifact'
  BY <1>1, <1>6, <1>10 DEF ContentInv, WorkersSound, HoldersRun, SucceededHasArtifact
<1>12. ASSUME OneRequest
       PROVE  /\ request'[q] = new /\ \A p \in Requests : p = q
              /\ \A n, pcs : n # m /\ "idle" \notin pcs => (Owed(n, pcs) => Owed(n, pcs)')
              /\ Owed(m, {"find", "mark"})' /\ Owed(m, {"find", "mark", "settle"})'
              /\ Owed(m, {"find", "mark", "settle", "audio"})'
  <2>1. /\ request'[q] = new /\ \A p \in Requests : p = q
        /\ \A n, pcs : /\ Owed(n, pcs) <=> OwedBy(request[q], lost, n, pcs)
                       /\ Owed(n, pcs)' <=> OwedBy(new, lost', n, pcs)
    BY <1>1, <1>12, AloneOwes
  <2>2. \A pcs : "find" \in pcs => OwedBy(new, lost', m, pcs)
    BY <1>7 DEF OwedBy
  <2>3. \A n, pcs : n # m /\ "idle" \notin pcs => (OwedBy(request[q], lost, n, pcs) => OwedBy(new, lost', n, pcs))
    BY <1>1, <1>7 DEF OwedBy
  <2>4. QED
    BY <2>1, <2>2, <2>3
<1>13. ASSUME OneRequest
       PROVE  RequestsCurrent' /\ OldContentMarked'
  <2>1. OldContentMarked
    BY <1>13 DEF ContentInv
  <2>2. RequestsCurrent'
    BY <1>7, <1>12, <1>13 DEF RequestsCurrent
  <2>3. ASSUME NEW v \in Busy, NEW n \in Musics, n = worker[v].key[2], worker[v].key[1] = "audio",
               worker[v].holds, music'[n].live, worker[v].key[3] # music'[n].hash, Past(v)
        PROVE  jobs[worker[v].key].cancel \/ Owed(n, {"find", "mark"})'
    <3>1. CASE n = m
      BY <1>12, <1>13, <3>1
    <3>2. CASE n # m
      BY <1>6, <1>12, <1>13, <2>1, <2>3, <3>2 DEF OldContentMarked
    <3>3. QED
      BY <3>1, <3>2
  <2>4. ASSUME NEW n \in Musics, music'[n].live, NEW k \in AudioKeys(n), k[3] # music'[n].hash,
               jobs[k].status = "succeeded"
        PROVE  Owed(n, {"find", "mark", "settle"})'
    <3>1. CASE n = m
      BY <1>12, <1>13, <3>1
    <3>2. CASE n # m
      BY <1>6, <1>12, <1>13, <2>1, <2>4, <3>2 DEF OldContentMarked
    <3>3. QED
      BY <3>1, <3>2
  <2>5. OldContentMarked'
    BY <1>1, <1>10, <2>3, <2>4 DEF OldContentMarked, Past, AudioKeys
  <2>6. QED
    BY <2>2, <2>5
<1>14. ASSUME OneRequest, OneExtension
       PROVE  KeysReached' /\ CurrentScheduled'
  <2>1. KeysReached /\ CurrentScheduled
    BY <1>14 DEF ContentInv
  <2>2. /\ music[m].content <= uploads /\ uploads <= MaxUploads
        /\ music[m].hash # NoHash <=> music[m].content > 0
    BY <2>1 DEF KeysReached
  <2>3. /\ next > 0 /\ music[m].content <= next /\ next <= uploads + 1
        /\ next = music[m].content => h = music[m].hash
    <3>1. music[m].ext = e
      BY <1>2, <1>14 DEF OneExtension, TrackRow
    <3>2. CASE music[m].content > 0
      BY <1>1, <1>3, <2>2, <3>1, <3>2 DEF NextRevision, next
    <3>3. CASE music[m].content = 0
      BY <1>1, <1>3, <2>2, <3>3 DEF NextRevision, next
    <3>4. QED
      BY <1>3, <3>2, <3>3
  <2>4. h # NoHash
    BY ContentConstants
  <2>5. \A n \in Musics : n # m => CurrentKey(n)' = CurrentKey(n)
    BY <1>6 DEF CurrentKey
  <2>6. CurrentKey(m)' = AudioKey(m, h, next)
    BY <1>5, <1>6 DEF CurrentKey
  <2>7. ASSUME NEW k \in Keys, k[1] = "audio", Reached(k)
        PROVE  /\ Reached(k)'
               /\ k[2] = m /\ k = CurrentKey(m)' => k = CurrentKey(m)
    <3>1. k[2] \in Musics /\ k[4] \in Nat
      BY <2>7, KeyShape DEF Revisions
    <3>2. CASE k[2] = m
      <4>1. k[4] <= next /\ (k[4] = next => next = music[m].content)
        BY <1>3, <2>3, <2>7, <3>1, <3>2 DEF Reached
      <4>2. Reached(k)'
        BY <1>5, <1>6, <2>3, <2>7, <3>2, <4>1 DEF Reached
      <4>3. k = CurrentKey(m)' => k[4] = next
        BY <2>6, AudioKeyParts
      <4>4. k = CurrentKey(m)' => k = CurrentKey(m)
        BY <2>3, <2>6, <4>1, <4>3 DEF CurrentKey
      <4>5. QED
        BY <4>2, <4>4
    <3>3. CASE k[2] # m
      BY <1>6, <2>7, <3>1, <3>3 DEF Reached
    <3>4. QED
      BY <3>2, <3>3
  <2>8. ASSUME NEW n \in Musics
        PROVE  /\ music'[n].content <= uploads' /\ uploads' <= MaxUploads
               /\ music'[n].hash # NoHash <=> music'[n].content > 0
    <3>1. uploads' <= MaxUploads
      BY <1>1, <1>3, ContentConstants
    <3>2. CASE n = m
      BY <1>1, <1>5, <1>6, <2>3, <2>4, <3>1, <3>2
    <3>3. CASE n # m
      <4>1. music[n].content \in Nat /\ music[n].content <= uploads
        BY <1>1, <2>1 DEF KeysReached, TypeOK
      <4>2. QED
        BY <1>1, <1>3, <1>6, <2>1, <3>1, <3>3, <4>1 DEF KeysReached
    <3>4. QED
      BY <3>2, <3>3
  <2>9. ASSUME NEW v \in Busy, NEW k \in Keys, k = worker[v].key, k[1] = "audio",
               NEW n \in Musics, n = k[2]
        PROVE  /\ Reached(k)'
               /\ worker[v].result = "stale" /\ music'[n].live => k # CurrentKey(n)'
    <3>1. /\ Reached(k)
          /\ worker[v].result = "stale" /\ music[n].live => k # CurrentKey(n)
      BY <2>1, <2>9 DEF KeysReached
    <3>2. CASE n = m
      BY <1>6, <2>7, <2>9, <3>1, <3>2
    <3>3. CASE n # m
      BY <1>6, <2>5, <2>7, <2>9, <3>1, <3>3
    <3>4. QED
      BY <3>2, <3>3
  <2>10. KeysReached'
    BY <1>1, <1>10, <2>1, <2>7, <2>8, <2>9 DEF KeysReached
  <2>11. CurrentKey(m)' \in Keys /\ CurrentKey(m)'[1] = "audio" /\ CurrentKey(m)'[2] = m
         /\ CurrentKey(m)'[3] = h /\ CurrentKey(m)'[4] = next
    <3>1. next \in Revisions
      BY <1>1, <1>3, <2>3, ContentConstants DEF Revisions
    <3>2. QED
      BY <2>6, <3>1, AudioKeyParts
  <2>12. \/ jobs[CurrentKey(m)'].status \notin {"absent", "stale"}
         \/ jobs[CurrentKey(m)'].status = "absent"
    <3>1. SUFFICES ASSUME jobs[CurrentKey(m)'].status # "absent"
                   PROVE  jobs[CurrentKey(m)'].status \notin {"absent", "stale"}
      OBVIOUS
    <3>2. Reached(CurrentKey(m)')
      BY <2>1, <2>11, <3>1 DEF KeysReached
    <3>3. CurrentKey(m)' = CurrentKey(m)
      BY <2>7, <2>11, <3>2
    <3>4. music[m].hash # NoHash
      BY <2>4, <2>11, <3>3, AudioKeyParts DEF CurrentKey
    <3>5. QED
      BY <1>1, <1>12, <1>14, <2>1, <3>1, <3>3, <3>4 DEF CurrentScheduled
  <2>13. CurrentScheduled'
    <3>1. ASSUME NEW n \in Musics, music'[n].live, music'[n].hash # NoHash
          PROVE  \/ jobs[CurrentKey(n)'].status \notin {"absent", "stale"}
                 \/ /\ jobs[CurrentKey(n)'].status = "absent"
                    /\ Owed(n, {"find", "mark", "settle", "audio"})'
      <4>1. CASE n = m
        BY <1>12, <1>14, <2>12, <4>1
      <4>2. CASE n # m
        BY <1>6, <1>12, <1>14, <2>1, <2>5, <3>1, <4>2 DEF CurrentScheduled
      <4>3. QED
        BY <4>1, <4>2
    <3>2. QED
      BY <1>1, <3>1 DEF CurrentScheduled
  <2>14. QED
    BY <2>10, <2>13
<1>15. QED
  BY <1>8, <1>9, <1>11, <1>13, <1>14 DEF ContentInv

\* Steps that leave contents, jobs, requests and workers as they are.
LEMMA MetadataKeeps ==
    ASSUME ContentInv, UNCHANGED <<artifact, jobs, request, worker, uploads, lastId, lost>>,
           edits' \in Nat, music' \in [Musics -> TrackRow], class' \in [Musics -> Class],
           \A m \in Musics : /\ music'[m].live = music[m].live /\ music'[m].hash = music[m].hash
                             /\ music'[m].content = music[m].content,
           Serial => EvidenceIsCurrent'
    PROVE  ContentInv'
<1> USE DEF Busy, Job, Track, Content
<1>1. TypeOK /\ \A v \in Busy : worker[v].key \in Keys /\ worker[v].key[2] \in Musics
  BY Shapes, KeyShape DEF ContentInv, Working
<1>2. TypeOK'
  BY <1>1 DEF TypeOK, TrackRow, Class
<1>3. WorkersSound' /\ HoldersRun' /\ SucceededHasArtifact'
  BY <1>1 DEF ContentInv, WorkersSound, HoldersRun, SucceededHasArtifact
<1>4. \A m, pcs : Owed(m, pcs)' <=> Owed(m, pcs)
  BY DEF Owed, Marking
<1>5. ASSUME OneRequest
      PROVE  RequestsCurrent' /\ OldContentMarked'
  <2>1. \A q \in Requests : request[q].pc \in {"mark", "settle", "rules", "audio"} => request[q].music \in Musics
    BY <1>1, Shapes DEF Serving
  <2>2. RequestsCurrent'
    BY <1>5, <2>1 DEF ContentInv, RequestsCurrent
  <2>3. OldContentMarked'
    BY <1>1, <1>4, <1>5 DEF ContentInv, OldContentMarked, Past, AudioKeys
  <2>4. QED
    BY <2>2, <2>3
<1>6. ASSUME OneRequest, OneExtension
      PROVE  KeysReached' /\ CurrentScheduled'
  <2>1. \A m \in Musics : CurrentKey(m)' = CurrentKey(m)
    BY DEF CurrentKey
  <2>2. \A k \in Keys : Reached(k)' <=> Reached(k)
    BY KeyShape DEF Reached
  <2>3. KeysReached'
    BY <1>1, <1>6, <2>1, <2>2 DEF ContentInv, KeysReached
  <2>4. CurrentScheduled'
    BY <1>4, <1>6, <2>1 DEF ContentInv, CurrentScheduled
  <2>5. QED
    BY <2>3, <2>4
<1>7. QED
  BY <1>2, <1>3, <1>5, <1>6 DEF ContentInv

LEMMA EditKeeps ==
    ASSUME ContentInv, NEW m \in Musics, Edit(m)
    PROVE  ContentInv'
<1> DEFINE row == [music[m] EXCEPT !.revision = @ + 1]
<1>1. /\ TypeOK /\ edits' = edits + 1 /\ music' = [music EXCEPT ![m] = row]
      /\ class' = [class EXCEPT ![m] = [class[m] EXCEPT !.hash = NoHash]]
      /\ UNCHANGED <<artifact, jobs, request, worker, uploads, lastId, lost>>
  BY DEF Edit, ContentInv, TypeOK, Projected
<1>2. music \in [Musics -> TrackRow]
  BY <1>1 DEF TypeOK, TrackRow
<1>3. /\ row \in TrackRow /\ row.live = music[m].live /\ row.hash = music[m].hash
      /\ row.content = music[m].content
  BY <1>2 DEF TrackRow
<1> HIDE DEF row
<1>4. /\ music' \in [Musics -> TrackRow]
      /\ \A n \in Musics : /\ music'[n].live = music[n].live /\ music'[n].hash = music[n].hash
                           /\ music'[n].content = music[n].content
  BY <1>1, <1>2, <1>3
<1>5. class' \in [Musics -> Class] /\ (Serial => EvidenceIsCurrent')
  BY <1>1, <1>4 DEF ContentInv, TypeOK, Class, Contents, EvidenceIsCurrent
<1>6. edits' \in Nat
  BY <1>1 DEF TypeOK
<1>7. QED
  BY <1>1, <1>4, <1>5, <1>6, MetadataKeeps

LEMMA SetManualKeeps ==
    ASSUME ContentInv, NEW m \in Musics, NEW on \in BOOLEAN, SetManual(m, on)
    PROVE  ContentInv'
<1>1. /\ TypeOK /\ class' = [class EXCEPT ![m] = [class[m] EXCEPT !.manual = on]]
      /\ UNCHANGED <<music, artifact, jobs, request, worker, uploads, edits, lastId, lost>>
  BY DEF SetManual, ContentInv, TypeOK
<1>2. music' \in [Musics -> TrackRow] /\ edits' \in Nat
  BY <1>1 DEF TypeOK, TrackRow
<1>3. class' \in [Musics -> Class] /\ (Serial => EvidenceIsCurrent')
  BY <1>1 DEF ContentInv, TypeOK, Class, EvidenceIsCurrent
<1>4. QED
  BY <1>1, <1>2, <1>3, MetadataKeeps

\* A deletion takes the artifacts that no job of another track names.
LEMMA DeleteKeeps ==
    ASSUME ContentInv, NEW m \in Musics, Delete(m)
    PROVE  ContentInv'
<1> USE DEF Busy, Job, Track, Content
<1> DEFINE gone == Orphans(m)
           Cut(k) == k[1] = "audio" /\ k[3] \in gone
           row == [music[m] EXCEPT !.live = FALSE]
<1>1. /\ TypeOK /\ music' = [music EXCEPT ![m] = row]
      /\ jobs' = [k \in Keys |-> IF k[2] = m THEN NoJob
                                 ELSE IF Cut(k) THEN [jobs[k] EXCEPT !.artifact = 0] ELSE jobs[k]]
      /\ artifact' = [h \in Hashes |-> IF h \in gone THEN 0 ELSE artifact[h]]
      /\ class' = [n \in Musics |-> IF class[n].hash \in gone THEN [class[n] EXCEPT !.hash = NoHash] ELSE class[n]]
      /\ UNCHANGED <<request, worker, uploads, edits, lastId, lost>>
  BY DEF Delete, ContentInv, TypeOK
<1>2. music \in [Musics -> TrackRow] /\ row \in TrackRow
  BY <1>1 DEF TypeOK, TrackRow
<1>3. /\ ~row.live /\ row.hash = music[m].hash /\ row.content = music[m].content
  BY <1>2 DEF TrackRow
<1> HIDE DEF row
<1>4. /\ music' \in [Musics -> TrackRow] /\ ~music'[m].live
      /\ \A n \in Musics : /\ music'[n].hash = music[n].hash /\ music'[n].content = music[n].content
                           /\ music'[n].live => music[n].live /\ music'[n] = music[n] /\ n # m
  BY <1>1, <1>2, <1>3
<1>5. \A k \in Keys : /\ jobs'[k] \in Row
                      /\ k[2] = m => jobs'[k].status = "absent"
                      /\ k[2] # m => jobs'[k].status = jobs[k].status /\ jobs'[k].cancel = jobs[k].cancel
                      /\ k[2] # m /\ ~Cut(k) => jobs'[k] = jobs[k]
  BY <1>1 DEF TypeOK, Row, NoJob
<1>6. jobs' \in [Keys -> Row]
  BY <1>1, <1>5
<1>7. class' \in [Musics -> Class]
      /\ \A n \in Musics : class'[n].hash \in {NoHash, class[n].hash}
  BY <1>1 DEF TypeOK, Class, Contents
<1>8. TypeOK'
  BY <1>1, <1>4, <1>6, <1>7 DEF TypeOK, TrackRow, Class, Row
<1>9. \A v \in Busy : worker[v].key \in Keys /\ worker[v].key[2] \in Musics
  BY <1>1, Shapes, KeyShape DEF Working
<1>10. WorkersSound'
  BY <1>1 DEF ContentInv, WorkersSound
<1>11. HoldersRun'
  BY <1>1, <1>4, <1>5, <1>9 DEF ContentInv, HoldersRun
<1>12. SucceededHasArtifact'
  <2>1. ASSUME NEW k \in Keys, k[1] = "audio", jobs'[k].status = "succeeded"
        PROVE  jobs'[k].artifact # 0 /\ artifact'[k[3]] = jobs'[k].artifact
    <3>1. k[2] # m /\ jobs[k].status = "succeeded" /\ k[3] \in Hashes
      BY <1>5, <2>1, KeyShape
    <3>2. jobs[k].artifact # 0 /\ artifact[k[3]] = jobs[k].artifact
      BY <2>1, <3>1 DEF ContentInv, SucceededHasArtifact
    <3>3. jobs[k].artifact \in ArtifactsOf({j \in Keys : j[2] # m})
      BY <3>1, <3>2 DEF ArtifactsOf
    <3>4. k[3] \notin gone
      BY <3>1, <3>2, <3>3 DEF Orphans
    <3>5. QED
      BY <1>1, <1>5, <3>1, <3>2, <3>4
  <2>2. QED
    BY <2>1 DEF SucceededHasArtifact
<1>13. Serial => EvidenceIsCurrent'
  BY <1>4, <1>7 DEF ContentInv, EvidenceIsCurrent
<1> HIDE DEF Cut, gone
<1>14. \A n, pcs : Owed(n, pcs)' <=> Owed(n, pcs)
  BY <1>1 DEF Owed, Marking
<1>15. ASSUME OneRequest
       PROVE  RequestsCurrent' /\ OldContentMarked'
  <2>1. \A q \in Requests : request[q].pc \in {"mark", "settle", "rules", "audio"} => request[q].music \in Musics
    BY <1>1, Shapes DEF Serving
  <2>2. RequestsCurrent'
    BY <1>1, <1>4, <1>15, <2>1 DEF ContentInv, RequestsCurrent
  <2>3. ASSUME NEW v \in Busy, NEW n \in Musics, n = worker[v].key[2], worker[v].key[1] = "audio",
               worker[v].holds, music'[n].live, worker[v].key[3] # music'[n].hash, Past(v)
        PROVE  jobs'[worker[v].key].cancel \/ Owed(n, {"find", "mark"})
    BY <1>4, <1>5, <1>9, <1>15, <2>3 DEF ContentInv, OldContentMarked
  <2>4. ASSUME NEW n \in Musics, music'[n].live, NEW k \in AudioKeys(n), k[3] # music'[n].hash,
               jobs'[k].status = "succeeded"
        PROVE  Owed(n, {"find", "mark", "settle"})
    BY <1>4, <1>5, <1>15, <2>4 DEF ContentInv, OldContentMarked, AudioKeys
  <2>5. OldContentMarked'
    BY <1>1, <1>9, <1>14, <2>3, <2>4 DEF OldContentMarked, Past, AudioKeys
  <2>6. QED
    BY <2>2, <2>5
<1>16. ASSUME OneRequest, OneExtension
       PROVE  KeysReached' /\ CurrentScheduled'
  <2>1. KeysReached /\ CurrentScheduled
    BY <1>16 DEF ContentInv
  <2>2. \A n \in Musics : CurrentKey(n)' = CurrentKey(n)
    BY <1>4 DEF CurrentKey
  <2>3. \A k \in Keys : Reached(k)' <=> Reached(k)
    BY <1>4, KeyShape DEF Reached
  <2>4. \A k \in Keys : jobs'[k].status # "absent" => jobs[k].status # "absent"
    BY <1>5
  <2>5. KeysReached'
    BY <1>1, <1>4, <1>9, <2>1, <2>2, <2>3, <2>4 DEF KeysReached
  <2>6. ASSUME NEW n \in Musics, music'[n].live, music'[n].hash # NoHash
        PROVE  /\ jobs'[CurrentKey(n)].status = jobs[CurrentKey(n)].status
               /\ music[n].live /\ music[n].hash # NoHash
    <3>1. n # m /\ music[n].live /\ music[n].hash # NoHash
      BY <1>4, <2>6
    <3>2. CurrentKey(n) \in Keys /\ CurrentKey(n)[2] = n
      BY <1>1, <2>1, <3>1, CurrentKeyShape
    <3>3. QED
      BY <1>5, <3>1, <3>2
  <2>7. CurrentScheduled'
    BY <1>14, <2>1, <2>2, <2>6 DEF CurrentScheduled
  <2>8. QED
    BY <2>5, <2>7
<1>17. QED
  BY <1>8, <1>10, <1>11, <1>12, <1>13, <1>15, <1>16 DEF ContentInv

-----------------------------------------------------------------------------
(* All steps.                                                              *)

LEMMA InitHolds ==
    Init => ContentInv
<1> SUFFICES ASSUME Init
             PROVE  ContentInv
  OBVIOUS
<1>1. IdleRequest \in RequestStates /\ IdleRequest.pc = "idle"
  BY DEF RequestStates, IdleRequest
<1>2. IdleWorker \in WorkerStates /\ IdleWorker.pc = "idle"
  BY DEF WorkerStates, IdleWorker
<1>3. NoJob \in Row /\ NoJob.status = "absent"
  BY DEF NoJob, Row
<1>4. TypeOK
  <2>1. (CHOOSE e \in Exts : TRUE) \in Exts
    BY ContentConstants
  <2>2. QED
    BY <1>1, <1>2, <1>3, <2>1 DEF Init, TypeOK, Contents, Row
<1>5. Busy = {}
  BY <1>2 DEF Init, Busy
<1>6. /\ \A m \in Musics : music[m].hash = NoHash /\ music[m].content = 0
      /\ \A k \in Keys : jobs[k].status = "absent"
      /\ \A q \in Requests : request[q].pc = "idle"
      /\ \A m \in Musics : class[m].hash = NoHash
  BY <1>1, <1>3 DEF Init
<1>7. /\ WorkersSound /\ HoldersRun /\ SucceededHasArtifact /\ EvidenceIsCurrent
  BY <1>5, <1>6 DEF WorkersSound, HoldersRun, SucceededHasArtifact, EvidenceIsCurrent
<1>8. RequestsCurrent /\ OldContentMarked
  BY <1>5, <1>6 DEF RequestsCurrent, OldContentMarked, AudioKeys
<1>9. KeysReached /\ CurrentScheduled
  BY <1>5, <1>6, ContentConstants DEF Init, KeysReached, CurrentScheduled
<1>10. QED
  BY <1>4, <1>7, <1>8, <1>9 DEF ContentInv

LEMMA NothingKeeps ==
    ContentInv /\ UNCHANGED vars => ContentInv'
<1> SUFFICES ASSUME ContentInv, UNCHANGED vars
             PROVE  ContentInv'
  OBVIOUS
<1>1. TypeOK /\ UNCHANGED <<artifact, jobs, request, worker, uploads, lastId, lost>> /\ music' = music
      /\ class' = class /\ edits' = edits
  BY DEF vars, ContentInv
<1>2. /\ edits' \in Nat /\ music' \in [Musics -> TrackRow]
  BY <1>1 DEF TypeOK, TrackRow
<1>3. QED
  BY <1>1, <1>2, SameEvidence, MetadataKeeps

LEMMA NextKeeps ==
    ContentInv /\ [Next]_vars => ContentInv'
<1> SUFFICES ASSUME ContentInv, [Next]_vars
             PROVE  ContentInv'
  OBVIOUS
<1>1. ASSUME NEW m \in Musics, Edit(m) \/ Delete(m) \/ \E on \in BOOLEAN : SetManual(m, on)
      PROVE  ContentInv'
  BY <1>1, EditKeeps, DeleteKeeps, SetManualKeeps
<1>2. ASSUME NEW q \in Requests,
             \/ \E m \in Musics, e \in Exts, h \in Hashes : Upload(q, m, e, h)
             \/ \E m \in Musics, force \in BOOLEAN : Administer(q, m, "admin", force)
             \/ \E m \in Musics : Administer(q, m, "backfill", FALSE)
      PROVE  ContentInv'
  BY <1>2, UploadKeeps, AdministerKeeps
<1>3. ASSUME NEW q \in Requests,
             \/ Find(q) \/ EnqueueMetadata(q) \/ EnqueueAudio(q)
             \/ MarkRunning(q) \/ MarkOthers(q) \/ GiveUp(q)
      PROVE  ContentInv'
  BY <1>3, FindKeeps, EnqueueMetadataKeeps, EnqueueAudioKeeps, MarkRunningKeeps, MarkOthersKeeps,
     GiveUpKeeps
<1>4. ASSUME NEW w \in Workers,
             \/ \E k \in Keys : Claim(w, k)
             \/ Recover(w) \/ Finish(w) \/ Lost(w) \/ Fail(w)
      PROVE  ContentInv'
  BY <1>4, ClaimKeeps, RecoverKeeps, FinishKeeps, LostKeeps, FailKeeps
<1>5. ASSUME NEW w \in Workers,
             Start(w) \/ Analyze(w) \/ Store(w) \/ Apply(w) \/ ApplyWrite(w) \/ ApplyRules(w)
      PROVE  ContentInv'
  BY <1>5, StartKeeps, AnalyzeKeeps, StoreKeeps, ApplyKeeps, ApplyRulesKeeps
<1>6. QED
  BY <1>1, <1>2, <1>3, <1>4, <1>5, NothingKeeps DEF Next

\* A succeeded job has its artifact, and a worker its job, on every database;
\* over one connection the evidence is current; what else is known when
\* requests come one at a time (processAudioJob, deleteMusicAnalysisState).
THEOREM ContentHolds == Spec => []ContentInv
<1>1. Init => ContentInv
  BY InitHolds
<1>2. ContentInv /\ [Next]_vars => ContentInv'
  BY NextKeeps
<1>3. QED
  BY <1>1, <1>2, PTL DEF Spec

\* When all is done, nothing shows results of an old content.
LEMMA QuietSettles ==
    ContentInv /\ OneRequest => OldContentSettled
<1> SUFFICES ASSUME ContentInv, OneRequest, Quiet, NEW m \in Musics \ lost, music[m].live,
                    NEW k \in AudioKeys(m), k[3] # music[m].hash
             PROVE  jobs[k].status \in {"absent", "stale", "cancelled", "failed"}
  BY DEF OldContentSettled
<1>1. k \in Keys
  BY DEF AudioKeys
<1>2. jobs[k].status \in {"absent", "pending", "running", "succeeded", "failed", "stale", "cancelled"}
  BY <1>1 DEF ContentInv, TypeOK
<1>3. jobs[k].status \notin {"pending", "running"}
  BY <1>1 DEF Quiet
<1>4. ~Owed(m, {"find", "mark", "settle"})
  BY DEF Quiet, Owed, Marking
<1>5. jobs[k].status # "succeeded"
  BY <1>4 DEF ContentInv, OldContentMarked
<1>6. QED
  BY <1>2, <1>3, <1>5

\* When all is done, the content of a track has had its analysis.
LEMMA QuietAnalyzed ==
    ContentInv /\ OneRequest /\ OneExtension => UploadIsAnalyzed
<1> SUFFICES ASSUME ContentInv, OneRequest, OneExtension, Quiet,
                    NEW m \in Musics \ lost, music[m].live, music[m].hash # NoHash
             PROVE  \E k \in AudioKeys(m) : /\ k[3] = music[m].hash
                                            /\ jobs[k].status \in {"succeeded", "failed", "cancelled"}
  BY DEF UploadIsAnalyzed
<1>1. TypeOK /\ KeysReached /\ CurrentScheduled
  BY DEF ContentInv
<1>2. /\ CurrentKey(m) \in Keys /\ CurrentKey(m)[1] = "audio" /\ CurrentKey(m)[2] = m
      /\ CurrentKey(m)[3] = music[m].hash
  BY <1>1, CurrentKeyShape
<1>3. ~Owed(m, {"find", "mark", "settle", "audio"})
  BY DEF Quiet, Owed, Marking
<1>4. jobs[CurrentKey(m)].status \notin {"absent", "stale"}
  BY <1>1, <1>3 DEF CurrentScheduled
<1>5. jobs[CurrentKey(m)].status \in {"succeeded", "failed", "cancelled"}
  BY <1>1, <1>2, <1>4 DEF TypeOK, Quiet
<1>6. QED
  BY <1>2, <1>5 DEF AudioKeys

\* Whatever uploads, edits, deletions, requests and workers interleave, over one
\* connection, as on SQLite, the classification of a track shows the analysis of
\* no other content than the one it has; on every database, with one request at
\* a time, no result of an old content is left when all is done, and, while the
\* path of the managed file stays, the content it has was analyzed, or its
\* analysis failed or was cancelled (PersistManagedMusicSource,
\* ScheduleContentAnalysis, reclassify, MarkSupersededAudio).
THEOREM AnalysisIsOfTheContent == Spec => []AnalysisFollowsContent
<1>1. ContentInv => AnalysisFollowsContent
  BY QuietSettles, QuietAnalyzed DEF AnalysisFollowsContent
<1>2. QED
  BY <1>1, ContentHolds, PTL
=============================================================================
