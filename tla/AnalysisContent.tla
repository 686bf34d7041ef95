--------------------------- MODULE AnalysisContent ---------------------------
(***************************************************************************)
(* What the jobs of AnalysisQueue are about: uploads give a track another  *)
(* content, requests turn contents into jobs, workers turn jobs into       *)
(* artifacts shared by all tracks with the same bytes, and artifacts enter *)
(* the classification of a track beside the manual choice.                 *)
(*                                                                         *)
(* A lease is here only whether the worker still holds its job; leases,    *)
(* attempts, limits and cancellation calls are those of AnalysisQueue.     *)
(***************************************************************************)
EXTENDS Naturals, FiniteSets

CONSTANTS
    Musics, Hashes, Exts,
    NoHash,     \* a track without audio, a classification without an artifact
    Workers,
    Requests,   \* concurrent uploads and administrator requests
    Serial,     \* TRUE on SQLite: transactions do not interleave
    Asked,      \* bounds of the model: requests of administrators,
    MaxUploads, MaxEdits \* uploads, metadata edits

ASSUME ContentConstants ==
    /\ NoHash \notin Hashes /\ Exts # {} /\ Serial \in BOOLEAN
    /\ MaxUploads \in Nat /\ MaxEdits \in Nat

VARIABLES
    music,     \* the track: live, file_hash, metadata_revision, its file's extension and content_revision
    artifact,  \* music_audio_analyses: the id of the row of every content, or 0
    jobs,      \* music_analysis_jobs by idempotency key
    class,     \* music_preset_classifications
    request, worker,
    uploads, edits, lastId,
    lost       \* history: the tracks whose content was to be scheduled, and was not

vars == <<music, artifact, jobs, class, request, worker, uploads, edits, lastId, lost>>

NoJob == [status |-> "absent", artifact |-> 0, cancel |-> FALSE]
IdleRequest == [pc |-> "idle"]
IdleWorker == [pc |-> "idle"]

Revisions == 1..MaxUploads
AudioKey(m, h, r) == <<"audio", m, h, r>>
RulesKey(m, r) == <<"rules", m, r>>
Keys == {AudioKey(m, h, r) : m \in Musics, h \in Hashes, r \in Revisions}
        \cup {RulesKey(m, r) : m \in Musics, r \in 1..MaxEdits+1}
AudioKeys(m) == {k \in Keys : k[1] = "audio" /\ k[2] = m}

-----------------------------------------------------------------------------
(* Classifications.                                                        *)

\* replaceMusicPresetProjectionWithAudio: the automatic columns only.
Projected(row, h) == [row EXCEPT !.hash = h]

\* latestMusicAudioAnalysis
Latest(m) ==
    IF \E k \in AudioKeys(m) : /\ k[3] = music[m].hash /\ jobs[k].status = "succeeded"
                               /\ jobs[k].artifact # 0
    THEN music[m].hash ELSE NoHash

-----------------------------------------------------------------------------
(* Tracks.                                                                 *)

\* The revision of the managed file goes on only if it has the same path,
\* that is, extension: another path is another row.
NextRevision(m, e, h) ==
    IF music[m].ext = e /\ music[m].content > 0
    THEN music[m].content + (IF music[m].hash = h THEN 0 ELSE 1)
    ELSE 1

\* PersistManagedMusicSource, the end of UploadFiles
Upload(q, m, e, h) ==
    /\ request[q].pc = "idle" /\ music[m].live /\ uploads < MaxUploads
    /\ uploads' = uploads + 1
    /\ music' = [music EXCEPT ![m].hash = h, ![m].ext = e,
                   ![m].content = NextRevision(m, e, h)]
    /\ class' = [class EXCEPT ![m] = Projected(@, NoHash)]
    /\ request' = [request EXCEPT ![q] = [pc |-> "find", kind |-> "content", music |-> m, force |-> FALSE]]
    /\ lost' = lost \ {m}
    /\ UNCHANGED <<artifact, jobs, worker, edits, lastId>>

\* Update with other metadata.
Edit(m) ==
    /\ music[m].live /\ edits < MaxEdits
    /\ edits' = edits + 1
    /\ music' = [music EXCEPT ![m].revision = @ + 1]
    /\ class' = [class EXCEPT ![m] = Projected(@, NoHash)]
    /\ UNCHANGED <<artifact, jobs, request, worker, uploads, lastId, lost>>

ArtifactsOf(keys) == {jobs[k].artifact : k \in keys} \ {0}

\* deleteMusicAnalysisState: the artifacts no other job refers to.
Orphans(m) ==
    {h \in Hashes : artifact[h] \in ArtifactsOf({k \in Keys : k[2] = m})
                                     \ ArtifactsOf({k \in Keys : k[2] # m})}

\* Delete: the jobs, and with an artifact go the references to it.
Delete(m) ==
    LET gone == Orphans(m) IN
    /\ music[m].live
    /\ music' = [music EXCEPT ![m].live = FALSE]
    /\ jobs' = [k \in Keys |-> IF k[2] = m THEN NoJob
                               ELSE IF k[1] = "audio" /\ k[3] \in gone THEN [jobs[k] EXCEPT !.artifact = 0]
                               ELSE jobs[k]]
    /\ artifact' = [h \in Hashes |-> IF h \in gone THEN 0 ELSE artifact[h]]
    /\ class' = [n \in Musics |-> IF class[n].hash \in gone THEN [class[n] EXCEPT !.hash = NoHash] ELSE class[n]]
    /\ UNCHANGED <<request, worker, uploads, edits, lastId, lost>>

\* SetManualPreset, ClearManualPreset
SetManual(m, on) ==
    /\ music[m].live /\ class[m].manual # on
    /\ class' = [class EXCEPT ![m].manual = on]
    /\ UNCHANGED <<music, artifact, jobs, request, worker, uploads, edits, lastId, lost>>

-----------------------------------------------------------------------------
(* Requests: ScheduleContentAnalysis after an upload, ScheduleMusic and    *)
(* Backfill of an administrator.                                           *)

Administer(q, m, kind, force) ==
    /\ request[q].pc = "idle" /\ music[m].live
    /\ request' = [request EXCEPT ![q] = [pc |-> "find", kind |-> kind, music |-> m, force |-> force]]
    /\ UNCHANGED <<music, artifact, jobs, class, worker, uploads, edits, lastId, lost>>

\* The candidate is a copy of the track as it is now.
Find(q) ==
    LET r == request[q] m == r.music IN
    /\ r.pc = "find"
    /\ request' = [request EXCEPT ![q] =
         IF ~music[m].live THEN IdleRequest
         ELSE [pc |-> IF r.kind = "content" THEN "mark" ELSE "rules", kind |-> r.kind, music |-> m,
               force |-> r.force, hash |-> music[m].hash, content |-> music[m].content,
               revision |-> music[m].revision]]
    /\ UNCHANGED <<music, artifact, jobs, class, worker, uploads, edits, lastId, lost>>

\* A statement fails, the queue is full, five seconds are over or the process
\* stops: an upload goes on without its job.
GiveUp(q) ==
    LET r == request[q] IN
    /\ r.pc # "idle"
    /\ request' = [request EXCEPT ![q] = IdleRequest]
    /\ lost' = IF r.kind = "content" THEN lost \cup {r.music} ELSE lost
    /\ UNCHANGED <<music, artifact, jobs, class, worker, uploads, edits, lastId>>

\* Enqueue: what is there stays unless it is forced and settled.  GiveUp has its
\* refusals.
Enqueued(m, key, force) ==
    LET row == jobs[key] IN
    IF music[m].live /\ (row.status = "absent" \/ (force /\ row.status \notin {"pending", "running"}))
    THEN [jobs EXCEPT ![key] = [NoJob EXCEPT !.status = "pending"]]
    ELSE jobs

\* A forced request ends when the job is active.
EnqueueMetadata(q) ==
    LET r == request[q]
        key == RulesKey(r.music, r.revision)
    IN
    /\ r.pc = "rules"
    /\ jobs' = Enqueued(r.music, key, r.force)
    /\ request' = [request EXCEPT ![q] =
         IF r.force /\ jobs[key].status \in {"pending", "running"} THEN IdleRequest
         ELSE [r EXCEPT !.pc = IF r.kind = "backfill" THEN "audio" ELSE "mark"]]
    /\ UNCHANGED <<music, artifact, class, worker, uploads, edits, lastId, lost>>

\* MarkSupersededAudio: the running jobs, then, in a second statement, the
\* others; a job may be claimed in between.
Superseded(q, status, row) ==
    jobs' = [k \in Keys |->
               IF k \in AudioKeys(request[q].music) /\ k[3] # request[q].hash /\ jobs[k].status \in status
               THEN row[k] ELSE jobs[k]]

MarkRunning(q) ==
    /\ request[q].pc = "mark"
    /\ Superseded(q, {"running"}, [k \in Keys |-> [jobs[k] EXCEPT !.cancel = TRUE]])
    /\ request' = [request EXCEPT ![q].pc = "settle"]
    /\ UNCHANGED <<music, artifact, class, worker, uploads, edits, lastId, lost>>

MarkOthers(q) ==
    /\ request[q].pc = "settle"
    /\ Superseded(q, {"pending", "succeeded", "failed"}, [k \in Keys |-> [jobs[k] EXCEPT !.status = "stale"]])
    /\ request' = [request EXCEPT ![q].pc = "audio"]
    /\ UNCHANGED <<music, artifact, class, worker, uploads, edits, lastId, lost>>

EnqueueAudio(q) ==
    LET r == request[q] IN
    /\ r.pc = "audio"
    /\ jobs' = IF r.hash = NoHash THEN jobs
               ELSE Enqueued(r.music, AudioKey(r.music, r.hash, r.content), r.force)
    /\ request' = [request EXCEPT ![q] = IdleRequest]
    /\ lost' = IF r.kind = "backfill" THEN lost ELSE lost \ {r.music}
    /\ UNCHANGED <<music, artifact, class, worker, uploads, edits, lastId>>

-----------------------------------------------------------------------------
(* Workers.                                                                *)

To(w, pc) == worker' = [worker EXCEPT ![w].pc = pc]
Job(w) == worker[w].key
Track(w) == Job(w)[2]
Content(w) == Job(w)[3]

Claim(w, k) ==
    /\ worker[w].pc = "idle" /\ jobs[k].status = "pending" /\ ~jobs[k].cancel
    /\ jobs' = [jobs EXCEPT ![k].status = "running"]
    /\ worker' = [worker EXCEPT ![w] = [pc |-> "start", key |-> k, holds |-> TRUE, artifact |-> 0, result |-> "none"]]
    /\ UNCHANGED <<music, artifact, class, request, uploads, edits, lastId, lost>>

Ends(w, result) == worker' = [worker EXCEPT ![w].pc = "finish", ![w].result = result]

\* The beginning of processAudioJob.
Start(w) ==
    LET m == Track(w) h == Content(w) IN
    /\ worker[w].pc = "start" /\ Job(w)[1] = "audio"
    /\ IF ~music[m].live THEN Ends(w, "failed")
       ELSE IF music[m].hash # h THEN Ends(w, "stale")
       ELSE IF artifact[h] # 0
       THEN worker' = [worker EXCEPT ![w].pc = "apply", ![w].artifact = artifact[h]]
       ELSE To(w, "analyze")
    /\ UNCHANGED <<music, artifact, jobs, class, request, uploads, edits, lastId, lost>>

\* Analyze hashes the bytes it sends.
Analyze(w) ==
    /\ worker[w].pc = "analyze"
    /\ IF music[Track(w)].live /\ music[Track(w)].hash = Content(w) THEN To(w, "store") ELSE Ends(w, "stale")
    /\ UNCHANGED <<music, artifact, jobs, class, request, uploads, edits, lastId, lost>>

\* StoreAnalysis keeps the row that is there.
Store(w) ==
    LET h == Content(w)
        id == IF artifact[h] = 0 THEN lastId + 1 ELSE artifact[h]
    IN
    /\ worker[w].pc = "store" /\ lastId < MaxUploads
    /\ artifact' = [artifact EXCEPT ![h] = id]
    /\ lastId' = IF id > lastId THEN id ELSE lastId
    /\ worker' = [worker EXCEPT ![w].pc = "apply", ![w].artifact = id]
    /\ UNCHANGED <<music, jobs, class, request, uploads, edits, lost>>

\* Mutation: ReclassifyWithAudio trusts the job.
MatchesAlways(m, h) == music[m].live

\* The check of reclassify.
Matches(m, h) == music[m].live /\ music[m].hash = h

\* ReclassifyWithAudio: the artifact must exist when it is written.
Reclassified(w) ==
    IF artifact[Content(w)] = worker[w].artifact
    THEN /\ class' = [class EXCEPT ![Track(w)] = Projected(@, Content(w))]
         /\ Ends(w, "succeeded")
    ELSE class' = class /\ Ends(w, "retry")

Apply(w) ==
    /\ worker[w].pc = "apply"
    /\ IF ~Matches(Track(w), Content(w)) THEN class' = class /\ Ends(w, "stale")
       ELSE IF Serial THEN Reclassified(w)
       ELSE class' = class /\ To(w, "write")
    /\ UNCHANGED <<music, artifact, jobs, request, uploads, edits, lastId, lost>>

\* The same transaction after another one committed.
ApplyWrite(w) ==
    /\ worker[w].pc = "write"
    /\ Reclassified(w)
    /\ UNCHANGED <<music, artifact, jobs, request, uploads, edits, lastId, lost>>

\* processMetadataJob
ApplyRules(w) ==
    LET m == Track(w) IN
    /\ worker[w].pc = "start" /\ Job(w)[1] = "rules"
    /\ IF music[m].live /\ music[m].revision = Job(w)[3]
       THEN /\ class' = [class EXCEPT ![m] = Projected(@, Latest(m))]
            /\ Ends(w, "succeeded")
       ELSE class' = class /\ Ends(w, IF music[m].live THEN "stale" ELSE "failed")
    /\ UNCHANGED <<music, artifact, jobs, request, uploads, edits, lastId, lost>>

\* An analyzer, a file or a statement fails.
Fail(w) ==
    /\ worker[w].pc \in {"start", "analyze", "store", "apply", "write"}
    /\ \E result \in {"retry", "failed"} : Ends(w, result)
    /\ UNCHANGED <<music, artifact, jobs, class, request, uploads, edits, lastId, lost>>

\* The lease expires and RecoverExpired takes the job back, or gives it up.
Recover(w) ==
    LET k == Job(w) IN
    /\ worker[w].pc # "idle" /\ worker[w].holds /\ jobs[k].status = "running"
    /\ \E status \in IF jobs[k].cancel THEN {"cancelled"} ELSE {"pending", "failed"} :
         jobs' = [jobs EXCEPT ![k].status = status]
    /\ worker' = [worker EXCEPT ![w].holds = FALSE]
    /\ UNCHANGED <<music, artifact, class, request, uploads, edits, lastId, lost>>

\* finishAttempt and Complete: a cancelled job takes no other result, and a
\* result whose artifact is gone is refused by the foreign key.
Finish(w) ==
    LET k == Job(w)
        row == jobs[k]
        status == CASE row.cancel -> IF music[k[2]].hash # k[3] THEN "stale" ELSE "cancelled"
                    [] worker[w].result = "retry" -> "pending"
                    [] OTHER -> worker[w].result
        id == IF k[1] = "audio" THEN worker[w].artifact ELSE 0
    IN
    /\ worker[w].pc = "finish"
    /\ jobs' = IF /\ worker[w].holds /\ row.status = "running"
                  /\ id = 0 \/ artifact[k[3]] = id
               THEN [jobs EXCEPT ![k] = [status |-> status, artifact |-> id, cancel |-> row.cancel]]
               ELSE jobs
    /\ worker' = [worker EXCEPT ![w] = IF jobs' = jobs /\ row.status = "running" /\ worker[w].holds
                                       THEN [worker[w] EXCEPT !.pc = "lost"] ELSE IdleWorker]
    /\ UNCHANGED <<music, artifact, class, request, uploads, edits, lastId, lost>>

\* A worker that could not save its result goes on; its lease expires.
Lost(w) ==
    /\ worker[w].pc = "lost" /\ ~worker[w].holds
    /\ worker' = [worker EXCEPT ![w] = IdleWorker]
    /\ UNCHANGED <<music, artifact, jobs, class, request, uploads, edits, lastId, lost>>

-----------------------------------------------------------------------------
Init ==
    /\ music = [m \in Musics |-> [live |-> TRUE, hash |-> NoHash, revision |-> 1,
                                  ext |-> CHOOSE e \in Exts : TRUE, content |-> 0]]
    /\ artifact = [h \in Hashes |-> 0]
    /\ jobs = [k \in Keys |-> NoJob]
    /\ class = [m \in Musics |-> [hash |-> NoHash, manual |-> FALSE]]
    /\ request = [q \in Requests |-> IdleRequest]
    /\ worker = [w \in Workers |-> IdleWorker]
    /\ uploads = 0 /\ edits = 0 /\ lastId = 0 /\ lost = {}

Next ==
    \/ \E m \in Musics : \/ Edit(m) \/ Delete(m)
                         \/ \E on \in BOOLEAN : SetManual(m, on)
    \/ \E q \in Requests : \/ \E m \in Musics, e \in Exts, h \in Hashes : Upload(q, m, e, h)
                           \/ \E m \in Musics, force \in BOOLEAN : "admin" \in Asked /\ Administer(q, m, "admin", force)
                           \/ \E m \in Musics : "backfill" \in Asked /\ Administer(q, m, "backfill", FALSE)
                           \/ Find(q) \/ EnqueueMetadata(q) \/ EnqueueAudio(q)
                           \/ MarkRunning(q) \/ MarkOthers(q) \/ GiveUp(q)
    \/ \E w \in Workers : \/ \E k \in Keys : Claim(w, k)
                          \/ Start(w) \/ Analyze(w) \/ Store(w) \/ Apply(w) \/ ApplyWrite(w)
                          \/ ApplyRules(w) \/ Fail(w) \/ Recover(w) \/ Finish(w) \/ Lost(w)

Spec == Init /\ [][Next]_vars

-----------------------------------------------------------------------------
Contents == Hashes \cup {NoHash}

Kinds == {"content", "admin", "backfill"}

RequestStates ==
    {IdleRequest}
    \cup [pc : {"find"}, kind : Kinds, music : Musics, force : BOOLEAN]
    \cup [pc : {"mark", "settle", "rules", "audio"}, kind : Kinds, music : Musics, force : BOOLEAN,
          hash : Contents, content : Nat, revision : Nat]

WorkerStates ==
    {IdleWorker}
    \cup [pc : {"start", "analyze", "store", "apply", "write", "finish", "lost"}, key : Keys,
          holds : BOOLEAN, artifact : Nat,
          result : {"none", "succeeded", "failed", "stale", "retry"}]

\* Every variable has its type (domain.Music, domain.MusicAnalysisJob).
TypeOK ==
    /\ music \in [Musics -> [live : BOOLEAN, hash : Contents, revision : Nat, ext : Exts, content : Nat]]
    /\ artifact \in [Hashes -> Nat]
    /\ jobs \in [Keys -> [status : {"absent", "pending", "running", "succeeded", "failed",
                                    "stale", "cancelled"}, artifact : Nat, cancel : BOOLEAN]]
    /\ class \in [Musics -> [hash : Contents, manual : BOOLEAN]]
    /\ request \in [Requests -> RequestStates] /\ worker \in [Workers -> WorkerStates]
    /\ uploads \in Nat /\ edits \in Nat /\ lastId \in Nat /\ lost \subseteq Musics

\* The audio evidence in a classification is of the content the track has
\* ("results of an old file are not used for new content", Readme.md:458).
EvidenceIsCurrent ==
    \A m \in Musics : music[m].live => class[m].hash \in {NoHash, music[m].hash}

\* A succeeded job names an artifact of its content that is there, also when
\* the tracks that share it are deleted (StoreAnalysis, deleteMusicAnalysisState).
SucceededHasArtifact ==
    \A k \in Keys : k[1] = "audio" /\ jobs[k].status = "succeeded" =>
      jobs[k].artifact # 0 /\ artifact[k[3]] = jobs[k].artifact

Quiet ==
    /\ \A q \in Requests : request[q].pc = "idle"
    /\ \A w \in Workers : worker[w].pc = "idle"
    /\ \A k \in Keys : jobs[k].status \notin {"pending", "running"}

\* When nothing is in progress no job of a content that a track no longer has
\* is shown as succeeded or waits; one that was claimed between the statements
\* of MarkSupersededAudio may have failed (MarkSupersededAudio, Complete).  That
\* is so unless the request after the upload stopped early, and neither another
\* upload nor ScheduleMusic made up for it.
OldContentSettled ==
    Quiet => \A m \in Musics \ lost : music[m].live =>
      \A k \in AudioKeys(m) : k[3] # music[m].hash =>
        jobs[k].status \in {"absent", "stale", "cancelled", "failed"}

\* When nothing is in progress, the content of a track that was uploaded has
\* a job that ran for it ("after a successful upload an audio analysis task
\* is added", Readme.md:392), unless the request after the upload stopped early
\* and nothing made up for it.
UploadIsAnalyzed ==
    Quiet => \A m \in Musics \ lost : music[m].live /\ music[m].hash # NoHash =>
      \E k \in AudioKeys(m) : k[3] = music[m].hash /\ jobs[k].status \in {"succeeded", "failed", "cancelled"}

-----------------------------------------------------------------------------
(* The inductive invariant.                                                *)

Busy == {w \in Workers : worker[w].pc # "idle"}

\* Only audio jobs get beyond their start, with an artifact when they may
\* succeed; a finished worker has a result; and with one connection no check is
\* apart from its write.
WorkersSound ==
    \A w \in Busy :
      /\ worker[w].pc \in {"analyze", "store", "apply", "write"} => Job(w)[1] = "audio"
      /\ Job(w)[1] = "audio" /\ (worker[w].pc \in {"apply", "write"} \/ worker[w].result = "succeeded")
           => worker[w].artifact # 0
      /\ worker[w].pc = "finish" => worker[w].result # "none"
      /\ Serial => worker[w].pc # "write"

\* A worker that holds the job of a track that is there holds it alone, and the
\* job runs.
HoldersRun ==
    \A w \in Busy : worker[w].holds /\ music[Track(w)].live =>
      /\ jobs[Job(w)].status = "running"
      /\ \A v \in Busy : worker[v].holds /\ Job(v) = Job(w) => v = w

OneRequest == \A p, q \in Requests : p = q
OneExtension == \A d, e \in Exts : d = e

\* A request that is alone works with the content the track has.
RequestsCurrent ==
    \A q \in Requests :
      /\ request[q].pc \in {"mark", "settle", "rules", "audio"} =>
           LET r == request[q] IN
           music[r.music].live => r.hash = music[r.music].hash /\ r.content = music[r.music].content
      /\ request[q].pc = "rules" => request[q].kind # "content"

\* What a request does for a new content of the track is still to come: the
\* request is at one of these statements, or was lost and none is past them.
Marking(m, pcs) ==
    \E q \in Requests : /\ request[q].pc \in pcs /\ request[q].kind = "content"
                        /\ request[q].music = m

Owed(m, pcs) ==
    \/ Marking(m, pcs)
    \/ /\ m \in lost
       /\ ~\E q \in Requests : /\ request[q].pc \in {"settle", "audio"} \ pcs
                                /\ request[q].kind # "backfill" /\ request[q].music = m

\* A worker that found the content of its job current.
Past(w) == worker[w].pc \in {"analyze", "store", "apply", "write"} \/ worker[w].result = "succeeded"

\* The succeeded jobs of old contents are about to be settled, and those that
\* may succeed are flagged or about to be.
OldContentMarked ==
    /\ \A w \in Busy : LET k == Job(w) IN
         k[1] = "audio" /\ worker[w].holds /\ music[k[2]].live /\ k[3] # music[k[2]].hash /\ Past(w) =>
           jobs[k].cancel \/ Owed(k[2], {"find", "mark"})
    /\ \A m \in Musics : music[m].live =>
         \A k \in AudioKeys(m) : k[3] # music[m].hash /\ jobs[k].status = "succeeded" =>
           Owed(m, {"find", "mark", "settle"})

\* No job is ahead of its track: as long as the path stays, the key of every
\* new content is new.
Reached(k) ==
    /\ k[4] <= music[k[2]].content
    /\ k[4] = music[k[2]].content => k[3] = music[k[2]].hash

CurrentKey(m) == AudioKey(m, music[m].hash, music[m].content)

KeysReached ==
    /\ \A m \in Musics : /\ music[m].content <= uploads /\ uploads <= MaxUploads
                         /\ music[m].hash # NoHash <=> music[m].content > 0
    /\ \A k \in Keys : k[1] = "audio" /\ jobs[k].status # "absent" => Reached(k)
    /\ \A w \in Busy : Job(w)[1] = "audio" =>
         /\ Reached(Job(w))
         /\ worker[w].result = "stale" /\ music[Track(w)].live => Job(w) # CurrentKey(Track(w))

\* The job of the current content is there, or about to be, and nothing calls
\* it stale.
CurrentScheduled ==
    \A m \in Musics : music[m].live /\ music[m].hash # NoHash =>
      \/ jobs[CurrentKey(m)].status \notin {"absent", "stale"}
      \/ /\ jobs[CurrentKey(m)].status = "absent"
         /\ Owed(m, {"find", "mark", "settle", "audio"})

ContentInv ==
    /\ TypeOK /\ WorkersSound /\ HoldersRun /\ SucceededHasArtifact
    /\ Serial => EvidenceIsCurrent
    /\ OneRequest => RequestsCurrent /\ OldContentMarked
    /\ OneRequest /\ OneExtension => KeysReached /\ CurrentScheduled

\* A succeeded job has its artifact, and with one connection to the database
\* the audio evidence of a track is of the content it has.  If requests come one
\* at a time, results of old contents are not shown when all is done; if the
\* extension stays too, the content of the track was analyzed, or its analysis
\* failed or was cancelled, also if it is one that came back.  Both but for
\* tracks whose request after the last upload was lost, and not made up for.
AnalysisFollowsContent ==
    /\ ContentInv
    /\ OneRequest => OldContentSettled
    /\ OneRequest /\ OneExtension => UploadIsAnalyzed
=============================================================================
