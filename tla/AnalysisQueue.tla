---------------------------- MODULE AnalysisQueue ----------------------------
(***************************************************************************)
(* The durable queue of music analysis jobs: the rows of the table         *)
(* music_analysis_jobs, the workers that claim, heartbeat, run and settle  *)
(* them, the administrators who cancel them, the callers that mark audio   *)
(* jobs superseded when the content of a track changes, and the deletion   *)
(* of a track with its jobs.                                               *)
(*                                                                         *)
(* One SQL statement (or one transaction) of                               *)
(* repository/music_analysis_repository.go is one action; the callers'     *)
(* local copies live in the variables of their processes, so everything    *)
(* that may happen between a read and the write that follows it, happens.  *)
(* A row is named by its idempotency key, which the table keeps unique;    *)
(* its primary key `id` tells a row from one that replaced it.             *)
(* What an attempt computes is left open here (AttemptOutcomes).           *)
(***************************************************************************)
EXTENDS Naturals, FiniteSets

CONSTANTS
    Keys,        \* idempotency keys: kind, track, content and analyzer version
    AudioKeys,   \* the keys of kind audio_analysis; the others are metadata_rules
    Musics,      \* tracks
    MusicOf,     \* the track a key belongs to
    Workers,     \* worker goroutines of all the processes
    NoWorker,    \* the empty lease_owner
    NoKey,       \* the key of a process that handles no job
    Admins,      \* concurrent RequestCancellation calls
    Schedulers,  \* concurrent MarkSupersededAudio calls
    Enqueuers,   \* Enqueue calls that others overtake: none on SQLite
    MaxAttempts, \* classification.analyzer.retry_max_attempts
    QueueLimit,  \* classification.analyzer.queue_limit
    SkipLocked,  \* TRUE on PostgreSQL (FOR UPDATE SKIP LOCKED), FALSE on SQLite
    MaxForce,    \* bound of the model: forced re-enqueues
    MaxJobs      \* bound of the model: rows ever inserted

ASSUME QueueConstants ==
    /\ IsFiniteSet(Keys)
    /\ IsFiniteSet(Enqueuers)
    /\ AudioKeys \subseteq Keys
    /\ NoKey \notin Keys
    /\ NoWorker \notin Workers
    /\ MusicOf \in [Keys -> Musics]
    /\ MaxAttempts \in Nat \ {0}
    /\ QueueLimit \in Nat \ {0}
    /\ SkipLocked \in BOOLEAN
    /\ ~SkipLocked => Enqueuers = {}
    /\ MaxForce \in Nat
    /\ MaxJobs \in Nat

VARIABLES
    jobs,       \* the table: the row of every key
    worker,     \* what each worker goroutine holds
    admin,      \* what each cancellation call holds
    scheduler,  \* what each supersession call holds
    nextId,     \* the next primary key
    forced,     \* forced re-enqueues so far
    counted     \* the key that an overtaken call of Enqueue is to insert

vars == <<jobs, worker, admin, scheduler, nextId, forced, counted>>

Active   == {"pending", "running"}
Terminal == {"succeeded", "failed", "stale", "cancelled"}

-----------------------------------------------------------------------------
(* Rows.  due: available_at is null or past.  live: lease_expires_at is in *)
(* the future.  The table has no row for a key that is "absent".           *)

NoJob == [id |-> 0, status |-> "absent", cancel |-> FALSE, attempt |-> 0,
          due |-> TRUE, owner |-> NoWorker, gen |-> 0, live |-> FALSE]

NewJob(id) == [NoJob EXCEPT !.id = id, !.status = "pending"]

\* Mutation: a forced re-enqueue that starts the generations again.
ResetJobAndGeneration(row) ==
    [row EXCEPT !.status = "pending", !.cancel = FALSE, !.attempt = 0,
                !.due = TRUE, !.owner = NoWorker, !.live = FALSE, !.gen = 0]

\* The columns a forced re-enqueue clears; lease_generation is not one of them.
ResetJob(row) ==
    [row EXCEPT !.status = "pending", !.cancel = FALSE, !.attempt = 0,
                !.due = TRUE, !.owner = NoWorker, !.live = FALSE]

ClaimedJob(row, w) ==
    [row EXCEPT !.status = "running", !.attempt = @ + 1, !.due = TRUE,
                !.owner = w, !.gen = @ + 1, !.live = TRUE]

\* Mutation: the end of a run forgets the lease owner.
ReleaseKeepingOwner(row, status) ==
    [row EXCEPT !.status = status, !.live = FALSE]

\* Every statement that ends a run also clears the lease.
Release(row, status) ==
    [row EXCEPT !.status = status, !.owner = NoWorker, !.live = FALSE]

\* A retry is scheduled in the future; every other status clears available_at.
SettledJob(row, status) ==
    [Release(row, status) EXCEPT !.due = (status # "pending")]

\* Mutation: recovery that does not look at lease_expires_at.
ExpiredAnyRun(row) == row.status = "running"

Expired(row) == row.status = "running" /\ ~row.live

ActiveKeys == {k \in Keys : jobs[k].status \in Active}

-----------------------------------------------------------------------------
(* Processes.                                                              *)

Idle == [pc |-> "idle", key |-> NoKey, id |-> 0, gen |-> 0, attempt |-> 0,
         control |-> "none", beating |-> FALSE, result |-> "none",
         bypass |-> FALSE]

Down == [Idle EXCEPT !.pc = "down"]

NoCancel == [pc |-> "idle", key |-> NoKey, id |-> 0]

NoSupersede == [pc |-> "idle", keys |-> {}]

Busy(w) == worker[w].pc \in {"running", "completing", "diagnosing"}

\* Mutation: statements guarded by the primary key and the status alone.
HoldsAnyRun(w, k) ==
    /\ Busy(w)
    /\ worker[w].key = k
    /\ jobs[k].id = worker[w].id
    /\ jobs[k].status = "running"

\* The row, lease owner and generation a worker's statements are guarded by.
Holds(w, k) ==
    /\ Busy(w)
    /\ worker[w].key = k
    /\ jobs[k].id = worker[w].id
    /\ jobs[k].status = "running"
    /\ jobs[k].owner = w
    /\ jobs[k].gen = worker[w].gen

-----------------------------------------------------------------------------
(* Enqueue.  A key that has a row is returned unchanged unless the caller  *)
(* forces it.  The count of active jobs and the insertion are one step on  *)
(* the single connection of SQLite; on PostgreSQL a call may be overtaken  *)
(* between the two, and insert on a count that is out of date.             *)

\* Mutation: the limit compared with <=.
BelowLimitOrAtIt == Cardinality(ActiveKeys) <= QueueLimit

BelowLimit == Cardinality(ActiveKeys) < QueueLimit

\* A call that found no row of its key goes on to insert one.
EnqueueCounts(e, k) ==
    /\ counted[e] = NoKey
    /\ BelowLimit
    /\ counted' = [counted EXCEPT ![e] = k]
    /\ UNCHANGED <<jobs, worker, admin, scheduler, nextId, forced>>

\* The key has a row by now, or a statement fails: the transaction is undone.
EnqueueGivesUp(e) ==
    /\ counted[e] # NoKey
    /\ counted' = [counted EXCEPT ![e] = NoKey]
    /\ UNCHANGED <<jobs, worker, admin, scheduler, nextId, forced>>

Enqueue(k) ==
    /\ nextId <= MaxJobs
    /\ jobs[k].status = "absent"
    /\ \/ BelowLimit /\ UNCHANGED counted
       \/ \E e \in Enqueuers : /\ counted[e] = k
                               /\ counted' = [counted EXCEPT ![e] = NoKey]
    /\ jobs' = [jobs EXCEPT ![k] = NewJob(nextId)]
    /\ nextId' = nextId + 1
    /\ UNCHANGED <<worker, admin, scheduler, forced>>

\* Mutation: the forced branch resets a running row as well.
EnqueueForcedRunning(k) ==
    /\ forced < MaxForce
    /\ jobs[k].status \in Terminal \cup {"running"}
    /\ jobs' = [jobs EXCEPT ![k] = ResetJob(@)]
    /\ forced' = forced + 1
    /\ UNCHANGED <<worker, admin, scheduler, nextId, counted>>

\* The forced branch resets a settled row and never looks at the queue limit.
EnqueueForced(k) ==
    /\ forced < MaxForce
    /\ jobs[k].status \in Terminal
    /\ jobs' = [jobs EXCEPT ![k] = ResetJob(@)]
    /\ forced' = forced + 1
    /\ UNCHANGED <<worker, admin, scheduler, nextId, counted>>

-----------------------------------------------------------------------------
(* ClaimNext: the lowest id that is due.  With SKIP LOCKED a claimer may   *)
(* pass over rows another transaction is holding.                          *)

Claimable == {k \in Keys : /\ jobs[k].status = "pending"
                           /\ ~jobs[k].cancel
                           /\ jobs[k].due}

NextInLine(k) ==
    /\ k \in Claimable
    /\ SkipLocked \/ \A j \in Claimable : jobs[k].id <= jobs[j].id

ClaimNext(w) ==
    /\ worker[w].pc = "idle"
    /\ \E k \in Keys :
        /\ NextInLine(k)
        /\ jobs' = [jobs EXCEPT ![k] = ClaimedJob(@, w)]
        /\ worker' = [worker EXCEPT ![w] =
                        [Idle EXCEPT !.pc = "running", !.key = k,
                                     !.id = jobs[k].id,
                                     !.gen = jobs[k].gen + 1,
                                     !.attempt = jobs[k].attempt + 1]]
    /\ UNCHANGED <<admin, scheduler, nextId, forced, counted>>

-----------------------------------------------------------------------------
(* The heartbeat goroutine of an attempt: a guarded update of the lease,   *)
(* then an unguarded read of the cancel flag.  Whatever it reports stops   *)
(* it and cancels the attempt's context.                                   *)

HeartbeatUpdate(w) ==
    /\ worker[w].pc = "running"
    /\ worker[w].control = "none"
    /\ ~worker[w].beating
    /\ LET k == worker[w].key IN
        \/ /\ Holds(w, k)
           /\ jobs' = [jobs EXCEPT ![k].live = TRUE]
           /\ worker' = [worker EXCEPT ![w].beating = TRUE]
        \/ /\ ~Holds(w, k)
           /\ worker' = [worker EXCEPT ![w].control = "failed"]
           /\ UNCHANGED jobs
    /\ UNCHANGED <<admin, scheduler, nextId, forced, counted>>

HeartbeatRead(w) ==
    /\ worker[w].beating
    /\ LET row == jobs[worker[w].key] IN
        \/ /\ row.id = worker[w].id
           /\ worker' = [worker EXCEPT
                ![w].beating = FALSE,
                ![w].control = IF row.cancel \/ row.status = "cancelled"
                               THEN "cancelled" ELSE "none"]
        \/ /\ row.id # worker[w].id
           /\ worker' = [worker EXCEPT ![w].beating = FALSE,
                                       ![w].control = "failed"]
    /\ UNCHANGED <<jobs, admin, scheduler, nextId, forced, counted>>

\* The database does not answer: the error ends the heartbeat.
HeartbeatError(w) ==
    /\ worker[w].pc = "running"
    /\ worker[w].control = "none"
    /\ worker' = [worker EXCEPT ![w].beating = FALSE, ![w].control = "failed"]
    /\ UNCHANGED <<jobs, admin, scheduler, nextId, forced, counted>>

-----------------------------------------------------------------------------
(* The end of an attempt.  A stopping worker and a timeout make any result *)
(* retryable; a cancellation the heartbeat saw beats the timeout and every *)
(* result; an error of the heartbeat (a lost lease or a database error)    *)
(* replaces success, and the cancelled context, by an error that is not    *)
(* retried.                                                                *)

AttemptOutcomes(control) ==
    CASE control = "none"      -> {"ok", "stale", "retryable", "permanent"}
      [] control = "cancelled" -> {"cancelled", "retryable"}
      [] control = "failed"    -> {"stale", "retryable", "permanent"}

\* cancelledStatus: an audio job whose track has other content now is stale.
CancelledStatuses(k) ==
    IF k \in AudioKeys THEN {"cancelled", "stale"} ELSE {"cancelled"}

StatusesAfter(outcome, k, attempt) ==
    CASE outcome = "ok"        -> {"succeeded"}
      [] outcome = "stale"     -> {"stale"}
      [] outcome = "cancelled" -> CancelledStatuses(k)
      [] outcome = "retryable" -> {IF attempt < MaxAttempts THEN "pending"
                                                            ELSE "failed"}
      [] outcome = "permanent" -> {"failed"}

\* runJob waits for its heartbeat goroutine before it looks at the outcome.
AttemptEnds(w) ==
    /\ worker[w].pc = "running"
    /\ ~worker[w].beating
    /\ \E outcome \in AttemptOutcomes(worker[w].control) :
       \E status \in StatusesAfter(outcome, worker[w].key, worker[w].attempt) :
            worker' = [worker EXCEPT ![w].pc = "completing",
                                     ![w].result = status,
                                     ![w].bypass = (outcome = "cancelled")]
    /\ UNCHANGED <<jobs, admin, scheduler, nextId, forced, counted>>

\* Mutation: completion does not look at cancel_requested.
MayCompleteFlagged(w, k) == Holds(w, k)

\* Mutation: completion of whatever run the row has.
MayCompleteAnyRun(w, k) ==
    /\ HoldsAnyRun(w, k)
    /\ worker[w].bypass \/ ~jobs[k].cancel

\* The guard of Complete; an error code "cancelled" lifts its last conjunct.
MayComplete(w, k) ==
    /\ Holds(w, k)
    /\ worker[w].bypass \/ ~jobs[k].cancel

Complete(w) ==
    /\ worker[w].pc = "completing"
    /\ LET k == worker[w].key IN
        \/ /\ MayComplete(w, k)
           /\ jobs' = [jobs EXCEPT ![k] = SettledJob(@, worker[w].result)]
           /\ worker' = [worker EXCEPT ![w] = Idle]
        \/ /\ ~MayComplete(w, k)
           /\ worker' = [worker EXCEPT ![w].pc = "diagnosing"]
           /\ UNCHANGED jobs
    /\ UNCHANGED <<admin, scheduler, nextId, forced, counted>>

\* Complete updated no row: a lease that is still held and flagged is settled
\* as cancelled by a second Complete, any other is given up.
Diagnose(w) ==
    /\ worker[w].pc = "diagnosing"
    /\ LET k == worker[w].key IN
        \/ /\ Holds(w, k)
           /\ jobs[k].cancel
           /\ \E status \in CancelledStatuses(k) :
                worker' = [worker EXCEPT ![w].pc = "completing",
                                         ![w].result = status,
                                         ![w].bypass = TRUE]
        \/ /\ ~(Holds(w, k) /\ jobs[k].cancel)
           /\ worker' = [worker EXCEPT ![w] = Idle]
    /\ UNCHANGED <<jobs, admin, scheduler, nextId, forced, counted>>

\* A database error in Complete is logged and the row stays leased.
CompleteError(w) ==
    /\ worker[w].pc \in {"completing", "diagnosing"}
    /\ worker' = [worker EXCEPT ![w] = Idle]
    /\ UNCHANGED <<jobs, admin, scheduler, nextId, forced, counted>>

-----------------------------------------------------------------------------
(* RecoverExpired: three statements, at the start of a process and then    *)
(* from the workers' loop every recovery interval.                         *)

RecoverCancelled(w) ==
    /\ worker[w].pc \in {"idle", "down"}
    /\ jobs' = [k \in Keys |->
                  IF Expired(jobs[k]) /\ jobs[k].cancel
                  THEN Release(jobs[k], "cancelled") ELSE jobs[k]]
    /\ worker' = [worker EXCEPT ![w].pc = "fail_expired"]
    /\ UNCHANGED <<admin, scheduler, nextId, forced, counted>>

\* Mutation: the last attempt is not the last.
RecoverExhaustedLate(w) ==
    /\ worker[w].pc = "fail_expired"
    /\ jobs' = [k \in Keys |->
                  IF /\ Expired(jobs[k])
                     /\ ~jobs[k].cancel
                     /\ jobs[k].attempt > MaxAttempts
                  THEN Release(jobs[k], "failed") ELSE jobs[k]]
    /\ worker' = [worker EXCEPT ![w].pc = "retry_expired"]
    /\ UNCHANGED <<admin, scheduler, nextId, forced, counted>>

RecoverExhausted(w) ==
    /\ worker[w].pc = "fail_expired"
    /\ jobs' = [k \in Keys |->
                  IF /\ Expired(jobs[k])
                     /\ ~jobs[k].cancel
                     /\ jobs[k].attempt >= MaxAttempts
                  THEN Release(jobs[k], "failed") ELSE jobs[k]]
    /\ worker' = [worker EXCEPT ![w].pc = "retry_expired"]
    /\ UNCHANGED <<admin, scheduler, nextId, forced, counted>>

RecoverRetryable(w) ==
    /\ worker[w].pc = "retry_expired"
    /\ jobs' = [k \in Keys |->
                  IF /\ Expired(jobs[k])
                     /\ ~jobs[k].cancel
                     /\ jobs[k].attempt < MaxAttempts
                  THEN [Release(jobs[k], "pending") EXCEPT !.due = TRUE]
                  ELSE jobs[k]]
    /\ worker' = [worker EXCEPT ![w] = Idle]
    /\ UNCHANGED <<admin, scheduler, nextId, forced, counted>>

\* A failed statement returns at once and the loop goes on.
RecoverError(w) ==
    /\ worker[w].pc \in {"fail_expired", "retry_expired"}
    /\ worker' = [worker EXCEPT ![w] = Idle]
    /\ UNCHANGED <<jobs, admin, scheduler, nextId, forced, counted>>

-----------------------------------------------------------------------------
(* RequestCancellation: a read, then an update guarded by the status read, *)
(* then, when a pending row was not pending any more, a second update.     *)

CancelRead(a, k) ==
    /\ admin[a].pc = "idle"
    /\ jobs[k].status \in Active
    /\ admin' = [admin EXCEPT ![a] =
                   [pc |-> jobs[k].status, key |-> k, id |-> jobs[k].id]]
    /\ UNCHANGED <<jobs, worker, scheduler, nextId, forced, counted>>

CancelPending(a) ==
    /\ admin[a].pc = "pending"
    /\ LET k == admin[a].key IN
        \/ /\ jobs[k].id = admin[a].id /\ jobs[k].status = "pending"
           /\ jobs' = [jobs EXCEPT ![k].status = "cancelled",
                                   ![k].cancel = TRUE]
           /\ admin' = [admin EXCEPT ![a] = NoCancel]
        \/ /\ ~(jobs[k].id = admin[a].id /\ jobs[k].status = "pending")
           /\ admin' = [admin EXCEPT ![a].pc = "running"]
           /\ UNCHANGED jobs
    /\ UNCHANGED <<worker, scheduler, nextId, forced, counted>>

CancelRunning(a) ==
    /\ admin[a].pc = "running"
    /\ LET k == admin[a].key IN
       jobs' = IF jobs[k].id = admin[a].id /\ jobs[k].status = "running"
               THEN [jobs EXCEPT ![k].cancel = TRUE] ELSE jobs
    /\ admin' = [admin EXCEPT ![a] = NoCancel]
    /\ UNCHANGED <<worker, scheduler, nextId, forced, counted>>

-----------------------------------------------------------------------------
(* MarkSupersededAudio: the audio jobs of one track whose file hash is not *)
(* the current one.  Running jobs are flagged first, then the others that  *)
(* are not cancelled become stale.                                         *)

SupersedeRunning(s) ==
    /\ scheduler[s].pc = "idle"
    /\ \E m \in Musics :
       \E K \in (SUBSET {k \in AudioKeys : MusicOf[k] = m}) \ {{}} :
        /\ jobs' = [k \in Keys |->
                      IF k \in K /\ jobs[k].status = "running"
                      THEN [jobs[k] EXCEPT !.cancel = TRUE] ELSE jobs[k]]
        /\ scheduler' = [scheduler EXCEPT ![s] = [pc |-> "settle", keys |-> K]]
    /\ UNCHANGED <<worker, admin, nextId, forced, counted>>

SupersedeOthers(s) ==
    /\ scheduler[s].pc = "settle"
    /\ jobs' = [k \in Keys |->
                  IF /\ k \in scheduler[s].keys
                     /\ jobs[k].status \in {"pending", "succeeded", "failed"}
                  THEN [jobs[k] EXCEPT !.status = "stale"] ELSE jobs[k]]
    /\ scheduler' = [scheduler EXCEPT ![s] = NoSupersede]
    /\ UNCHANGED <<worker, admin, nextId, forced, counted>>

-----------------------------------------------------------------------------
(* The surroundings: a track is deleted with its jobs, time passes,        *)
(* processes stop.                                                         *)

DeleteMusic(m) ==
    /\ \E k \in Keys : MusicOf[k] = m /\ jobs[k].status # "absent"
    /\ jobs' = [k \in Keys |-> IF MusicOf[k] = m THEN NoJob ELSE jobs[k]]
    /\ UNCHANGED <<worker, admin, scheduler, nextId, forced, counted>>

LeaseExpires(k) ==
    /\ jobs[k].live
    /\ jobs' = [jobs EXCEPT ![k].live = FALSE]
    /\ UNCHANGED <<worker, admin, scheduler, nextId, forced, counted>>

BecomesDue(k) ==
    /\ jobs[k].status = "pending"
    /\ ~jobs[k].due
    /\ jobs' = [jobs EXCEPT ![k].due = TRUE]
    /\ UNCHANGED <<worker, admin, scheduler, nextId, forced, counted>>

\* A process dies, or is shut down: what its worker held is lost.
Crash(w) ==
    /\ worker[w].pc # "down"
    /\ worker' = [worker EXCEPT ![w] = Down]
    /\ UNCHANGED <<jobs, admin, scheduler, nextId, forced, counted>>

-----------------------------------------------------------------------------
Init ==
    /\ jobs = [k \in Keys |-> NoJob]
    /\ worker = [w \in Workers |-> Down]
    /\ admin = [a \in Admins |-> NoCancel]
    /\ scheduler = [s \in Schedulers |-> NoSupersede]
    /\ nextId = 1
    /\ forced = 0
    /\ counted = [e \in Enqueuers |-> NoKey]

Attempt(w) ==
    \/ ClaimNext(w)
    \/ HeartbeatUpdate(w)
    \/ HeartbeatRead(w)
    \/ HeartbeatError(w)
    \/ AttemptEnds(w)
    \/ Complete(w)
    \/ Diagnose(w)
    \/ CompleteError(w)

Recover(w) ==
    \/ RecoverCancelled(w)
    \/ RecoverExhausted(w)
    \/ RecoverRetryable(w)
    \/ RecoverError(w)

Next ==
    \/ \E e \in Enqueuers : \E k \in Keys : EnqueueCounts(e, k)
    \/ \E e \in Enqueuers : EnqueueGivesUp(e)
    \/ \E k \in Keys : Enqueue(k)
    \/ \E k \in Keys : EnqueueForced(k)
    \/ \E w \in Workers : Attempt(w)
    \/ \E w \in Workers : Recover(w)
    \/ \E w \in Workers : Crash(w)
    \/ \E a \in Admins : \E k \in Keys : CancelRead(a, k)
    \/ \E a \in Admins : CancelPending(a)
    \/ \E a \in Admins : CancelRunning(a)
    \/ \E s \in Schedulers : SupersedeRunning(s)
    \/ \E s \in Schedulers : SupersedeOthers(s)
    \/ \E m \in Musics : DeleteMusic(m)
    \/ \E k \in Keys : LeaseExpires(k)
    \/ \E k \in Keys : BecomesDue(k)

Spec == Init /\ [][Next]_vars

(* Fairness.  Attempts end because their context has a timeout and the     *)
(* heartbeat's statements return; the loop of a worker comes round and     *)
(* runs RecoverExpired every interval; a process that stops is started     *)
(* again and does not stop for ever between the same two statements; a     *)
(* lease nobody renews and a retry delay run out.  Nothing is assumed of   *)
(* administrators, callers and database errors.                            *)
AbandonedLeaseExpires(k) ==
    LeaseExpires(k) /\ ~\E w \in Workers : Holds(w, k)

Fairness ==
    /\ \A w \in Workers :
        /\ SF_vars(ClaimNext(w))
        /\ WF_vars(HeartbeatRead(w))
        /\ SF_vars(AttemptEnds(w))
        /\ WF_vars(Complete(w))
        /\ WF_vars(Diagnose(w))
        /\ SF_vars(RecoverCancelled(w))
        /\ SF_vars(RecoverExhausted(w))
        /\ SF_vars(RecoverRetryable(w))
    /\ \A k \in Keys :
        /\ WF_vars(AbandonedLeaseExpires(k))
        /\ WF_vars(BecomesDue(k))

FairSpec == Spec /\ Fairness

-----------------------------------------------------------------------------
(* Types.                                                                  *)

Statuses == {"absent"} \cup Active \cup Terminal

Job == [id : Nat, status : Statuses, cancel : BOOLEAN,
        attempt : 0..MaxAttempts, due : BOOLEAN,
        owner : Workers \cup {NoWorker}, gen : Nat, live : BOOLEAN]

WorkerState ==
    [pc : {"down", "idle", "running", "completing", "diagnosing",
           "fail_expired", "retry_expired"},
     key : Keys \cup {NoKey}, id : Nat, gen : Nat, attempt : 0..MaxAttempts,
     control : {"none", "cancelled", "failed"}, beating : BOOLEAN,
     result : {"none", "pending"} \cup Terminal, bypass : BOOLEAN]

CancelState == [pc : {"idle", "pending", "running"},
                key : Keys \cup {NoKey}, id : Nat]

SupersedeState == [pc : {"idle", "settle"}, keys : SUBSET AudioKeys]

\* Every variable has its type; in particular no row and no worker's copy
\* counts more attempts than retry_max_attempts allows.
TypeOK ==
    /\ jobs \in [Keys -> Job]
    /\ worker \in [Workers -> WorkerState]
    /\ admin \in [Admins -> CancelState]
    /\ scheduler \in [Schedulers -> SupersedeState]
    /\ nextId \in Nat \ {0}
    /\ forced \in 0..MaxForce
    /\ counted \in [Enqueuers -> Keys \cup {NoKey}]

-----------------------------------------------------------------------------
(* Safety.                                                                 *)

\* A job that waits can be worked on: it is not flagged for cancellation and
\* has an attempt left.  ClaimNext passes over a flagged row and nothing else
\* settles one, so a flagged waiting job would fill the queue for ever; a
\* waiting job without an attempt left would be tried once too often.
WaitingIsClaimable ==
    \A k \in Keys : jobs[k].status = "pending" =>
        /\ ~jobs[k].cancel
        /\ jobs[k].attempt < MaxAttempts

\* lease_owner and lease_generation are what fences a worker that lost its
\* lease: no two workers ever hold the same generation of the same row, across
\* retries, recoveries and forced re-enqueues (which restart the attempts but
\* must not restart the generations).
FencingTokensUnique ==
    \A v, w \in Workers :
        v # w /\ Busy(v) /\ Busy(w) /\ worker[v].id = worker[w].id
            => worker[v].gen # worker[w].gen

\* A worker that may still settle a job works on the attempt the row counts:
\* the retry decision finishAttempt takes from its local copy is the one the
\* row would give.
HolderKnowsAttempt ==
    \A w \in Workers : \A k \in Keys :
        Holds(w, k) => worker[w].attempt = jobs[k].attempt

\* The queue limit is looked at before a job is inserted: what is active or
\* about to be inserted exceeds it by the forced re-enqueues, which do not look
\* at it, and on PostgreSQL by one job of every call that is overtaken between
\* its count and its insertion; on SQLite by nothing else.
OverrunBounded ==
    Cardinality(ActiveKeys) + Cardinality({e \in Enqueuers : counted[e] # NoKey})
        <= QueueLimit + forced + Cardinality(Enqueuers)

\* Cancellation wins over every normal completion (the comment in Complete): a
\* running job that is flagged, by an administrator or by supersession, stays
\* flagged, and when it stops running it is cancelled or stale (or its track
\* is deleted): never succeeded, failed or queued again, whoever ends it.
CancellationSticks ==
    [][\A k \in Keys :
        jobs[k].status = "running" /\ jobs[k].cancel =>
            \/ jobs'[k].status = "running" /\ jobs'[k].cancel
            \/ jobs'[k].status \in {"cancelled", "stale", "absent"}]_vars

\* A run whose lease is alive is ended by the worker that claimed it or by the
\* deletion of the track; recovery, supersession, administrators and other
\* workers never end it.
LiveLeaseRespected ==
    [][\A k \in Keys :
        jobs[k].live /\ jobs'[k].status # "running" =>
            \/ jobs'[k].status = "absent"
            \/ \E w \in Workers : Holds(w, k) /\ worker'[w] = Idle]_vars

\* A run ends with the result of the worker that claimed that very attempt: a
\* worker that was recovered, or whose row was settled, reset or replaced in
\* the meantime, changes nothing when it completes.
ResultMatchesAttempt ==
    [][\A w \in Workers : \A k \in Keys :
        /\ worker[w].pc = "completing"
        /\ worker'[w] # worker[w]
        /\ jobs'[k] # jobs[k]
        => /\ jobs[k].owner = w
           /\ jobs[k].id = worker[w].id
           /\ jobs[k].attempt = worker[w].attempt
           /\ jobs'[k].status = worker[w].result]_vars

-----------------------------------------------------------------------------
(* The inductive invariants behind the safety properties.                  *)

\* A row has a lease owner exactly while it runs, only a run is leased, and a
\* row that is not there has no attempts.
LeaseIsTheRun ==
    \A k \in Keys : /\ jobs[k].status = "running" <=> jobs[k].owner # NoWorker
                    /\ jobs[k].live => jobs[k].status = "running"
                    /\ jobs[k].status = "absent" => jobs[k].attempt = 0

\* What a worker is about to write: a retry only when an attempt is left, and
\* past a cancel flag only a status a cancellation may end in.
ResultsAreSound ==
    \A w \in Workers :
        /\ Busy(w) => worker[w].key \in Keys
        /\ worker[w].pc = "completing" =>
            /\ worker[w].result # "none"
            /\ worker[w].result = "pending" => worker[w].attempt < MaxAttempts
            /\ worker[w].bypass => worker[w].result \in {"cancelled", "stale"}

\* What every step of the queue preserves: waiting jobs are claimable, holders
\* know the attempt of their row, leases are runs, and results are sound.
QueueInv ==
    /\ TypeOK
    /\ WaitingIsClaimable
    /\ LeaseIsTheRun
    /\ HolderKnowsAttempt
    /\ ResultsAreSound

\* Primary keys are handed out once: a worker's copy names a row that was
\* inserted, at its own key, and its generation is not ahead of the row's.
CopiesTrailRows ==
    /\ \A k \in Keys : /\ jobs[k].id < nextId
                       /\ jobs[k].id = 0 <=> jobs[k].status = "absent"
    /\ \A j, k \in Keys :
        j # k /\ jobs[j].id = jobs[k].id => jobs[j].id = 0
    /\ \A w \in Workers : Busy(w) =>
        /\ worker[w].id \in 1..(nextId - 1)
        /\ \A k \in Keys : jobs[k].id = worker[w].id =>
            worker[w].key = k /\ worker[w].gen <= jobs[k].gen

\* Fencing tokens stay unique because copies trail their rows.
FencingInv == CopiesTrailRows /\ FencingTokensUnique

-----------------------------------------------------------------------------
(* Liveness.                                                               *)

\* Every job that is queued or running is settled some day (or deleted), even
\* if workers crash, leases expire, retries are delayed and database errors
\* lose completions: no job is retried for ever and none is forgotten.
JobsSettle ==
    \A k \in Keys : jobs[k].status \in Active ~> jobs[k].status \notin Active

-----------------------------------------------------------------------------
(* The rows implement the jobs of AnalysisJob.                             *)

PhaseOf(row) ==
    CASE row.status = "absent"                -> "none"
      [] row.status = "pending"               -> "waiting"
      [] row.status = "running" /\ ~row.cancel -> "trying"
      [] row.status = "running" /\ row.cancel  -> "stopping"
      [] row.status \in Terminal              -> "settled"

PublicJob == INSTANCE AnalysisJob WITH
    MaxTries <- MaxAttempts,
    phase <- [k \in Keys |-> PhaseOf(jobs[k])],
    tries <- [k \in Keys |-> jobs[k].attempt]

\* Every behaviour of the queue is one of AnalysisJob: tries are counted and
\* bounded per submission, a try that was asked to stop is the last one, and
\* only a submission brings a settled job back.
ImplementsAnalysisJob == PublicJob!Spec

-----------------------------------------------------------------------------
(* Promises of the documents the code does not keep.                       *)

\* Readme-EN.md: queue_limit is the "Backpressure limit for `pending + running`
\* jobs". It fails: forced submissions are not counted.
QueueBounded == Cardinality(ActiveKeys) <= QueueLimit

\* "Cancellation wins over every normal completion, including a retry that
\* races with an administrator request": when RequestCancellation, having
\* found the job active, returns, that job is not left to run unflagged.
CancellationWins ==
    [][\A a \in Admins :
        admin[a].pc # "idle" /\ admin'[a].pc = "idle" =>
            LET row == jobs'[admin[a].key] IN
            row.id = admin[a].id =>
                /\ row.status # "pending"
                /\ row.status = "running" => row.cancel]_vars
=============================================================================
