------------------------ MODULE AnalysisQueueProofs ------------------------
(***************************************************************************)
(* Proofs about AnalysisQueue for any keys, workers, callers and bounds:   *)
(* the queue invariant, then the fencing tokens and what no step does to   *)
(* a run.                                                                  *)
(***************************************************************************)
EXTENDS AnalysisQueue, FiniteSetTheorems, TLAPS

-----------------------------------------------------------------------------
(* Lemmas about the operators.                                             *)

\* finishAttempt writes a status of a settled job or a retry; it retries only
\* when an attempt is left, and a cancellation ends as cancelled or stale.
LEMMA StatusesSound ==
    ASSUME NEW control \in {"none", "cancelled", "failed"},
           NEW outcome \in AttemptOutcomes(control),
           NEW k \in Keys,
           NEW attempt \in 0..MaxAttempts,
           NEW status \in StatusesAfter(outcome, k, attempt)
    PROVE  /\ status \in {"pending"} \cup Terminal
           /\ status = "pending" => attempt < MaxAttempts
           /\ outcome = "cancelled" => status \in {"cancelled", "stale"}
<1>1. outcome \in {"ok", "stale", "cancelled", "retryable", "permanent"}
  BY DEF AttemptOutcomes
<1>2. CASE outcome = "ok"
  BY <1>2 DEF StatusesAfter, Terminal
<1>3. CASE outcome = "stale"
  BY <1>3 DEF StatusesAfter, Terminal
<1>4. CASE outcome = "cancelled"
  BY <1>4 DEF StatusesAfter, CancelledStatuses, Terminal
<1>5. CASE outcome = "retryable"
  BY <1>5 DEF StatusesAfter, Terminal
<1>6. CASE outcome = "permanent"
  BY <1>6 DEF StatusesAfter, Terminal
<1>7. QED
  BY <1>1, <1>2, <1>3, <1>4, <1>5, <1>6

\* The row operators keep the type of a row.
LEMMA RowTypes ==
    ASSUME NEW row \in Job
    PROVE  /\ NoJob \in Job
           /\ \A id \in Nat : NewJob(id) \in Job
           /\ ResetJob(row) \in Job
           /\ \A w \in Workers : row.attempt < MaxAttempts => ClaimedJob(row, w) \in Job
           /\ \A s \in Statuses : Release(row, s) \in Job /\ SettledJob(row, s) \in Job
<1>1. /\ "absent" \in Statuses /\ "pending" \in Statuses /\ "running" \in Statuses
      /\ 0 \in 0..MaxAttempts
  BY QueueConstants DEF Statuses, Active
<1>2. NoJob \in Job
  BY <1>1 DEF Job, NoJob
<1>3. \A id \in Nat : NewJob(id) \in Job
  BY <1>1 DEF Job, NoJob, NewJob
<1>4. ResetJob(row) \in Job
  BY <1>1 DEF Job, ResetJob
<1>5. ASSUME NEW w \in Workers, row.attempt < MaxAttempts
      PROVE  ClaimedJob(row, w) \in Job
  <2>1. row.attempt + 1 \in 0..MaxAttempts /\ row.gen + 1 \in Nat
    BY <1>5, QueueConstants DEF Job
  <2>2. QED
    BY <1>1, <2>1 DEF Job, ClaimedJob
<1>6. ASSUME NEW s \in Statuses
      PROVE  Release(row, s) \in Job /\ SettledJob(row, s) \in Job
  <2>1. Release(row, s) \in Job
    BY DEF Job, Release
  <2>2. (s # "pending") \in BOOLEAN
    OBVIOUS
  <2>3. QED
    BY <2>1, <2>2 DEF Job, SettledJob
<1>7. QED
  BY <1>2, <1>3, <1>4, <1>5, <1>6

\* What ends a run, or resets a settled row, leaves id and generation alone.
LEMMA RowIdentity ==
    ASSUME NEW row \in Job
    PROVE  /\ row.gen \in Nat
           /\ ResetJob(row).id = row.id
           /\ ResetJob(row).gen = row.gen
           /\ ResetJob(row).status = "pending"
           /\ \A s : /\ Release(row, s).id = row.id
                     /\ Release(row, s).gen = row.gen
                     /\ Release(row, s).status = s
           /\ \A s : /\ SettledJob(row, s).id = row.id
                     /\ SettledJob(row, s).gen = row.gen
                     /\ SettledJob(row, s).status = s
<1>1. row.gen \in Nat
  BY DEF Job
<1>2. /\ ResetJob(row).id = row.id
      /\ ResetJob(row).gen = row.gen
      /\ ResetJob(row).status = "pending"
  BY DEF ResetJob, Job
<1>3. ASSUME NEW s
      PROVE  /\ Release(row, s).id = row.id
             /\ Release(row, s).gen = row.gen
             /\ Release(row, s).status = s
  BY DEF Release, Job
<1>4. ASSUME NEW s
      PROVE  /\ SettledJob(row, s).id = row.id
             /\ SettledJob(row, s).gen = row.gen
             /\ SettledJob(row, s).status = s
  BY DEF SettledJob, Release, Job
<1>5. QED
  BY <1>1, <1>2, <1>3, <1>4

-----------------------------------------------------------------------------
(* The queue invariant, row by row and copy by copy.                       *)

RowOK(row) ==
    /\ row \in Job
    /\ row.status = "pending" => ~row.cancel /\ row.attempt < MaxAttempts
    /\ row.status = "running" <=> row.owner # NoWorker
    /\ row.live => row.status = "running"
    /\ row.status = "absent" => row.attempt = 0

CopyOK(copy) ==
    /\ copy \in WorkerState
    /\ copy.pc \in {"running", "completing", "diagnosing"} => copy.key \in Keys
    /\ copy.pc = "completing" =>
        /\ copy.result # "none"
        /\ copy.result = "pending" => copy.attempt < MaxAttempts
        /\ copy.bypass => copy.result \in {"cancelled", "stale"}

RowsOK   == jobs \in [Keys -> Job] /\ \A k \in Keys : RowOK(jobs[k])
CopiesOK == worker \in [Workers -> WorkerState] /\ \A w \in Workers : CopyOK(worker[w])
CallersOK ==
    /\ admin \in [Admins -> CancelState]
    /\ scheduler \in [Schedulers -> SupersedeState]
    /\ nextId \in Nat \ {0}
    /\ forced \in 0..MaxForce
    /\ counted \in [Enqueuers -> Keys \cup {NoKey}]

\* The queue invariant says that every row, every copy and every caller is
\* sound, and that holders know the attempt of their row.
LEMMA QueueInvParts ==
    /\ QueueInv <=> RowsOK /\ CopiesOK /\ CallersOK /\ HolderKnowsAttempt
    /\ QueueInv' <=> RowsOK' /\ CopiesOK' /\ CallersOK' /\ HolderKnowsAttempt'
<1>1. RowsOK <=> jobs \in [Keys -> Job] /\ WaitingIsClaimable /\ LeaseIsTheRun
  <2>1. ASSUME jobs \in [Keys -> Job], WaitingIsClaimable, LeaseIsTheRun
        PROVE  RowsOK
    BY <2>1 DEF WaitingIsClaimable, LeaseIsTheRun, RowsOK, RowOK
  <2>2. ASSUME RowsOK
        PROVE  jobs \in [Keys -> Job] /\ WaitingIsClaimable /\ LeaseIsTheRun
    BY <2>2 DEF WaitingIsClaimable, LeaseIsTheRun, RowsOK, RowOK
  <2>3. QED
    BY <2>1, <2>2
<1>2. CopiesOK <=> worker \in [Workers -> WorkerState] /\ ResultsAreSound
  <2>1. ASSUME worker \in [Workers -> WorkerState], ResultsAreSound
        PROVE  CopiesOK
    BY <2>1 DEF ResultsAreSound, Busy, CopiesOK, CopyOK
  <2>2. ASSUME CopiesOK
        PROVE  worker \in [Workers -> WorkerState] /\ ResultsAreSound
    BY <2>2 DEF ResultsAreSound, Busy, CopiesOK, CopyOK
  <2>3. QED
    BY <2>1, <2>2
<1>3. QueueInv <=> RowsOK /\ CopiesOK /\ CallersOK /\ HolderKnowsAttempt
  BY <1>1, <1>2 DEF QueueInv, TypeOK, CallersOK
<1>4. QED
  BY <1>3, PTL

\* Each statement leaves a sound row sound.
LEMMA RowsStaySound ==
    ASSUME NEW row, RowOK(row)
    PROVE  /\ RowOK(NoJob)
           /\ \A id \in Nat : RowOK(NewJob(id))
           /\ RowOK(ResetJob(row))
           /\ \A w \in Workers : row.status = "pending" => RowOK(ClaimedJob(row, w))
           /\ \A s \in Terminal : RowOK(Release(row, s)) /\ RowOK(SettledJob(row, s))
           /\ ~row.cancel /\ row.attempt < MaxAttempts =>
                RowOK(Release(row, "pending")) /\ RowOK(SettledJob(row, "pending"))
           /\ row.status = "running" => RowOK([row EXCEPT !.cancel = TRUE])
           /\ row.status = "running" => RowOK([row EXCEPT !.live = TRUE])
           /\ RowOK([row EXCEPT !.live = FALSE])
           /\ RowOK([row EXCEPT !.due = TRUE])
           /\ row.status # "running" => RowOK([row EXCEPT !.status = "stale"])
           /\ row.status = "pending" =>
                RowOK([row EXCEPT !.status = "cancelled", !.cancel = TRUE])
<1> USE QueueConstants
<1>1. row \in Job
  BY DEF RowOK
<1>2. RowOK(NoJob) /\ \A id \in Nat : RowOK(NewJob(id))
  <2>1. NoJob \in Job /\ \A id \in Nat : NewJob(id) \in Job
    BY <1>1, RowTypes
  <2>2. RowOK(NoJob)
    BY <2>1 DEF RowOK, NoJob
  <2>3. ASSUME NEW id \in Nat
        PROVE  RowOK(NewJob(id))
    <3>1. /\ NewJob(id).status = "pending"
          /\ NewJob(id).cancel = FALSE
          /\ NewJob(id).attempt = 0
          /\ NewJob(id).owner = NoWorker
          /\ NewJob(id).live = FALSE
      BY DEF NewJob, NoJob
    <3>2. QED
      BY <2>1, <3>1 DEF RowOK
  <2>4. QED
    BY <2>2, <2>3
<1>3. RowOK(ResetJob(row))
  <2>1. ResetJob(row) \in Job
    BY <1>1, RowTypes
  <2>2. QED
    BY <1>1, <2>1 DEF RowOK, ResetJob, Job
<1>4. ASSUME NEW w \in Workers, row.status = "pending"
      PROVE  RowOK(ClaimedJob(row, w))
  <2>1. ClaimedJob(row, w) \in Job
    BY <1>1, <1>4, RowTypes DEF RowOK
  <2>2. w # NoWorker
    OBVIOUS
  <2>3. QED
    BY <1>1, <2>1, <2>2 DEF RowOK, ClaimedJob, Job
<1>5. ASSUME NEW s \in Terminal
      PROVE  RowOK(Release(row, s)) /\ RowOK(SettledJob(row, s))
  <2>1. Release(row, s) \in Job /\ SettledJob(row, s) \in Job
    BY <1>1, RowTypes DEF Statuses
  <2>2. s # "pending" /\ s # "running" /\ s # "absent"
    BY DEF Terminal
  <2>3. QED
    BY <1>1, <2>1, <2>2 DEF RowOK, Release, SettledJob, Job
<1>6. ASSUME ~row.cancel, row.attempt < MaxAttempts
      PROVE  RowOK(Release(row, "pending")) /\ RowOK(SettledJob(row, "pending"))
  <2>1. Release(row, "pending") \in Job /\ SettledJob(row, "pending") \in Job
    BY <1>1, RowTypes DEF Statuses, Active
  <2>2. QED
    BY <1>1, <1>6, <2>1 DEF RowOK, Release, SettledJob, Job
<1>7. /\ row.status = "running" => RowOK([row EXCEPT !.cancel = TRUE])
      /\ row.status = "running" => RowOK([row EXCEPT !.live = TRUE])
      /\ RowOK([row EXCEPT !.live = FALSE])
      /\ RowOK([row EXCEPT !.due = TRUE])
  BY <1>1 DEF RowOK, Job
<1>8. row.status # "running" => RowOK([row EXCEPT !.status = "stale"])
  BY <1>1 DEF RowOK, Job, Statuses, Terminal
<1>9. row.status = "pending" =>
        RowOK([row EXCEPT !.status = "cancelled", !.cancel = TRUE])
  BY <1>1 DEF RowOK, Job, Statuses, Terminal
<1>10. QED
  BY <1>2, <1>3, <1>4, <1>5, <1>6, <1>7, <1>8, <1>9

-----------------------------------------------------------------------------
(* The rows stay sound.                                                    *)

\* A statement that writes one row.
LEMMA OneRow ==
    ASSUME RowsOK,
           NEW k \in Keys,
           NEW row, RowOK(row),
           jobs' = [jobs EXCEPT ![k] = row]
    PROVE  RowsOK'
<1>1. row \in Job
  BY DEF RowOK
<1>2. jobs' \in [Keys -> Job]
  BY <1>1 DEF RowsOK
<1>3. \A j \in Keys : jobs'[j] = IF j = k THEN row ELSE jobs[j]
  BY DEF RowsOK
<1>4. \A j \in Keys : RowOK(jobs'[j])
  BY <1>3 DEF RowsOK
<1>5. QED
  BY <1>2, <1>4 DEF RowsOK

\* A statement that writes a set of rows.
LEMMA ManyRows ==
    ASSUME jobs' = [k \in Keys |-> jobs'[k]],
           \A k \in Keys : RowOK(jobs'[k])
    PROVE  RowsOK'
<1>1. \A k \in Keys : jobs'[k] \in Job
  BY DEF RowOK
<1>2. QED
  BY <1>1 DEF RowsOK

\* Complete writes a retry only over an unflagged row with an attempt left.
LEMMA CompletedRow ==
    ASSUME RowsOK, CopiesOK, HolderKnowsAttempt,
           NEW w \in Workers, worker[w].pc = "completing",
           MayComplete(w, worker[w].key)
    PROVE  /\ worker[w].key \in Keys
           /\ RowOK(SettledJob(jobs[worker[w].key], worker[w].result))
<1> DEFINE k == worker[w].key
           result == worker[w].result
<1>1. CopyOK(worker[w])
  BY DEF CopiesOK
<1>2. k \in Keys
  BY <1>1 DEF CopyOK
<1>3. RowOK(jobs[k])
  BY <1>2 DEF RowsOK
<1>4. result \in {"pending"} \cup Terminal
  BY <1>1 DEF CopyOK, WorkerState
<1>5. CASE result = "pending"
  <2>1. ~worker[w].bypass
    BY <1>1, <1>5 DEF CopyOK
  <2>2. ~jobs[k].cancel
    BY <2>1 DEF MayComplete
  <2>3. worker[w].attempt = jobs[k].attempt
    BY <1>2 DEF MayComplete, HolderKnowsAttempt
  <2>4. jobs[k].attempt < MaxAttempts
    BY <1>1, <1>5, <2>3 DEF CopyOK
  <2>5. RowOK(SettledJob(jobs[k], "pending"))
    BY <1>3, <2>2, <2>4, RowsStaySound
  <2>6. QED
    BY <1>2, <1>5, <2>5
<1>6. CASE result \in Terminal
  <2>1. RowOK(SettledJob(jobs[k], result))
    BY <1>3, <1>6, RowsStaySound
  <2>2. QED
    BY <1>2, <2>1
<1>7. QED
  BY <1>4, <1>5, <1>6

LEMMA RowsStep ==
    ASSUME RowsOK, CopiesOK, CallersOK, HolderKnowsAttempt, [Next]_vars
    PROVE  RowsOK'
<1>0. \A k \in Keys : RowOK(jobs[k])
  BY DEF RowsOK
<1>1. CASE UNCHANGED jobs
  BY <1>1 DEF RowsOK
<1>2. ASSUME NEW k \in Keys, Enqueue(k)
      PROVE  RowsOK'
  <2>1. RowOK(NewJob(nextId))
    BY <1>0, RowsStaySound DEF CallersOK
  <2>2. QED
    BY <1>2, <2>1, OneRow DEF Enqueue
<1>3. ASSUME NEW k \in Keys, EnqueueForced(k)
      PROVE  RowsOK'
  <2>1. RowOK(ResetJob(jobs[k]))
    BY <1>0, RowsStaySound
  <2>2. QED
    BY <1>3, <2>1, OneRow DEF EnqueueForced
<1>4. ASSUME NEW w \in Workers, ClaimNext(w)
      PROVE  RowsOK'
  <2>1. PICK k \in Keys : /\ NextInLine(k)
                          /\ jobs' = [jobs EXCEPT ![k] = ClaimedJob(@, w)]
    BY <1>4 DEF ClaimNext
  <2>2. jobs[k].status = "pending"
    BY <2>1 DEF NextInLine, Claimable
  <2>3. RowOK(ClaimedJob(jobs[k], w))
    BY <1>0, <2>2, RowsStaySound
  <2>4. QED
    BY <2>1, <2>3, OneRow
<1>5. ASSUME NEW w \in Workers, HeartbeatUpdate(w)
      PROVE  RowsOK'
  <2> DEFINE k == worker[w].key
  <2>1. CASE UNCHANGED jobs
    BY <2>1, <1>1
  <2>2. CASE Holds(w, k) /\ jobs' = [jobs EXCEPT ![k].live = TRUE]
    <3>1. k \in Keys
      BY <1>5 DEF HeartbeatUpdate, CopiesOK, CopyOK
    <3>2. RowOK([jobs[k] EXCEPT !.live = TRUE])
      BY <1>0, <2>2, <3>1, RowsStaySound DEF Holds
    <3>3. QED
      BY <2>2, <3>1, <3>2, OneRow
  <2>3. QED
    BY <1>5, <2>1, <2>2 DEF HeartbeatUpdate
<1>6. ASSUME NEW w \in Workers, Complete(w)
      PROVE  RowsOK'
  <2> DEFINE k == worker[w].key
  <2>1. CASE UNCHANGED jobs
    BY <2>1, <1>1
  <2>2. CASE MayComplete(w, k) /\ jobs' = [jobs EXCEPT ![k] = SettledJob(@, worker[w].result)]
    <3>1. k \in Keys /\ RowOK(SettledJob(jobs[k], worker[w].result))
      BY <1>6, <2>2, CompletedRow DEF Complete
    <3>2. QED
      BY <2>2, <3>1, OneRow
  <2>3. QED
    BY <1>6, <2>1, <2>2 DEF Complete
<1>7. ASSUME NEW w \in Workers, RecoverCancelled(w)
      PROVE  RowsOK'
  <2>1. \A k \in Keys : RowOK(Release(jobs[k], "cancelled"))
    BY <1>0, RowsStaySound DEF Terminal
  <2>2. \A k \in Keys : RowOK(jobs'[k])
    BY <1>0, <1>7, <2>1 DEF RecoverCancelled
  <2>3. QED
    BY <1>7, <2>2, ManyRows DEF RecoverCancelled
<1>8. ASSUME NEW w \in Workers, RecoverExhausted(w)
      PROVE  RowsOK'
  <2>1. \A k \in Keys : RowOK(Release(jobs[k], "failed"))
    BY <1>0, RowsStaySound DEF Terminal
  <2>2. \A k \in Keys : RowOK(jobs'[k])
    BY <1>0, <1>8, <2>1 DEF RecoverExhausted
  <2>3. QED
    BY <1>8, <2>2, ManyRows DEF RecoverExhausted
<1>9. ASSUME NEW w \in Workers, RecoverRetryable(w)
      PROVE  RowsOK'
  <2>1. ASSUME NEW k \in Keys, ~jobs[k].cancel, jobs[k].attempt < MaxAttempts
        PROVE  RowOK([Release(jobs[k], "pending") EXCEPT !.due = TRUE])
    <3>1. RowOK(Release(jobs[k], "pending"))
      BY <1>0, <2>1, RowsStaySound
    <3>2. QED
      BY <3>1, RowsStaySound
  <2>2. \A k \in Keys : RowOK(jobs'[k])
    BY <1>0, <1>9, <2>1 DEF RecoverRetryable
  <2>3. QED
    BY <1>9, <2>2, ManyRows DEF RecoverRetryable
<1>10. ASSUME NEW a \in Admins, CancelPending(a)
       PROVE  RowsOK'
  <2> DEFINE k == admin[a].key
  <2>1. CASE UNCHANGED jobs
    BY <2>1, <1>1
  <2>2. CASE /\ jobs[k].status = "pending"
             /\ jobs' = [jobs EXCEPT ![k].status = "cancelled", ![k].cancel = TRUE]
    <3>1. CASE k \notin Keys
      <4>1. jobs' = jobs
        BY <2>2, <3>1 DEF RowsOK
      <4>2. QED
        BY <4>1, <1>1
    <3>2. CASE k \in Keys
      <4>1. RowOK([jobs[k] EXCEPT !.status = "cancelled", !.cancel = TRUE])
        BY <1>0, <2>2, <3>2, RowsStaySound
      <4>2. jobs' = [jobs EXCEPT ![k] = [jobs[k] EXCEPT !.status = "cancelled", !.cancel = TRUE]]
        BY <2>2, <3>2 DEF RowsOK
      <4>3. QED
        BY <3>2, <4>1, <4>2, OneRow
    <3>3. QED
      BY <3>1, <3>2
  <2>3. QED
    BY <1>10, <2>1, <2>2 DEF CancelPending
<1>11. ASSUME NEW a \in Admins, CancelRunning(a)
       PROVE  RowsOK'
  <2> DEFINE k == admin[a].key
  <2>1. CASE UNCHANGED jobs
    BY <2>1, <1>1
  <2>2. CASE jobs[k].status = "running" /\ jobs' = [jobs EXCEPT ![k].cancel = TRUE]
    <3>1. CASE k \notin Keys
      <4>1. jobs' = jobs
        BY <2>2, <3>1 DEF RowsOK
      <4>2. QED
        BY <4>1, <1>1
    <3>2. CASE k \in Keys
      <4>1. RowOK([jobs[k] EXCEPT !.cancel = TRUE])
        BY <1>0, <2>2, <3>2, RowsStaySound
      <4>2. QED
        BY <2>2, <3>2, <4>1, OneRow
    <3>3. QED
      BY <3>1, <3>2
  <2>3. QED
    BY <1>11, <2>1, <2>2 DEF CancelRunning
<1>12. ASSUME NEW s \in Schedulers, SupersedeRunning(s)
       PROVE  RowsOK'
  <2>1. PICK K : jobs' = [k \in Keys |->
                            IF k \in K /\ jobs[k].status = "running"
                            THEN [jobs[k] EXCEPT !.cancel = TRUE] ELSE jobs[k]]
    BY <1>12 DEF SupersedeRunning
  <2>2. \A k \in Keys : jobs[k].status = "running" => RowOK([jobs[k] EXCEPT !.cancel = TRUE])
    BY <1>0, RowsStaySound
  <2>3. \A k \in Keys : RowOK(jobs'[k])
    BY <1>0, <2>1, <2>2
  <2>4. QED
    BY <2>1, <2>3, ManyRows
<1>13. ASSUME NEW s \in Schedulers, SupersedeOthers(s)
       PROVE  RowsOK'
  <2>1. \A k \in Keys : jobs[k].status # "running" => RowOK([jobs[k] EXCEPT !.status = "stale"])
    BY <1>0, RowsStaySound
  <2>2. \A k \in Keys : RowOK(jobs'[k])
    BY <1>0, <1>13, <2>1 DEF SupersedeOthers
  <2>3. QED
    BY <1>13, <2>2, ManyRows DEF SupersedeOthers
<1>14. ASSUME NEW m \in Musics, DeleteMusic(m)
       PROVE  RowsOK'
  <2>1. \A k \in Keys : RowOK(NoJob)
    BY <1>0, RowsStaySound
  <2>2. \A k \in Keys : RowOK(jobs'[k])
    BY <1>0, <1>14, <2>1 DEF DeleteMusic
  <2>3. QED
    BY <1>14, <2>2, ManyRows DEF DeleteMusic
<1>15. ASSUME NEW k \in Keys, LeaseExpires(k)
       PROVE  RowsOK'
  <2>1. RowOK([jobs[k] EXCEPT !.live = FALSE])
    BY <1>0, RowsStaySound
  <2>2. QED
    BY <1>15, <2>1, OneRow DEF LeaseExpires
<1>16. ASSUME NEW k \in Keys, BecomesDue(k)
       PROVE  RowsOK'
  <2>1. RowOK([jobs[k] EXCEPT !.due = TRUE])
    BY <1>0, RowsStaySound
  <2>2. QED
    BY <1>16, <2>1, OneRow DEF BecomesDue
<1>17. QED
  BY <1>1, <1>2, <1>3, <1>4, <1>5, <1>6, <1>7, <1>8, <1>9, <1>10, <1>11, <1>12,
     <1>13, <1>14, <1>15, <1>16
     DEF Next, Attempt, Recover, HeartbeatRead, HeartbeatError, AttemptEnds, Diagnose,
         CompleteError, RecoverError, Crash, CancelRead, vars, EnqueueCounts, EnqueueGivesUp

-----------------------------------------------------------------------------
(* The copies the workers hold stay sound.                                 *)

\* Every step of a worker writes its own copy.
LEMMA OneCopy ==
    ASSUME CopiesOK,
           NEW w \in Workers,
           NEW copy, CopyOK(copy),
           worker' = [worker EXCEPT ![w] = copy]
    PROVE  CopiesOK'
<1>1. copy \in WorkerState
  BY DEF CopyOK
<1>2. worker' \in [Workers -> WorkerState]
  BY <1>1 DEF CopiesOK
<1>3. \A v \in Workers : worker'[v] = IF v = w THEN copy ELSE worker[v]
  BY DEF CopiesOK
<1>4. \A v \in Workers : CopyOK(worker'[v])
  BY <1>3 DEF CopiesOK
<1>5. QED
  BY <1>2, <1>4 DEF CopiesOK

\* The writes that need no more than the copy itself.
LEMMA CopiesStaySound ==
    ASSUME NEW copy, CopyOK(copy)
    PROVE  /\ CopyOK(Idle)
           /\ CopyOK(Down)
           /\ \A b \in BOOLEAN : \A c \in {"none", "cancelled", "failed"} :
                CopyOK([copy EXCEPT !.beating = b, !.control = c])
           /\ \A pc \in {"fail_expired", "retry_expired"} : CopyOK([copy EXCEPT !.pc = pc])
           /\ copy.key \in Keys => CopyOK([copy EXCEPT !.pc = "diagnosing"])
           /\ copy.key \in Keys =>
                \A r \in {"pending"} \cup Terminal : \A b \in BOOLEAN :
                    /\ r = "pending" => copy.attempt < MaxAttempts
                    /\ b => r \in {"cancelled", "stale"}
                    => CopyOK([copy EXCEPT !.pc = "completing", !.result = r, !.bypass = b])
<1>1. copy \in WorkerState
  BY DEF CopyOK
<1>2. 0 \in 0..MaxAttempts
  BY QueueConstants
<1>3. Idle \in WorkerState /\ Idle.pc = "idle"
  BY <1>2 DEF Idle, WorkerState
<1>4. Down \in WorkerState /\ Down.pc = "down"
  BY <1>3 DEF Down, Idle, WorkerState
<1>5. CopyOK(Idle) /\ CopyOK(Down)
  BY <1>3, <1>4 DEF CopyOK
<1>6. ASSUME NEW b \in BOOLEAN, NEW c \in {"none", "cancelled", "failed"}
      PROVE  CopyOK([copy EXCEPT !.beating = b, !.control = c])
  BY <1>1, <1>6 DEF CopyOK, WorkerState
<1>7. ASSUME NEW pc \in {"fail_expired", "retry_expired"}
      PROVE  CopyOK([copy EXCEPT !.pc = pc])
  BY <1>1, <1>7 DEF CopyOK, WorkerState
<1>8. copy.key \in Keys => CopyOK([copy EXCEPT !.pc = "diagnosing"])
  BY <1>1 DEF CopyOK, WorkerState
<1>9. ASSUME copy.key \in Keys,
             NEW r \in {"pending"} \cup Terminal, NEW b \in BOOLEAN,
             r = "pending" => copy.attempt < MaxAttempts,
             b => r \in {"cancelled", "stale"}
      PROVE  CopyOK([copy EXCEPT !.pc = "completing", !.result = r, !.bypass = b])
  <2>1. [copy EXCEPT !.pc = "completing", !.result = r, !.bypass = b] \in WorkerState
    BY <1>1, <1>9 DEF WorkerState
  <2>2. r # "none"
    BY DEF Terminal
  <2>3. QED
    BY <1>1, <1>9, <2>1, <2>2 DEF CopyOK, WorkerState
<1>10. QED
  BY <1>5, <1>6, <1>7, <1>8, <1>9

LEMMA CopiesStep ==
    ASSUME RowsOK, CopiesOK, [Next]_vars
    PROVE  CopiesOK'
<1>0. \A w \in Workers : CopyOK(worker[w]) /\ worker[w] \in WorkerState
  BY DEF CopiesOK
<1>1. CASE UNCHANGED worker
  BY <1>1 DEF CopiesOK
<1>2. ASSUME NEW w \in Workers, worker' = [worker EXCEPT ![w] = Idle]
      PROVE  CopiesOK'
  BY <1>0, <1>2, CopiesStaySound, OneCopy
<1>3. ASSUME NEW w \in Workers, ClaimNext(w)
      PROVE  CopiesOK'
  <2>1. PICK k \in Keys :
          /\ NextInLine(k)
          /\ worker' = [worker EXCEPT ![w] =
                [Idle EXCEPT !.pc = "running", !.key = k, !.id = jobs[k].id,
                             !.gen = jobs[k].gen + 1, !.attempt = jobs[k].attempt + 1]]
    BY <1>3 DEF ClaimNext
  <2>2. jobs[k].status = "pending"
    BY <2>1 DEF NextInLine, Claimable
  <2>3. jobs[k] \in Job /\ jobs[k].attempt < MaxAttempts
    BY <2>2 DEF RowsOK, RowOK
  <2>4. /\ jobs[k].id \in Nat
        /\ jobs[k].gen + 1 \in Nat
        /\ jobs[k].attempt + 1 \in 0..MaxAttempts
    BY <2>3, QueueConstants DEF Job
  <2> DEFINE copy == [Idle EXCEPT !.pc = "running", !.key = k, !.id = jobs[k].id,
                                  !.gen = jobs[k].gen + 1, !.attempt = jobs[k].attempt + 1]
  <2>5. copy \in WorkerState /\ copy.pc = "running" /\ copy.key \in Keys
    BY <2>4 DEF Idle, WorkerState
  <2>6. CopyOK(copy)
    BY <2>5 DEF CopyOK
  <2>7. QED
    BY <2>1, <2>6, OneCopy
<1>4. ASSUME NEW w \in Workers, NEW b \in BOOLEAN,
             NEW c \in {"none", "cancelled", "failed"},
             worker' = [worker EXCEPT ![w].beating = b, ![w].control = c]
      PROVE  CopiesOK'
  <2>1. CopyOK([worker[w] EXCEPT !.beating = b, !.control = c])
    BY <1>0, CopiesStaySound
  <2>2. worker' = [worker EXCEPT ![w] = [worker[w] EXCEPT !.beating = b, !.control = c]]
    BY <1>4 DEF CopiesOK
  <2>3. QED
    BY <2>1, <2>2, OneCopy
<1>5. ASSUME NEW w \in Workers, HeartbeatUpdate(w)
      PROVE  CopiesOK'
  <2>1. worker[w].beating = FALSE /\ worker[w].control = "none"
    BY <1>0, <1>5 DEF HeartbeatUpdate, WorkerState
  <2>2. CASE worker' = [worker EXCEPT ![w].beating = TRUE]
    <3>1. CopyOK([worker[w] EXCEPT !.beating = TRUE])
      BY <1>0 DEF CopyOK, WorkerState
    <3>2. QED
      BY <2>2, <3>1, OneCopy
  <2>3. CASE worker' = [worker EXCEPT ![w].control = "failed"]
    <3>1. CopyOK([worker[w] EXCEPT !.control = "failed"])
      BY <1>0 DEF CopyOK, WorkerState
    <3>2. QED
      BY <2>3, <3>1, OneCopy
  <2>4. QED
    BY <1>5, <2>2, <2>3 DEF HeartbeatUpdate
<1>6. ASSUME NEW w \in Workers, HeartbeatRead(w)
      PROVE  CopiesOK'
  <2>1. PICK c \in {"none", "cancelled", "failed"} :
          worker' = [worker EXCEPT ![w].beating = FALSE, ![w].control = c]
    BY <1>6 DEF HeartbeatRead
  <2>2. QED
    BY <1>4, <2>1
<1>7. ASSUME NEW w \in Workers, HeartbeatError(w)
      PROVE  CopiesOK'
  BY <1>4, <1>7 DEF HeartbeatError
<1>8. ASSUME NEW w \in Workers, AttemptEnds(w)
      PROVE  CopiesOK'
  <2>1. PICK outcome \in AttemptOutcomes(worker[w].control) :
        \E status \in StatusesAfter(outcome, worker[w].key, worker[w].attempt) :
            worker' = [worker EXCEPT ![w].pc = "completing",
                                     ![w].result = status,
                                     ![w].bypass = (outcome = "cancelled")]
    BY <1>8 DEF AttemptEnds
  <2>2. PICK status \in StatusesAfter(outcome, worker[w].key, worker[w].attempt) :
            worker' = [worker EXCEPT ![w].pc = "completing",
                                     ![w].result = status,
                                     ![w].bypass = (outcome = "cancelled")]
    BY <2>1
  <2>3. /\ worker[w].key \in Keys
        /\ worker[w].control \in {"none", "cancelled", "failed"}
        /\ worker[w].attempt \in 0..MaxAttempts
    BY <1>0, <1>8 DEF AttemptEnds, CopyOK, WorkerState
  <2>4. /\ status \in {"pending"} \cup Terminal
        /\ status = "pending" => worker[w].attempt < MaxAttempts
        /\ outcome = "cancelled" => status \in {"cancelled", "stale"}
    BY <2>3, StatusesSound
  <2> DEFINE b == (outcome = "cancelled")
  <2>5. b \in BOOLEAN
    OBVIOUS
  <2>6. CopyOK([worker[w] EXCEPT !.pc = "completing", !.result = status, !.bypass = b])
    BY <1>0, <2>3, <2>4, <2>5, CopiesStaySound
  <2>7. worker' = [worker EXCEPT ![w] =
                     [worker[w] EXCEPT !.pc = "completing", !.result = status, !.bypass = b]]
    BY <2>2 DEF CopiesOK
  <2>8. QED
    BY <2>6, <2>7, OneCopy
<1>9. ASSUME NEW w \in Workers, Complete(w)
      PROVE  CopiesOK'
  <2>1. CASE worker' = [worker EXCEPT ![w] = Idle]
    BY <1>2, <2>1
  <2>2. CASE worker' = [worker EXCEPT ![w].pc = "diagnosing"]
    <3>1. worker[w].key \in Keys
      BY <1>0, <1>9 DEF Complete, CopyOK
    <3>2. CopyOK([worker[w] EXCEPT !.pc = "diagnosing"])
      BY <1>0, <3>1, CopiesStaySound
    <3>3. QED
      BY <2>2, <3>2, OneCopy
  <2>3. QED
    BY <1>9, <2>1, <2>2 DEF Complete
<1>10. ASSUME NEW w \in Workers, Diagnose(w)
       PROVE  CopiesOK'
  <2>1. CASE worker' = [worker EXCEPT ![w] = Idle]
    BY <1>2, <2>1
  <2>2. CASE \E status \in CancelledStatuses(worker[w].key) :
                worker' = [worker EXCEPT ![w].pc = "completing",
                                         ![w].result = status, ![w].bypass = TRUE]
    <3>1. PICK status \in CancelledStatuses(worker[w].key) :
                worker' = [worker EXCEPT ![w].pc = "completing",
                                         ![w].result = status, ![w].bypass = TRUE]
      BY <2>2
    <3>2. status \in {"cancelled", "stale"}
      BY DEF CancelledStatuses
    <3>3. worker[w].key \in Keys
      BY <1>0, <1>10 DEF Diagnose, CopyOK
    <3>4. CopyOK([worker[w] EXCEPT !.pc = "completing", !.result = status, !.bypass = TRUE])
      BY <1>0, <3>2, <3>3, CopiesStaySound DEF Terminal
    <3>5. worker' = [worker EXCEPT ![w] =
                [worker[w] EXCEPT !.pc = "completing", !.result = status, !.bypass = TRUE]]
      BY <3>1 DEF CopiesOK
    <3>6. QED
      BY <3>4, <3>5, OneCopy
  <2>3. QED
    BY <1>10, <2>1, <2>2 DEF Diagnose
<1>11. ASSUME NEW w \in Workers, RecoverCancelled(w) \/ RecoverExhausted(w)
       PROVE  CopiesOK'
  <2>1. PICK pc \in {"fail_expired", "retry_expired"} :
          worker' = [worker EXCEPT ![w].pc = pc]
    BY <1>11 DEF RecoverCancelled, RecoverExhausted
  <2>2. CopyOK([worker[w] EXCEPT !.pc = pc])
    BY <1>0, CopiesStaySound
  <2>3. QED
    BY <2>1, <2>2, OneCopy
<1>12. ASSUME NEW w \in Workers, Crash(w)
       PROVE  CopiesOK'
  BY <1>0, <1>12, CopiesStaySound, OneCopy DEF Crash
<1>13. QED
  BY <1>1, <1>2, <1>3, <1>5, <1>6, <1>7, <1>8, <1>9, <1>10, <1>11, <1>12
     DEF Next, Attempt, Recover, CompleteError, RecoverRetryable, RecoverError, vars, EnqueueCounts, EnqueueGivesUp,
         Enqueue, EnqueueForced, CancelRead, CancelPending, CancelRunning,
         SupersedeRunning, SupersedeOthers, DeleteMusic, LeaseExpires, BecomesDue

-----------------------------------------------------------------------------
(* The callers.                                                            *)

LEMMA CallersStep ==
    ASSUME RowsOK, CallersOK, [Next]_vars
    PROVE  CallersOK'
<1>1. CASE UNCHANGED <<admin, scheduler, nextId, forced, counted>>
  BY <1>1 DEF CallersOK
<1>2. ASSUME NEW k \in Keys, Enqueue(k)
      PROVE  CallersOK'
  <2>1. counted' \in [Enqueuers -> Keys \cup {NoKey}]
    BY <1>2 DEF CallersOK, Enqueue
  <2>2. QED
    BY <1>2, <2>1 DEF CallersOK, Enqueue
<1>3. ASSUME NEW k \in Keys, EnqueueForced(k)
      PROVE  CallersOK'
  <2>1. forced + 1 \in 0..MaxForce
    BY <1>3, QueueConstants DEF CallersOK, EnqueueForced
  <2>2. QED
    BY <1>3, <2>1 DEF CallersOK, EnqueueForced
<1>4. ASSUME NEW a \in Admins, NEW k \in Keys, CancelRead(a, k)
      PROVE  CallersOK'
  <2>1. jobs[k].id \in Nat /\ jobs[k].status \in {"pending", "running"}
    BY <1>4 DEF CancelRead, Active, RowsOK, Job
  <2>2. [pc |-> jobs[k].status, key |-> k, id |-> jobs[k].id] \in CancelState
    BY <2>1 DEF CancelState
  <2>3. QED
    BY <1>4, <2>2 DEF CallersOK, CancelRead
<1>5. NoCancel \in CancelState /\ NoSupersede \in SupersedeState
  BY DEF NoCancel, CancelState, NoSupersede, SupersedeState
<1>6. ASSUME NEW a \in Admins, CancelPending(a)
      PROVE  CallersOK'
  <2>1. [admin[a] EXCEPT !.pc = "running"] \in CancelState
    BY DEF CallersOK, CancelState
  <2>2. admin' \in [Admins -> CancelState]
    BY <1>5, <1>6, <2>1 DEF CallersOK, CancelPending
  <2>3. QED
    BY <1>6, <2>2 DEF CallersOK, CancelPending
<1>7. ASSUME NEW a \in Admins, CancelRunning(a)
      PROVE  CallersOK'
  BY <1>5, <1>7 DEF CallersOK, CancelRunning
<1>8. ASSUME NEW s \in Schedulers, SupersedeRunning(s)
      PROVE  CallersOK'
  <2>1. PICK K \in SUBSET AudioKeys :
          scheduler' = [scheduler EXCEPT ![s] = [pc |-> "settle", keys |-> K]]
    BY <1>8 DEF SupersedeRunning
  <2>2. [pc |-> "settle", keys |-> K] \in SupersedeState
    BY DEF SupersedeState
  <2>3. QED
    BY <1>8, <2>1, <2>2 DEF CallersOK, SupersedeRunning
<1>9. ASSUME NEW s \in Schedulers, SupersedeOthers(s)
      PROVE  CallersOK'
  BY <1>5, <1>9 DEF CallersOK, SupersedeOthers
<1>10. ASSUME NEW e \in Enqueuers, EnqueueGivesUp(e) \/ \E k \in Keys : EnqueueCounts(e, k)
       PROVE  CallersOK'
  BY <1>10 DEF CallersOK, EnqueueGivesUp, EnqueueCounts
<1>11. QED
  BY <1>1, <1>2, <1>3, <1>4, <1>6, <1>7, <1>8, <1>9, <1>10
     DEF Next, Attempt, Recover, ClaimNext, HeartbeatUpdate, HeartbeatRead,
         HeartbeatError, AttemptEnds, Complete, Diagnose, CompleteError,
         RecoverCancelled, RecoverExhausted, RecoverRetryable, RecoverError, Crash,
         DeleteMusic, LeaseExpires, BecomesDue, vars, EnqueueCounts, EnqueueGivesUp

-----------------------------------------------------------------------------
(* What one step does to one row.                                          *)

Inserted(k) ==
    /\ Enqueue(k)
    /\ jobs[k].status = "absent"
    /\ jobs'[k] = NewJob(nextId)

Reset(k) ==
    /\ EnqueueForced(k)
    /\ jobs[k].status \in Terminal
    /\ jobs'[k] = ResetJob(jobs[k])

Claimed(k) ==
    /\ k \in Claimable
    /\ \E w \in Workers : ClaimNext(w) /\ jobs'[k] = ClaimedJob(jobs[k], w)

\* The lease or the delay of the row changes, and nothing else.
Ticked(k) ==
    \/ jobs'[k] = jobs[k]
    \/ jobs'[k] = [jobs[k] EXCEPT !.live = TRUE]
    \/ jobs'[k] = [jobs[k] EXCEPT !.live = FALSE]
    \/ jobs'[k] = [jobs[k] EXCEPT !.due = TRUE]

Completed(k) ==
    \E w \in Workers :
        /\ worker[w].pc = "completing"
        /\ MayComplete(w, k)
        /\ jobs'[k] = SettledJob(jobs[k], worker[w].result)
        /\ worker'[w] = Idle

Recovered(k) ==
    /\ Expired(jobs[k])
    /\ \/ jobs[k].cancel /\ jobs'[k] = Release(jobs[k], "cancelled")
       \/ ~jobs[k].cancel /\ jobs'[k] = Release(jobs[k], "failed")
       \/ /\ ~jobs[k].cancel
          /\ jobs[k].attempt < MaxAttempts
          /\ jobs'[k] = [Release(jobs[k], "pending") EXCEPT !.due = TRUE]

Flagged(k) ==
    \/ /\ jobs[k].status = "pending"
       /\ jobs'[k] = [jobs[k] EXCEPT !.status = "cancelled", !.cancel = TRUE]
    \/ /\ jobs[k].status = "running"
       /\ jobs'[k] = [jobs[k] EXCEPT !.cancel = TRUE]

Superseded(k) ==
    /\ jobs[k].status \in {"pending", "succeeded", "failed"}
    /\ jobs'[k] = [jobs[k] EXCEPT !.status = "stale"]

Removed(k) ==
    /\ \E m \in Musics : DeleteMusic(m)
    /\ jobs'[k] = NoJob

RowStep(k) ==
    \/ Inserted(k)
    \/ Reset(k)
    \/ Claimed(k)
    \/ Ticked(k)
    \/ Completed(k)
    \/ Recovered(k)
    \/ Flagged(k)
    \/ Superseded(k)
    \/ Removed(k)

LEMMA RowSteps ==
    ASSUME RowsOK, CopiesOK, [Next]_vars, NEW k \in Keys
    PROVE  RowStep(k)
<1>0. jobs \in [Keys -> Job]
  BY DEF RowsOK
<1>a. ASSUME jobs'[k] = jobs[k]
      PROVE  RowStep(k)
  BY <1>a DEF RowStep, Ticked
<1>1. ASSUME NEW j \in Keys, Enqueue(j)
      PROVE  RowStep(k)
  <2>1. CASE j = k
    <3>1. jobs[k].status = "absent" /\ jobs'[k] = NewJob(nextId)
      BY <1>0, <1>1, <2>1 DEF Enqueue
    <3>2. QED
      BY <1>1, <2>1, <3>1 DEF RowStep, Inserted
  <2>2. CASE j # k
    BY <1>0, <1>1, <1>a, <2>2 DEF Enqueue
  <2>3. QED
    BY <2>1, <2>2
<1>2. ASSUME NEW j \in Keys, EnqueueForced(j)
      PROVE  RowStep(k)
  <2>1. CASE j = k
    <3>1. jobs[k].status \in Terminal /\ jobs'[k] = ResetJob(jobs[k])
      BY <1>0, <1>2, <2>1 DEF EnqueueForced
    <3>2. QED
      BY <1>2, <2>1, <3>1 DEF RowStep, Reset
  <2>2. CASE j # k
    BY <1>0, <1>2, <1>a, <2>2 DEF EnqueueForced
  <2>3. QED
    BY <2>1, <2>2
<1>3. ASSUME NEW w \in Workers, ClaimNext(w)
      PROVE  RowStep(k)
  <2>1. PICK j \in Keys : /\ NextInLine(j)
                          /\ jobs' = [jobs EXCEPT ![j] = ClaimedJob(@, w)]
    BY <1>3 DEF ClaimNext
  <2>2. CASE j = k
    BY <1>0, <1>3, <2>1, <2>2 DEF NextInLine, RowStep, Claimed
  <2>3. CASE j # k
    BY <1>0, <1>a, <2>1, <2>3
  <2>4. QED
    BY <2>2, <2>3
<1>4. ASSUME NEW w \in Workers, HeartbeatUpdate(w)
      PROVE  RowStep(k)
  <2>1. \/ jobs' = jobs
        \/ jobs' = [jobs EXCEPT ![worker[w].key].live = TRUE]
    BY <1>4 DEF HeartbeatUpdate
  <2>2. QED
    BY <1>0, <2>1 DEF RowStep, Ticked
<1>5. ASSUME NEW w \in Workers, Complete(w)
      PROVE  RowStep(k)
  <2>1. CASE UNCHANGED jobs
    BY <1>a, <2>1
  <2>2. CASE /\ MayComplete(w, worker[w].key)
             /\ jobs' = [jobs EXCEPT ![worker[w].key] = SettledJob(@, worker[w].result)]
             /\ worker' = [worker EXCEPT ![w] = Idle]
    <3>1. CASE k = worker[w].key
      <4>1. jobs'[k] = SettledJob(jobs[k], worker[w].result)
        BY <1>0, <2>2, <3>1
      <4>2. worker'[w] = Idle
        BY <2>2 DEF CopiesOK
      <4>3. worker[w].pc = "completing" /\ MayComplete(w, k)
        BY <1>5, <2>2, <3>1 DEF Complete
      <4>4. QED
        BY <4>1, <4>2, <4>3 DEF RowStep, Completed
    <3>2. CASE k # worker[w].key
      BY <1>0, <1>a, <2>2, <3>2
    <3>3. QED
      BY <3>1, <3>2
  <2>3. QED
    BY <1>5, <2>1, <2>2 DEF Complete
<1>6. ASSUME NEW w \in Workers, RecoverCancelled(w)
      PROVE  RowStep(k)
  BY <1>6 DEF RecoverCancelled, RowStep, Recovered, Ticked
<1>7. ASSUME NEW w \in Workers, RecoverExhausted(w)
      PROVE  RowStep(k)
  BY <1>7 DEF RecoverExhausted, RowStep, Recovered, Ticked
<1>8. ASSUME NEW w \in Workers, RecoverRetryable(w)
      PROVE  RowStep(k)
  BY <1>8 DEF RecoverRetryable, RowStep, Recovered, Ticked
<1>9. ASSUME NEW a \in Admins, CancelPending(a) \/ CancelRunning(a)
      PROVE  RowStep(k)
  <2> DEFINE j == admin[a].key
  <2>1. \/ jobs' = jobs
        \/ /\ jobs[j].status = "pending"
           /\ jobs' = [jobs EXCEPT ![j].status = "cancelled", ![j].cancel = TRUE]
        \/ /\ jobs[j].status = "running"
           /\ jobs' = [jobs EXCEPT ![j].cancel = TRUE]
    BY <1>9 DEF CancelPending, CancelRunning
  <2>2. CASE j = k
    BY <1>0, <1>a, <2>1, <2>2 DEF RowStep, Flagged
  <2>3. CASE j # k
    BY <1>0, <1>a, <2>1, <2>3
  <2>4. QED
    BY <2>2, <2>3
<1>10. ASSUME NEW s \in Schedulers, SupersedeRunning(s)
       PROVE  RowStep(k)
  <2>1. \/ jobs'[k] = jobs[k]
        \/ jobs[k].status = "running" /\ jobs'[k] = [jobs[k] EXCEPT !.cancel = TRUE]
    BY <1>10 DEF SupersedeRunning
  <2>2. QED
    BY <1>a, <2>1 DEF RowStep, Flagged
<1>11. ASSUME NEW s \in Schedulers, SupersedeOthers(s)
       PROVE  RowStep(k)
  BY <1>11 DEF SupersedeOthers, RowStep, Superseded, Ticked
<1>12. ASSUME NEW m \in Musics, DeleteMusic(m)
       PROVE  RowStep(k)
  <2>1. jobs'[k] = NoJob \/ jobs'[k] = jobs[k]
    BY <1>12 DEF DeleteMusic
  <2>2. QED
    BY <1>12, <1>a, <2>1 DEF RowStep, Removed
<1>13. ASSUME NEW j \in Keys, LeaseExpires(j) \/ BecomesDue(j)
       PROVE  RowStep(k)
  BY <1>0, <1>13 DEF LeaseExpires, BecomesDue, RowStep, Ticked
<1>14. CASE UNCHANGED jobs
  BY <1>a, <1>14
<1>15. QED
  BY <1>1, <1>2, <1>3, <1>4, <1>5, <1>6, <1>7, <1>8, <1>9, <1>10, <1>11, <1>12, <1>13,
     <1>14
     DEF Next, Attempt, Recover, HeartbeatRead, HeartbeatError, AttemptEnds, Diagnose,
         CompleteError, RecoverError, Crash, CancelRead, vars, EnqueueCounts, EnqueueGivesUp

-----------------------------------------------------------------------------
(* Holders know the attempt of their row.                                  *)

\* No step but a claim starts a run: a row that runs after it ran before it,
\* under the same id, owner, generation and attempt, and stays flagged; a
\* worker that is busy after it was busy before it, with the same copy.
KeepsRun(k) ==
    jobs'[k].status = "running" =>
        /\ jobs[k].status = "running"
        /\ jobs'[k].id = jobs[k].id
        /\ jobs'[k].owner = jobs[k].owner
        /\ jobs'[k].gen = jobs[k].gen
        /\ jobs'[k].attempt = jobs[k].attempt

KeepsCopy(w) ==
    Busy(w)' =>
        /\ Busy(w)
        /\ worker'[w].key = worker[w].key
        /\ worker'[w].id = worker[w].id
        /\ worker'[w].gen = worker[w].gen
        /\ worker'[w].attempt = worker[w].attempt

LEMMA RunsKept ==
    ASSUME RowsOK, CopiesOK, [Next]_vars, NEW k \in Keys
    PROVE  Claimed(k) \/ KeepsRun(k)
<1>0. jobs[k] \in Job
  BY DEF RowsOK
<1>1. CASE Inserted(k) \/ Removed(k)
  <2>1. NewJob(nextId).status # "running" /\ NoJob.status # "running"
    BY DEF NewJob, NoJob
  <2>2. QED
    BY <1>1, <2>1 DEF Inserted, Removed, KeepsRun
<1>2. CASE Reset(k)
  BY <1>0, <1>2, RowIdentity DEF Reset, KeepsRun
<1>3. CASE Ticked(k) \/ Flagged(k) \/ Superseded(k)
  BY <1>0, <1>3 DEF Ticked, Flagged, Superseded, KeepsRun, Job
<1>4. CASE Completed(k)
  <2>1. PICK w \in Workers : /\ worker[w].pc = "completing"
                             /\ jobs'[k] = SettledJob(jobs[k], worker[w].result)
    BY <1>4 DEF Completed
  <2>2. worker[w].result # "running"
    BY DEF CopiesOK, WorkerState, Terminal
  <2>3. QED
    BY <1>0, <2>1, <2>2, RowIdentity DEF KeepsRun
<1>5. CASE Recovered(k)
  BY <1>0, <1>5 DEF Recovered, Release, KeepsRun, Job
<1>6. QED
  BY <1>1, <1>2, <1>3, <1>4, <1>5, RowSteps DEF RowStep

LEMMA CopiesKept ==
    ASSUME CopiesOK, [Next]_vars, NEW w \in Workers
    PROVE  ClaimNext(w) \/ KeepsCopy(w)
<1>0. worker \in [Workers -> WorkerState]
  BY DEF CopiesOK
<1>1. CASE UNCHANGED worker
  BY <1>1 DEF KeepsCopy, Busy
<1>2. ASSUME NEW v \in Workers, ClaimNext(v)
      PROVE  ClaimNext(w) \/ KeepsCopy(w)
  <2>1. v # w => worker'[w] = worker[w]
    BY <1>0, <1>2 DEF ClaimNext
  <2>2. QED
    BY <1>2, <2>1 DEF KeepsCopy, Busy
<1>3. ASSUME NEW v \in Workers,
             HeartbeatUpdate(v) \/ HeartbeatRead(v) \/ HeartbeatError(v)
      PROVE  KeepsCopy(w)
  BY <1>0, <1>3
     DEF HeartbeatUpdate, HeartbeatRead, HeartbeatError, KeepsCopy, Busy, WorkerState
<1>4. ASSUME NEW v \in Workers, AttemptEnds(v)
      PROVE  KeepsCopy(w)
  BY <1>0, <1>4 DEF AttemptEnds, KeepsCopy, Busy, WorkerState
<1>5. ASSUME NEW v \in Workers, Complete(v) \/ Diagnose(v) \/ CompleteError(v)
      PROVE  KeepsCopy(w)
  <2>1. CASE worker' = [worker EXCEPT ![v] = Idle]
    BY <1>0, <2>1 DEF Idle, KeepsCopy, Busy
  <2>2. CASE Complete(v)
    BY <1>0, <2>1, <2>2 DEF Complete, KeepsCopy, Busy, WorkerState
  <2>3. CASE Diagnose(v)
    <3>1. CASE \E status \in CancelledStatuses(worker[v].key) :
                 worker' = [worker EXCEPT ![v].pc = "completing",
                                          ![v].result = status, ![v].bypass = TRUE]
      <4>1. PICK status : worker' = [worker EXCEPT ![v].pc = "completing",
                                         ![v].result = status, ![v].bypass = TRUE]
        BY <3>1
      <4>2. Busy(v)
        BY <2>3 DEF Diagnose, Busy
      <4>3. QED
        BY <1>0, <4>1, <4>2 DEF KeepsCopy, Busy, WorkerState
    <3>2. QED
      BY <2>1, <2>3, <3>1 DEF Diagnose
  <2>4. QED
    BY <1>5, <2>1, <2>2, <2>3 DEF CompleteError
<1>6. ASSUME NEW v \in Workers, Recover(v) \/ Crash(v)
      PROVE  KeepsCopy(w)
  BY <1>0, <1>6
     DEF Recover, RecoverCancelled, RecoverExhausted, RecoverRetryable, RecoverError,
         Crash, Idle, Down, KeepsCopy, Busy, WorkerState
<1>7. QED
  BY <1>1, <1>2, <1>3, <1>4, <1>5, <1>6
     DEF Next, Attempt, vars, EnqueueCounts, EnqueueGivesUp, Enqueue, EnqueueForced, CancelRead, CancelPending,
         CancelRunning, SupersedeRunning, SupersedeOthers, DeleteMusic, LeaseExpires,
         BecomesDue

LEMMA HoldersStep ==
    ASSUME RowsOK, CopiesOK, CallersOK, HolderKnowsAttempt, [Next]_vars
    PROVE  HolderKnowsAttempt'
<1>1. ASSUME NEW v \in Workers, NEW j \in Keys, KeepsCopy(v), KeepsRun(j), Holds(v, j)'
      PROVE  worker'[v].attempt = jobs'[j].attempt
  <2>1. Holds(v, j)
    BY <1>1 DEF KeepsCopy, KeepsRun, Holds
  <2>2. QED
    BY <1>1, <2>1 DEF KeepsCopy, KeepsRun, Holds, HolderKnowsAttempt
<1>2. CASE ~\E w \in Workers : ClaimNext(w)
  <2>1. \A k \in Keys : ~Claimed(k)
    BY <1>2 DEF Claimed
  <2>2. QED
    BY <1>1, <1>2, <2>1, RunsKept, CopiesKept DEF HolderKnowsAttempt
<1>3. ASSUME NEW w \in Workers, ClaimNext(w)
      PROVE  HolderKnowsAttempt'
  <2>1. PICK k \in Keys :
          /\ jobs' = [jobs EXCEPT ![k] = ClaimedJob(@, w)]
          /\ worker' = [worker EXCEPT ![w] =
                [Idle EXCEPT !.pc = "running", !.key = k, !.id = jobs[k].id,
                             !.gen = jobs[k].gen + 1, !.attempt = jobs[k].attempt + 1]]
    BY <1>3 DEF ClaimNext
  <2>2. ASSUME NEW v \in Workers, NEW j \in Keys, Holds(v, j)'
        PROVE  worker'[v].attempt = jobs'[j].attempt
    <3>1. /\ worker'[w].key = k
          /\ worker'[w].attempt = jobs[k].attempt + 1
          /\ v # w => worker'[v] = worker[v]
      BY <2>1 DEF CopiesOK, Idle
    <3>2. /\ jobs'[k].owner = w
          /\ jobs'[k].attempt = jobs[k].attempt + 1
          /\ j # k => jobs'[j] = jobs[j]
      BY <2>1 DEF RowsOK, ClaimedJob, Job
    <3>3. CASE j = k
      BY <2>2, <3>1, <3>2, <3>3 DEF Holds
    <3>4. CASE j # k
      <4>1. v # w
        BY <2>2, <3>1, <3>4 DEF Holds
      <4>2. Holds(v, j)
        BY <2>2, <3>1, <3>2, <3>4, <4>1 DEF Holds, Busy
      <4>3. QED
        BY <3>1, <3>2, <3>4, <4>1, <4>2 DEF HolderKnowsAttempt
    <3>5. QED
      BY <3>3, <3>4
  <2>3. QED
    BY <2>2 DEF HolderKnowsAttempt
<1>4. QED
  BY <1>2, <1>3

-----------------------------------------------------------------------------
(* The theorems.                                                           *)

LEMMA InitQueueInv == Init => QueueInv
<1>1. ASSUME Init
      PROVE  QueueInv
  <2>1. /\ jobs = [k \in Keys |-> NoJob]
        /\ worker = [w \in Workers |-> Down]
    BY <1>1 DEF Init
  <2>2. 0 \in 0..MaxAttempts /\ 0 \in 0..MaxForce
    BY QueueConstants
  <2>3. RowOK(NoJob)
    BY <2>2 DEF RowOK, NoJob, Job, Statuses
  <2>4. RowsOK
    BY <2>1, <2>3 DEF RowsOK, RowOK
  <2>5. CopyOK(Down)
    BY <2>2 DEF CopyOK, Down, Idle, WorkerState
  <2>6. CopiesOK
    BY <2>1, <2>5 DEF CopiesOK, CopyOK
  <2>7. CallersOK
    BY <1>1, <2>2
       DEF Init, CallersOK, NoCancel, CancelState, NoSupersede, SupersedeState
  <2>8. HolderKnowsAttempt
    BY <2>1 DEF HolderKnowsAttempt, Holds, NoJob
  <2>9. QED
    BY <2>4, <2>6, <2>7, <2>8, QueueInvParts
<1>2. QED
  BY <1>1

LEMMA NextQueueInv == QueueInv /\ [Next]_vars => QueueInv'
<1>1. ASSUME QueueInv, [Next]_vars
      PROVE  QueueInv'
  <2>1. RowsOK /\ CopiesOK /\ CallersOK /\ HolderKnowsAttempt
    BY <1>1, QueueInvParts
  <2>2. RowsOK' /\ CopiesOK' /\ CallersOK' /\ HolderKnowsAttempt'
    BY <1>1, <2>1, RowsStep, CopiesStep, CallersStep, HoldersStep
  <2>3. QED
    BY <2>2, QueueInvParts
<1>2. QED
  BY <1>1

\* Every reachable state of the queue, for any number of keys, workers and
\* callers, satisfies the queue invariant.
THEOREM QueueInvariant == Spec => []QueueInv
  BY InitQueueInv, NextQueueInv, PTL DEF Spec

\* Rows and copies keep their types: no job is tried more often than
\* retry_max_attempts.
THEOREM TypesCorrect == Spec => []TypeOK
<1>1. QueueInv => TypeOK
  BY DEF QueueInv
<1>2. QED
  BY <1>1, QueueInvariant, PTL

\* A waiting job is never flagged for cancellation and always has an attempt
\* left.
THEOREM WaitingJobsAreClaimable == Spec => []WaitingIsClaimable
<1>1. QueueInv => WaitingIsClaimable
  BY DEF QueueInv
<1>2. QED
  BY <1>1, QueueInvariant, PTL

\* A worker that may still settle a job knows how many attempts it has used.
THEOREM HoldersKnowAttempts == Spec => []HolderKnowsAttempt
<1>1. QueueInv => HolderKnowsAttempt
  BY DEF QueueInv
<1>2. QED
  BY <1>1, QueueInvariant, PTL


-----------------------------------------------------------------------------
(* Fencing tokens.                                                         *)

\* A row keeps its primary key as long as it exists, and its generation only
\* grows, whatever a forced re-enqueue resets.
KeepsIdentity(k) ==
    /\ jobs'[k].id = jobs[k].id
    /\ jobs'[k].gen >= jobs[k].gen
    /\ jobs'[k].status = "absent" <=> jobs[k].status = "absent"

LEMMA IdentitiesKept ==
    ASSUME RowsOK, CopiesOK, [Next]_vars
    PROVE  \/ \E k \in Keys : Enqueue(k)
           \/ \E m \in Musics : DeleteMusic(m)
           \/ /\ nextId' = nextId
              /\ \A k \in Keys : KeepsIdentity(k)
<1>1. ASSUME NEW k \in Keys
      PROVE  Inserted(k) \/ Removed(k) \/ KeepsIdentity(k)
  <2>0. jobs[k] \in Job /\ jobs[k].gen \in Nat
    BY DEF RowsOK, Job
  <2>1. CASE Reset(k)
    BY <2>0, <2>1, RowIdentity DEF Reset, KeepsIdentity, Terminal
  <2>2. CASE Claimed(k)
    <3>1. jobs[k].status = "pending"
      BY <2>2 DEF Claimed, Claimable
    <3>2. /\ jobs'[k].id = jobs[k].id
          /\ jobs'[k].gen = jobs[k].gen + 1
          /\ jobs'[k].status = "running"
      BY <2>0, <2>2 DEF Claimed, ClaimedJob, Job
    <3>3. QED
      BY <2>0, <3>1, <3>2 DEF KeepsIdentity
  <2>3. CASE Ticked(k) \/ Flagged(k) \/ Superseded(k)
    <3>1. /\ jobs'[k].id = jobs[k].id
          /\ jobs'[k].gen = jobs[k].gen
          /\ jobs'[k].status = "absent" <=> jobs[k].status = "absent"
      BY <2>0, <2>3 DEF Ticked, Flagged, Superseded, Job
    <3>2. QED
      BY <2>0, <3>1 DEF KeepsIdentity
  <2>4. CASE Completed(k)
    <3>1. PICK w \in Workers : /\ worker[w].pc = "completing"
                               /\ MayComplete(w, k)
                               /\ jobs'[k] = SettledJob(jobs[k], worker[w].result)
      BY <2>4 DEF Completed
    <3>2. worker[w].result # "absent"
      BY DEF CopiesOK, WorkerState, Terminal
    <3>3. jobs[k].status = "running"
      BY <3>1 DEF MayComplete, Holds
    <3>4. QED
      BY <2>0, <3>1, <3>2, <3>3, RowIdentity DEF KeepsIdentity
  <2>5. CASE Recovered(k)
    <3>1. jobs[k].status = "running"
      BY <2>5 DEF Recovered, Expired
    <3>2. /\ jobs'[k].id = jobs[k].id
          /\ jobs'[k].gen = jobs[k].gen
          /\ jobs'[k].status \in {"cancelled", "failed", "pending"}
      <4>1. jobs[k] \in Job
        BY <2>0
      <4>2. ASSUME NEW end \in {"cancelled", "failed", "pending"}
            PROVE  LET row == Release(jobs[k], end)
                   IN  row.id = jobs[k].id /\ row.gen = jobs[k].gen /\ row.status = end
        BY <4>1 DEF Release, Job
      <4>3. ASSUME NEW end \in {"cancelled", "failed", "pending"}
            PROVE  LET row == [Release(jobs[k], end) EXCEPT !.due = TRUE]
                   IN  row.id = jobs[k].id /\ row.gen = jobs[k].gen /\ row.status = end
        BY <4>1 DEF Release, Job
      <4>4. \E end \in {"cancelled", "failed", "pending"} :
              \/ jobs'[k] = Release(jobs[k], end)
              \/ jobs'[k] = [Release(jobs[k], end) EXCEPT !.due = TRUE]
        BY <2>5 DEF Recovered
      <4>5. QED
        BY <4>2, <4>3, <4>4
    <3>3. QED
      BY <2>0, <3>1, <3>2 DEF KeepsIdentity
  <2>6. QED
    BY <2>1, <2>2, <2>3, <2>4, <2>5, RowSteps DEF RowStep
<1>2. nextId' = nextId \/ \E k \in Keys : Enqueue(k)
  BY DEF Next, Attempt, Recover, EnqueueForced, ClaimNext, HeartbeatUpdate,
         HeartbeatRead, HeartbeatError, AttemptEnds, Complete, Diagnose, CompleteError,
         RecoverCancelled, RecoverExhausted, RecoverRetryable, RecoverError, Crash,
         CancelRead, CancelPending, CancelRunning, SupersedeRunning, SupersedeOthers,
         DeleteMusic, LeaseExpires, BecomesDue, vars, EnqueueCounts, EnqueueGivesUp
<1>3. QED
  BY <1>1, <1>2 DEF Inserted, Removed

\* The three parts of CopiesTrailRows.
IdsBelowNext ==
    \A k \in Keys : /\ jobs[k].id < nextId
                    /\ jobs[k].id = 0 <=> jobs[k].status = "absent"

IdsUnique ==
    \A j, k \in Keys : j # k /\ jobs[j].id = jobs[k].id => jobs[j].id = 0

Trails(w) ==
    Busy(w) =>
        /\ worker[w].id \in 1..(nextId - 1)
        /\ \A k \in Keys : jobs[k].id = worker[w].id =>
            worker[w].key = k /\ worker[w].gen <= jobs[k].gen

LEMMA IdsStep ==
    ASSUME RowsOK, CopiesOK, CallersOK, IdsBelowNext, IdsUnique, [Next]_vars
    PROVE  IdsBelowNext' /\ IdsUnique'
<1>0. jobs \in [Keys -> Job] /\ nextId \in Nat \ {0}
  BY DEF RowsOK, CallersOK
<1>1. ASSUME NEW k \in Keys, Enqueue(k)
      PROVE  IdsBelowNext' /\ IdsUnique'
  <2>1. /\ jobs'[k].id = nextId
        /\ jobs'[k].status = "pending"
        /\ nextId' = nextId + 1
        /\ \A j \in Keys : j # k => jobs'[j] = jobs[j]
    BY <1>0, <1>1 DEF Enqueue, NewJob, NoJob
  <2>2. \A j \in Keys : jobs[j].id \in Nat
    BY <1>0 DEF Job
  <2>3. QED
    BY <1>0, <2>1, <2>2 DEF IdsBelowNext, IdsUnique
<1>2. ASSUME NEW m \in Musics, DeleteMusic(m)
      PROVE  IdsBelowNext' /\ IdsUnique'
  <2>1. /\ nextId' = nextId
        /\ \A k \in Keys : jobs'[k] = jobs[k] \/ jobs'[k] = NoJob
    BY <1>2 DEF DeleteMusic
  <2>2. NoJob.id = 0 /\ NoJob.status = "absent"
    BY DEF NoJob
  <2>3. QED
    BY <1>0, <2>1, <2>2 DEF IdsBelowNext, IdsUnique
<1>3. CASE nextId' = nextId /\ \A k \in Keys : KeepsIdentity(k)
  BY <1>3 DEF IdsBelowNext, IdsUnique, KeepsIdentity
<1>4. QED
  BY <1>1, <1>2, <1>3, IdentitiesKept

LEMMA TrailStep ==
    ASSUME RowsOK, CopiesOK, CallersOK, HolderKnowsAttempt, IdsBelowNext, IdsUnique,
           [Next]_vars, NEW w \in Workers, Trails(w)
    PROVE  Trails(w)'
<1>0. /\ jobs \in [Keys -> Job]
      /\ nextId \in Nat \ {0}
      /\ worker[w] \in WorkerState
      /\ \A k \in Keys : jobs[k].id \in Nat /\ jobs[k].gen \in Nat
      /\ worker[w].id \in Nat /\ worker[w].gen \in Nat
  BY DEF RowsOK, CallersOK, CopiesOK, Job, WorkerState
<1>1. ASSUME NEW k \in Keys, Enqueue(k)
      PROVE  Trails(w)'
  <2>1. /\ jobs'[k].id = nextId
        /\ nextId' = nextId + 1
        /\ worker' = worker
        /\ \A j \in Keys : j # k => jobs'[j] = jobs[j]
    BY <1>0, <1>1 DEF Enqueue, NewJob, NoJob
  <2>2. QED
    BY <1>0, <2>1 DEF Trails, Busy
<1>2. ASSUME NEW m \in Musics, DeleteMusic(m)
      PROVE  Trails(w)'
  <2>1. /\ nextId' = nextId /\ worker' = worker
        /\ \A k \in Keys : jobs'[k] = jobs[k] \/ jobs'[k].id = 0
    BY <1>2 DEF DeleteMusic, NoJob
  <2>2. QED
    BY <1>0, <2>1 DEF Trails, Busy
<1>3. ASSUME ClaimNext(w)
      PROVE  Trails(w)'
  <2>1. PICK k \in Keys :
          /\ NextInLine(k)
          /\ jobs' = [jobs EXCEPT ![k] = ClaimedJob(@, w)]
          /\ worker' = [worker EXCEPT ![w] =
                [Idle EXCEPT !.pc = "running", !.key = k, !.id = jobs[k].id,
                             !.gen = jobs[k].gen + 1, !.attempt = jobs[k].attempt + 1]]
          /\ nextId' = nextId
    BY <1>3 DEF ClaimNext
  <2>2. jobs[k].id \in 1..(nextId - 1)
    BY <1>0, <2>1 DEF NextInLine, Claimable, IdsBelowNext
  <2>3. /\ worker'[w].key = k
        /\ worker'[w].id = jobs[k].id
        /\ worker'[w].gen = jobs[k].gen + 1
    BY <2>1 DEF CopiesOK, Idle
  <2>4. /\ jobs'[k].id = jobs[k].id
        /\ jobs'[k].gen = jobs[k].gen + 1
        /\ \A j \in Keys : j # k => jobs'[j] = jobs[j]
    BY <1>0, <2>1 DEF ClaimedJob, Job
  <2>5. \A j \in Keys : jobs'[j].id = jobs[k].id => j = k
    BY <1>0, <2>2, <2>4 DEF IdsUnique
  <2>6. QED
    BY <1>0, <2>1, <2>2, <2>3, <2>4, <2>5 DEF Trails
<1>4. CASE nextId' = nextId /\ (\A k \in Keys : KeepsIdentity(k)) /\ KeepsCopy(w)
  <2>1. \A k \in Keys : jobs'[k].gen \in Nat
    BY RowsStep DEF RowsOK, Job
  <2>2. QED
    BY <1>0, <1>4, <2>1 DEF Trails, KeepsIdentity, KeepsCopy
<1>5. QED
  BY <1>1, <1>2, <1>3, <1>4, IdentitiesKept, CopiesKept

\* A claim takes a generation no worker has had; every other step keeps the
\* tokens or gives them up.
LEMMA TokensStep ==
    ASSUME RowsOK, CopiesOK, CallersOK, [Next]_vars,
           \A w \in Workers : Trails(w),
           FencingTokensUnique
    PROVE  FencingTokensUnique'
<1>1. CASE \A w \in Workers : KeepsCopy(w)
  BY <1>1 DEF KeepsCopy, FencingTokensUnique
<1>2. ASSUME NEW c \in Workers, ClaimNext(c)
      PROVE  FencingTokensUnique'
  <2>1. PICK k \in Keys :
          worker' = [worker EXCEPT ![c] =
                [Idle EXCEPT !.pc = "running", !.key = k, !.id = jobs[k].id,
                             !.gen = jobs[k].gen + 1, !.attempt = jobs[k].attempt + 1]]
    BY <1>2 DEF ClaimNext
  <2>2. worker'[c].id = jobs[k].id /\ worker'[c].gen = jobs[k].gen + 1
    BY <2>1 DEF CopiesOK, Idle
  <2>3. \A v \in Workers : v # c => worker'[v] = worker[v]
    BY <2>1 DEF CopiesOK
  <2>4. ASSUME NEW v \in Workers, v # c, Busy(v), worker[v].id = jobs[k].id
        PROVE  worker[v].gen # jobs[k].gen + 1
    <3>1. worker[v].gen \in Nat /\ jobs[k].gen \in Nat
      BY DEF RowsOK, CopiesOK, Job, WorkerState
    <3>2. worker[v].gen <= jobs[k].gen
      BY <2>4 DEF Trails
    <3>3. QED
      BY <3>1, <3>2
  <2>5. QED
    BY <2>2, <2>3, <2>4 DEF FencingTokensUnique, Busy
<1>3. QED
  BY <1>1, <1>2, CopiesKept

LEMMA FencingParts ==
    FencingInv <=> /\ IdsBelowNext
                   /\ IdsUnique
                   /\ \A w \in Workers : Trails(w)
                   /\ FencingTokensUnique
  BY DEF FencingInv, CopiesTrailRows, IdsBelowNext, IdsUnique, Trails

LEMMA FencingPartsNext ==
    FencingInv' <=> /\ IdsBelowNext'
                    /\ IdsUnique'
                    /\ \A w \in Workers : Trails(w)'
                    /\ FencingTokensUnique'
  BY DEF FencingInv, CopiesTrailRows, IdsBelowNext, IdsUnique, Trails

\* Copies trail their rows and fencing tokens are unique in every reachable
\* state, across any number of deletions, forced re-enqueues and crashes.
THEOREM FencingInvariant == Spec => []FencingInv
<1>1. Init => FencingInv
  <2>1. ASSUME Init
        PROVE  FencingInv
    <3>1. /\ \A k \in Keys : jobs[k].id = 0 /\ jobs[k].status = "absent"
          /\ \A w \in Workers : worker[w].pc = "down"
          /\ nextId = 1
      BY <2>1 DEF Init, NoJob, Down, Idle
    <3>2. QED
      BY <3>1, FencingParts DEF IdsBelowNext, IdsUnique, Trails, FencingTokensUnique, Busy
  <2>2. QED
    BY <2>1
<1>2. QueueInv /\ FencingInv /\ [Next]_vars => FencingInv'
  <2>1. ASSUME QueueInv, FencingInv, [Next]_vars
        PROVE  FencingInv'
    <3>1. RowsOK /\ CopiesOK /\ CallersOK /\ HolderKnowsAttempt
      BY <2>1, QueueInvParts
    <3>2. QED
      BY <2>1, <3>1, FencingParts, FencingPartsNext, IdsStep, TrailStep, TokensStep
  <2>2. QED
    BY <2>1
<1>3. QED
  BY <1>1, <1>2, QueueInvariant, PTL DEF Spec

\* Two workers never hold the same generation of the same row.
THEOREM FencingTokensAreUnique == Spec => []FencingTokensUnique
<1>1. FencingInv => FencingTokensUnique
  BY DEF FencingInv
<1>2. QED
  BY <1>1, FencingInvariant, PTL

-----------------------------------------------------------------------------
(* What no step does to a run.                                             *)

LEMMA CancellationStep ==
    ASSUME RowsOK, CopiesOK, [Next]_vars,
           NEW k \in Keys, jobs[k].status = "running", jobs[k].cancel
    PROVE  \/ jobs'[k].status = "running" /\ jobs'[k].cancel
           \/ jobs'[k].status \in {"cancelled", "stale", "absent"}
<1>0. jobs[k] \in Job
  BY DEF RowsOK
<1>1. CASE Ticked(k) \/ Flagged(k)
  BY <1>0, <1>1 DEF Ticked, Flagged, Job
<1>2. CASE Completed(k)
  <2>1. PICK w \in Workers : /\ worker[w].pc = "completing"
                             /\ MayComplete(w, k)
                             /\ jobs'[k] = SettledJob(jobs[k], worker[w].result)
    BY <1>2 DEF Completed
  <2>2. worker[w].bypass
    BY <2>1 DEF MayComplete
  <2>3. worker[w].result \in {"cancelled", "stale"}
    BY <2>1, <2>2 DEF CopiesOK, CopyOK
  <2>4. jobs'[k].status = worker[w].result
    BY <1>0, <2>1, RowIdentity
  <2>5. QED
    BY <2>3, <2>4
<1>3. CASE Recovered(k)
  BY <1>0, <1>3, RowIdentity DEF Recovered
<1>4. CASE Removed(k)
  BY <1>4 DEF Removed, NoJob
<1>5. ~Inserted(k) /\ ~Reset(k) /\ ~Claimed(k) /\ ~Superseded(k)
  BY DEF Inserted, Reset, Claimed, Claimable, Superseded, Terminal
<1>6. QED
  BY <1>1, <1>2, <1>3, <1>4, <1>5, RowSteps DEF RowStep

\* Whoever ends a run that was flagged for cancellation ends it as cancelled
\* or stale, whatever else happens in the meantime.
THEOREM CancellationsStick == Spec => CancellationSticks
<1>1. QueueInv /\ [Next]_vars =>
        [\A k \in Keys :
            jobs[k].status = "running" /\ jobs[k].cancel =>
                \/ jobs'[k].status = "running" /\ jobs'[k].cancel
                \/ jobs'[k].status \in {"cancelled", "stale", "absent"}]_vars
  BY CancellationStep, QueueInvParts
<1>2. QED
  BY <1>1, QueueInvariant, PTL DEF Spec, CancellationSticks

LEMMA LiveLeaseStep ==
    ASSUME RowsOK, CopiesOK, [Next]_vars,
           NEW k \in Keys, jobs[k].live, jobs'[k].status # "running"
    PROVE  \/ jobs'[k].status = "absent"
           \/ \E w \in Workers : Holds(w, k) /\ worker'[w] = Idle
<1>0. jobs[k] \in Job /\ jobs[k].status = "running"
  BY DEF RowsOK, RowOK
<1>1. CASE Ticked(k) \/ Flagged(k)
  BY <1>0, <1>1 DEF Ticked, Flagged, Job
<1>2. CASE Completed(k)
  BY <1>2 DEF Completed, MayComplete
<1>3. CASE Removed(k)
  BY <1>3 DEF Removed, NoJob
<1>4. /\ ~Inserted(k) /\ ~Reset(k) /\ ~Claimed(k) /\ ~Superseded(k)
      /\ ~Recovered(k)
  BY <1>0
     DEF Inserted, Reset, Claimed, Claimable, Superseded, Terminal, Recovered, Expired
<1>5. QED
  BY <1>1, <1>2, <1>3, <1>4, RowSteps DEF RowStep

\* A run whose lease is alive is ended by its holder or with its track.
THEOREM LiveLeasesRespected == Spec => LiveLeaseRespected
<1>1. QueueInv /\ [Next]_vars =>
        [\A k \in Keys :
            jobs[k].live /\ jobs'[k].status # "running" =>
                \/ jobs'[k].status = "absent"
                \/ \E w \in Workers : Holds(w, k) /\ worker'[w] = Idle]_vars
  BY LiveLeaseStep, QueueInvParts
<1>2. QED
  BY <1>1, QueueInvariant, PTL DEF Spec, LiveLeaseRespected

LEMMA CompletionStep ==
    ASSUME RowsOK, CopiesOK, HolderKnowsAttempt, [Next]_vars,
           NEW w \in Workers, NEW k \in Keys,
           worker[w].pc = "completing", worker'[w] # worker[w], jobs'[k] # jobs[k]
    PROVE  /\ jobs[k].owner = w
           /\ jobs[k].id = worker[w].id
           /\ jobs[k].attempt = worker[w].attempt
           /\ jobs'[k].status = worker[w].result
<1>0. jobs \in [Keys -> Job] /\ worker \in [Workers -> WorkerState]
  BY DEF RowsOK, CopiesOK
<1>1. ASSUME NEW v \in Workers, Attempt(v) \/ Recover(v) \/ Crash(v)
      PROVE  v = w
  <2>1. CASE Recover(v) \/ Crash(v)
    BY <1>0, <2>1
       DEF Recover, RecoverCancelled, RecoverExhausted, RecoverRetryable, RecoverError, Crash
  <2>2. CASE ClaimNext(v) \/ HeartbeatUpdate(v) \/ HeartbeatRead(v) \/ HeartbeatError(v)
    BY <1>0, <2>2 DEF ClaimNext, HeartbeatUpdate, HeartbeatRead, HeartbeatError
  <2>3. CASE AttemptEnds(v) \/ Complete(v) \/ Diagnose(v) \/ CompleteError(v)
    BY <1>0, <2>3 DEF AttemptEnds, Complete, Diagnose, CompleteError
  <2>4. QED
    BY <1>1, <2>1, <2>2, <2>3 DEF Attempt
<1>2. Complete(w)
  <2>1. \E v \in Workers : Attempt(v) \/ Recover(v) \/ Crash(v)
    BY DEF Next, vars, EnqueueCounts, EnqueueGivesUp, Enqueue, EnqueueForced, CancelRead, CancelPending, CancelRunning,
           SupersedeRunning, SupersedeOthers, DeleteMusic, LeaseExpires, BecomesDue
  <2>2. Attempt(w) \/ Recover(w) \/ Crash(w)
    BY <1>1, <2>1
  <2>3. ~(Recover(w) \/ Crash(w))
    BY <1>0 DEF Recover, RecoverCancelled, RecoverExhausted, RecoverRetryable, RecoverError, Crash
  <2>4. ~(ClaimNext(w) \/ HeartbeatUpdate(w) \/ HeartbeatRead(w) \/ HeartbeatError(w))
    BY DEF ClaimNext, HeartbeatUpdate, HeartbeatRead, HeartbeatError
  <2>5. ~(AttemptEnds(w) \/ Diagnose(w) \/ CompleteError(w))
    BY DEF AttemptEnds, Diagnose, CompleteError
  <2>6. QED
    BY <2>2, <2>3, <2>4, <2>5 DEF Attempt
<1>3. /\ k = worker[w].key
      /\ MayComplete(w, k)
      /\ jobs'[k] = SettledJob(jobs[k], worker[w].result)
  BY <1>0, <1>2 DEF Complete
<1>4. Holds(w, k)
  BY <1>3 DEF MayComplete
<1>5. jobs'[k].status = worker[w].result
  BY <1>0, <1>3, RowIdentity
<1>6. QED
  BY <1>4, <1>5 DEF Holds, HolderKnowsAttempt

\* A run ends with the result of the worker that claimed that very attempt.
THEOREM ResultsMatchAttempts == Spec => ResultMatchesAttempt
<1>1. QueueInv /\ [Next]_vars =>
        [\A w \in Workers : \A k \in Keys :
            /\ worker[w].pc = "completing"
            /\ worker'[w] # worker[w]
            /\ jobs'[k] # jobs[k]
            => /\ jobs[k].owner = w
               /\ jobs[k].id = worker[w].id
               /\ jobs[k].attempt = worker[w].attempt
               /\ jobs'[k].status = worker[w].result]_vars
  BY CompletionStep, QueueInvParts
<1>2. QED
  BY <1>1, QueueInvariant, PTL DEF Spec, ResultMatchesAttempt

-----------------------------------------------------------------------------
(* The length of the queue.                                                *)

\* Only an enqueue makes a job active that was not.
LEMMA ActiveStep ==
    ASSUME RowsOK, CopiesOK, HolderKnowsAttempt, [Next]_vars, NEW k \in Keys,
           jobs'[k].status \in Active
    PROVE  jobs[k].status \in Active \/ Inserted(k) \/ Reset(k)
<1>0. jobs[k] \in Job
  BY DEF RowsOK
<1>1. CASE Claimed(k)
  BY <1>1 DEF Claimed, Claimable, Active
<1>2. CASE Ticked(k) \/ Flagged(k) \/ Superseded(k)
  <2>1. jobs'[k].status = jobs[k].status \/ jobs'[k].status \in {"cancelled", "stale"}
    BY <1>0, <1>2 DEF Ticked, Flagged, Superseded, Job
  <2>2. QED
    BY <2>1 DEF Active
<1>3. CASE Completed(k) \/ Recovered(k)
  <2>1. jobs[k].status = "running"
    BY <1>3 DEF Completed, MayComplete, Holds, Recovered, Expired
  <2>2. QED
    BY <2>1 DEF Active
<1>4. CASE Removed(k)
  <2>1. jobs'[k].status = "absent"
    BY <1>4 DEF Removed, NoJob
  <2>2. QED
    BY <2>1 DEF Active
<1>5. QED
  BY <1>1, <1>2, <1>3, <1>4, RowSteps DEF RowStep

\* The calls that were overtaken between their count and their insertion.
Overtaken == {e \in Enqueuers : counted[e] # NoKey}

LEMMA OverrunFinite ==
    /\ IsFiniteSet(ActiveKeys) /\ Cardinality(ActiveKeys) \in Nat
    /\ IsFiniteSet(ActiveKeys') /\ Cardinality(ActiveKeys') \in Nat
    /\ IsFiniteSet(Overtaken) /\ Cardinality(Overtaken) \in Nat
    /\ IsFiniteSet(Overtaken') /\ Cardinality(Overtaken') \in Nat
    /\ Cardinality(Enqueuers) \in Nat
<1>1. ActiveKeys \subseteq Keys /\ ActiveKeys' \subseteq Keys
  BY DEF ActiveKeys
<1>2. Overtaken \subseteq Enqueuers /\ Overtaken' \subseteq Enqueuers
  BY DEF Overtaken
<1>3. QED
  BY <1>1, <1>2, QueueConstants, FS_Subset, FS_CardinalityType

\* A set that has one more element at most.
LEMMA OneMore ==
    ASSUME NEW S, IsFiniteSet(S), NEW x, NEW T, T \subseteq S \cup {x}
    PROVE  Cardinality(T) <= Cardinality(S) + 1
<1>1. /\ IsFiniteSet(S \cup {x})
      /\ Cardinality(S \cup {x}) <= Cardinality(S) + 1
      /\ Cardinality(S) \in Nat
  BY FS_AddElement, FS_CardinalityType
<1>2. Cardinality(T) <= Cardinality(S \cup {x})
  BY <1>1, FS_Subset
<1>3. IsFiniteSet(T) /\ Cardinality(T) \in Nat /\ Cardinality(S \cup {x}) \in Nat
  BY <1>1, FS_Subset, FS_CardinalityType
<1>4. QED
  BY <1>1, <1>2, <1>3

LEMMA OverrunStep ==
    ASSUME RowsOK, CopiesOK, CallersOK, HolderKnowsAttempt, [Next]_vars, OverrunBounded
    PROVE  OverrunBounded'
<1> USE QueueConstants
<1> DEFINE Total == Cardinality(ActiveKeys) + Cardinality(Overtaken)
           Bound == QueueLimit + forced + Cardinality(Enqueuers)
<1>0. /\ IsFiniteSet(ActiveKeys) /\ Cardinality(ActiveKeys) \in Nat
      /\ IsFiniteSet(ActiveKeys') /\ Cardinality(ActiveKeys') \in Nat
      /\ IsFiniteSet(Overtaken) /\ Cardinality(Overtaken) \in Nat
      /\ IsFiniteSet(Overtaken') /\ Cardinality(Overtaken') \in Nat
      /\ Cardinality(Enqueuers) \in Nat
  BY OverrunFinite
<1>1. QueueLimit \in Nat /\ forced \in Nat
  BY DEF CallersOK
<1>2. Total <= Bound
  BY DEF OverrunBounded, Overtaken
<1>3. SUFFICES Total' <= Bound'
  BY DEF OverrunBounded, Overtaken
<1>4. ASSUME NEW k \in Keys, ActiveKeys' \subseteq ActiveKeys \cup {k}
      PROVE  Cardinality(ActiveKeys') <= Cardinality(ActiveKeys) + 1
  BY <1>0, <1>4, OneMore
<1>5. Cardinality(Overtaken') <= Cardinality(Enqueuers)
  <2>1. Overtaken' \subseteq Enqueuers
    BY DEF Overtaken
  <2>2. QED
    BY <1>0, <2>1, FS_Subset
<1>6. ASSUME NEW e \in Enqueuers, NEW k \in Keys, EnqueueCounts(e, k)
      PROVE  Total' <= Bound'
  <2>1. Cardinality(ActiveKeys) < QueueLimit /\ ActiveKeys' = ActiveKeys /\ forced' = forced
    BY <1>6 DEF EnqueueCounts, BelowLimit, ActiveKeys
  <2>2. QED
    BY <1>0, <1>1, <1>5, <2>1
<1>7. ASSUME NEW e \in Enqueuers, EnqueueGivesUp(e)
      PROVE  Total' <= Bound'
  <2>1. Overtaken' \subseteq Overtaken /\ ActiveKeys' = ActiveKeys /\ forced' = forced
    BY <1>7 DEF EnqueueGivesUp, ActiveKeys, Overtaken, CallersOK
  <2>2. Cardinality(Overtaken') <= Cardinality(Overtaken)
    BY <1>0, <2>1, FS_Subset
  <2>3. QED
    BY <1>0, <1>1, <1>2, <2>1, <2>2
<1>8. ASSUME NEW k \in Keys, Enqueue(k)
      PROVE  Total' <= Bound'
  <2>1. ActiveKeys' \subseteq ActiveKeys \cup {k} /\ forced' = forced
    BY <1>8 DEF ActiveKeys, Enqueue, RowsOK
  <2>2. Cardinality(ActiveKeys') <= Cardinality(ActiveKeys) + 1
    BY <1>4, <2>1
  <2>3. CASE BelowLimit
    BY <1>0, <1>1, <1>5, <2>1, <2>2, <2>3 DEF BelowLimit
  <2>4. ASSUME NEW e \in Enqueuers,
               counted[e] = k, counted' = [counted EXCEPT ![e] = NoKey]
        PROVE  Total' <= Bound'
    <3>1. Overtaken' = Overtaken \ {e} /\ e \in Overtaken
      BY <2>4 DEF Overtaken, CallersOK
    <3>2. Cardinality(Overtaken') = Cardinality(Overtaken) - 1
      BY <1>0, <3>1, FS_RemoveElement
    <3>3. QED
      BY <1>0, <1>1, <1>2, <2>1, <2>2, <3>2
  <2>5. QED
    BY <1>8, <2>3, <2>4 DEF Enqueue
<1>9. ASSUME NEW k \in Keys, EnqueueForced(k)
      PROVE  Total' <= Bound'
  <2>1. ActiveKeys' \subseteq ActiveKeys \cup {k}
    BY <1>9 DEF ActiveKeys, EnqueueForced, RowsOK
  <2>2. Cardinality(ActiveKeys') <= Cardinality(ActiveKeys) + 1
    BY <1>4, <2>1
  <2>3. forced' = forced + 1 /\ Overtaken' = Overtaken
    BY <1>9 DEF EnqueueForced, Overtaken
  <2>4. QED
    BY <1>0, <1>1, <1>2, <2>2, <2>3
<1>10. CASE /\ \A k \in Keys : ~Enqueue(k) /\ ~EnqueueForced(k)
            /\ \A e \in Enqueuers :
                  ~EnqueueGivesUp(e) /\ \A k \in Keys : ~EnqueueCounts(e, k)
  <2>1. \A k \in Keys : ~Inserted(k)
    BY <1>10 DEF Inserted
  <2>2. \A k \in Keys : ~Reset(k)
    BY <1>10 DEF Reset
  <2>3. ActiveKeys' \subseteq ActiveKeys
    BY <2>1, <2>2, ActiveStep DEF ActiveKeys
  <2>4. Cardinality(ActiveKeys') <= Cardinality(ActiveKeys)
    BY <1>0, <2>3, FS_Subset
  <2>5. forced' = forced /\ counted' = counted
    BY <1>10
       DEF Next, Attempt, Recover, ClaimNext, HeartbeatUpdate, HeartbeatRead,
           HeartbeatError, AttemptEnds, Complete, Diagnose, CompleteError,
           RecoverCancelled, RecoverExhausted, RecoverRetryable, RecoverError, Crash,
           CancelRead, CancelPending, CancelRunning, SupersedeRunning, SupersedeOthers,
           DeleteMusic, LeaseExpires, BecomesDue, vars
  <2>6. Overtaken' = Overtaken
    BY <2>5 DEF Overtaken
  <2>7. QED
    BY <1>0, <1>1, <1>2, <2>4, <2>5, <2>6
<1>11. QED
  BY <1>6, <1>7, <1>8, <1>9, <1>10

\* The queue exceeds its limit by the forced re-enqueues and by one job of every
\* call that is overtaken between its count and its insertion (Enqueue). With
\* SQLite, where none is, only by the former.
THEOREM QueueOverrunBounded == Spec => []OverrunBounded
<1>1. Init => OverrunBounded
  <2>1. ASSUME Init
        PROVE  OverrunBounded
    <3>1. ActiveKeys = {} /\ Overtaken = {}
      BY <2>1 DEF Init, ActiveKeys, Active, NoJob, Overtaken
    <3>2. Cardinality(ActiveKeys) = 0 /\ Cardinality(Overtaken) = 0
      BY <3>1, FS_EmptySet
    <3>3. QED
      BY <2>1, <3>2, OverrunFinite, QueueConstants DEF Init, OverrunBounded, Overtaken
  <2>2. QED
    BY <2>1
<1>2. QueueInv /\ OverrunBounded /\ [Next]_vars => OverrunBounded'
  BY OverrunStep, QueueInvParts
<1>3. QED
  BY <1>1, <1>2, QueueInvariant, PTL DEF Spec

-----------------------------------------------------------------------------
(* The queue implements AnalysisJob.                                       *)

\* The phases one by one.
LEMMA Phases ==
    ASSUME NEW row
    PROVE  /\ row.status = "absent" => PhaseOf(row) = "none"
           /\ row.status = "pending" => PhaseOf(row) = "waiting"
           /\ row.status = "running" =>
                /\ ~row.cancel => PhaseOf(row) = "trying"
                /\ row.cancel => PhaseOf(row) = "stopping"
           /\ row.status \in Terminal => PhaseOf(row) = "settled"
<1>1. CASE row.status = "absent"
  BY <1>1 DEF PhaseOf, Terminal
<1>2. CASE row.status = "pending"
  BY <1>2 DEF PhaseOf, Terminal
<1>3. CASE row.status = "running" /\ row.cancel
  BY <1>3 DEF PhaseOf, Terminal
<1>4. CASE row.status = "running" /\ ~row.cancel
  BY <1>4 DEF PhaseOf, Terminal
<1>5. CASE row.status \in Terminal
  BY <1>5 DEF PhaseOf, Terminal
<1>6. QED
  BY <1>1, <1>2, <1>3, <1>4, <1>5

LEMMA PublicTypes ==
    ASSUME NEW row \in Job
    PROVE  PhaseOf(row) \in PublicJob!Phases /\ row.attempt \in 0..MaxAttempts
<1>1. /\ row.status \in {"absent", "pending", "running"} \cup Terminal
      /\ row.attempt \in 0..MaxAttempts
  BY DEF Job, Statuses, Active
<1>2. QED
  BY <1>1, Phases DEF PublicJob!Phases

\* Each step of a row is a step of its job.
LEMMA PublicStep ==
    ASSUME RowsOK, CopiesOK, HolderKnowsAttempt, [Next]_vars, NEW k \in Keys
    PROVE  PublicJob!JobStep(PhaseOf(jobs[k]), jobs[k].attempt,
                             PhaseOf(jobs'[k]), jobs'[k].attempt)
<1> DEFINE p == PhaseOf(jobs[k])
           t == jobs[k].attempt
           q == PhaseOf(jobs'[k])
           u == jobs'[k].attempt
<1>0. jobs[k] \in Job /\ RowOK(jobs[k])
  BY DEF RowsOK
<1>1. CASE Inserted(k)
  <2>1. p = "none" /\ q = "waiting" /\ u = 0
    BY <1>1, Phases DEF Inserted, NewJob, NoJob
  <2>2. QED
    BY <2>1 DEF PublicJob!JobStep, PublicJob!Submit
<1>2. CASE Reset(k)
  <2>1. p = "settled" /\ q = "waiting" /\ u = 0
    BY <1>0, <1>2, Phases DEF Reset, ResetJob, Job, Terminal
  <2>2. QED
    BY <2>1 DEF PublicJob!JobStep, PublicJob!Submit
<1>3. CASE Claimed(k)
  <2>1. t < MaxAttempts /\ jobs[k].status = "pending" /\ ~jobs[k].cancel
    BY <1>0, <1>3 DEF Claimed, Claimable, RowOK
  <2>2. p = "waiting"
    BY <2>1, Phases
  <2>3. q = "trying" /\ u = t + 1
    <3>1. /\ jobs'[k].status = "running"
          /\ jobs'[k].cancel = jobs[k].cancel
          /\ jobs'[k].attempt = t + 1
      BY <1>0, <1>3 DEF Claimed, ClaimedJob, Job
    <3>2. QED
      BY <2>1, <3>1, Phases
  <2>4. QED
    BY <2>1, <2>2, <2>3 DEF PublicJob!JobStep, PublicJob!Serve, PublicJob!Try
<1>4. CASE Ticked(k)
  <2>1. /\ jobs'[k].status = jobs[k].status
        /\ jobs'[k].cancel = jobs[k].cancel
        /\ jobs'[k].attempt = jobs[k].attempt
    BY <1>0, <1>4 DEF Ticked, Job
  <2>2. jobs[k].status \in {"absent", "pending", "running"} \cup Terminal
    BY <1>0 DEF Job, Statuses, Active
  <2>3. p = q /\ t = u
    BY <2>1, <2>2, Phases
  <2>4. QED
    BY <2>3 DEF PublicJob!JobStep
<1>5. CASE Completed(k)
  <2>1. PICK w \in Workers : /\ worker[w].pc = "completing"
                             /\ MayComplete(w, k)
                             /\ jobs'[k] = SettledJob(jobs[k], worker[w].result)
    BY <1>5 DEF Completed
  <2>2. /\ jobs[k].status = "running"
        /\ worker[w].attempt = t
        /\ worker[w].bypass \/ ~jobs[k].cancel
    BY <2>1 DEF MayComplete, Holds, HolderKnowsAttempt
  <2>3. /\ worker[w].result \in {"pending"} \cup Terminal
        /\ worker[w].result = "pending" => t < MaxAttempts /\ ~jobs[k].cancel
    BY <2>1, <2>2 DEF CopiesOK, CopyOK, WorkerState
  <2>4. jobs'[k].status = worker[w].result /\ u = t
    BY <1>0, <2>1 DEF SettledJob, Release, Job
  <2>5. CASE worker[w].result = "pending"
    <3>1. p = "trying" /\ q = "waiting"
      BY <2>2, <2>3, <2>4, <2>5, Phases
    <3>2. QED
      BY <2>3, <2>4, <2>5, <3>1 DEF PublicJob!JobStep, PublicJob!Serve, PublicJob!Retry
  <2>6. CASE worker[w].result \in Terminal
    <3>1. p \in {"trying", "stopping"} /\ q = "settled"
      BY <1>0, <2>2, <2>4, <2>6, Phases DEF Terminal, Job
    <3>2. QED
      BY <2>4, <3>1 DEF PublicJob!JobStep, PublicJob!Serve, PublicJob!Settle
  <2>7. QED
    BY <2>3, <2>5, <2>6
<1>6. CASE Recovered(k)
  <2>1. p = IF jobs[k].cancel THEN "stopping" ELSE "trying"
    BY <1>0, <1>6, Phases DEF Recovered, Expired, Job
  <2>2. u = t
    BY ZenonT(40), <1>0, <1>6 DEF Recovered, Release, Job
  <2>3. CASE jobs'[k].status \in {"cancelled", "failed"}
    <3>1. q = "settled"
      BY <2>3, Phases DEF Terminal
    <3>2. QED
      BY <2>1, <2>2, <3>1 DEF PublicJob!JobStep, PublicJob!Serve, PublicJob!Settle
  <2>4. CASE jobs'[k].status = "pending" /\ ~jobs[k].cancel /\ t < MaxAttempts
    <3>1. q = "waiting"
      BY <2>4, Phases
    <3>2. QED
      BY <2>1, <2>2, <2>4, <3>1 DEF PublicJob!JobStep, PublicJob!Serve, PublicJob!Retry
  <2>5. QED
    BY <1>0, <1>6, <2>3, <2>4 DEF Recovered, Release, Job
<1>7. CASE Flagged(k)
  <2>1. CASE jobs[k].status = "pending"
    <3>1. p = "waiting" /\ q = "settled" /\ u = t
      <4>1. jobs'[k].status = "cancelled" /\ u = t
        BY <1>0, <1>7, <2>1 DEF Flagged, Job
      <4>2. QED
        BY <2>1, <4>1, Phases DEF Terminal
    <3>2. QED
      BY <3>1 DEF PublicJob!JobStep, PublicJob!Serve, PublicJob!Settle
  <2>2. CASE jobs[k].status = "running"
    <3>1. p \in {"trying", "stopping"} /\ q = "stopping" /\ u = t
      BY <1>0, <1>7, <2>2, Phases DEF Flagged, Job, Terminal
    <3>2. QED
      BY <3>1 DEF PublicJob!JobStep, PublicJob!AskToStop
  <2>3. QED
    BY <1>7, <2>1, <2>2 DEF Flagged
<1>8. CASE Superseded(k)
  <2>1. p \in {"waiting", "settled"} /\ q = "settled" /\ u = t
    BY <1>0, <1>8, Phases DEF Superseded, Job, Terminal
  <2>2. QED
    BY <2>1 DEF PublicJob!JobStep, PublicJob!Serve, PublicJob!Settle
<1>9. CASE Removed(k)
  <2>1. q = "none" /\ u = 0
    BY <1>9, Phases DEF Removed, NoJob
  <2>2. p = "none" => t = 0
    BY <1>0, Phases DEF RowOK, Job, Statuses, Active
  <2>3. QED
    BY <2>1, <2>2 DEF PublicJob!JobStep, PublicJob!Remove
<1>10. QED
  BY <1>1, <1>2, <1>3, <1>4, <1>5, <1>6, <1>7, <1>8, <1>9, RowSteps DEF RowStep

\* Every behaviour of rows, leases and workers is a behaviour of AnalysisJob:
\* a submission is tried at most MaxAttempts times, a job asked to stop is not
\* tried again, and a settled job comes back only when it is submitted.
THEOREM QueueImplementsAnalysisJob == Spec => ImplementsAnalysisJob
<1>1. Init => PublicJob!Init
  <2>1. NoJob.attempt = 0 /\ PhaseOf(NoJob) = "none"
    BY Phases DEF NoJob
  <2>2. QED
    BY <2>1 DEF Init, PublicJob!Init
<1>2. QueueInv /\ QueueInv' /\ [Next]_vars => [PublicJob!Next]_(PublicJob!vars)
  <2>1. ASSUME QueueInv, QueueInv', [Next]_vars
        PROVE  PublicJob!Next
    <3>1. RowsOK /\ CopiesOK /\ HolderKnowsAttempt
      BY <2>1, QueueInvParts
    <3>2. ASSUME NEW k \in Keys
          PROVE  PhaseOf(jobs'[k]) \in PublicJob!Phases /\ jobs'[k].attempt \in 0..MaxAttempts
      <4>1. jobs'[k] \in Job
        BY <2>1 DEF QueueInv, TypeOK
      <4>2. QED
        BY <4>1, PublicTypes
    <3>3. QED
      BY <2>1, <3>1, <3>2, PublicStep DEF PublicJob!Next
  <2>2. QED
    BY <2>1
<1>3. QED
  BY <1>1, <1>2, QueueInvariant, PTL DEF Spec, ImplementsAnalysisJob, PublicJob!Spec
=============================================================================
