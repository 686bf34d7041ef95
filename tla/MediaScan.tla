------------------------------ MODULE MediaScan ------------------------------
(***************************************************************************)
(* The media library scanner on one root: the rows of media_scan_jobs, the *)
(* rows of media_files, the scanners (one worker per process) that walk    *)
(* the root, the administrators who cancel a scan, the playback requests   *)
(* that refresh a file's row, and the files on disk, which change at any   *)
(* time.                                                                   *)
(*                                                                         *)
(* A scanner reads a file's row, looks at the file, and saves the whole    *)
(* row; a playback request does the same: between the read and the save    *)
(* the row and the file may change.  Times are only compared with the      *)
(* starts of passes, so the clock counts the claims.                       *)
(***************************************************************************)
EXTENDS Naturals, FiniteSets

CONSTANTS
    Files,       \* source keys of the root
    Contents,    \* what a file may hold; size and mtime tell contents apart
    Unfit,       \* empty, oversized or unsupported contents
    NoContent,   \* there is no such file
    Scanners,    \* scan workers, one per process
    NoScanner,   \* the empty lease_owner
    Admins,      \* concurrent RequestScanCancellation calls
    Readers,     \* concurrent ResolveMusicPath calls
    MaxAttempts, \* library.scanner.retry_max_attempts
    MaxScans,    \* bound of the model: scans ever started
    MaxIncidents \* bound of the model: crashes, leases lost alive, lost writes

ASSUME ScanConstants ==
    /\ IsFiniteSet(Files)
    /\ Unfit \subseteq Contents
    /\ NoContent \notin Contents
    /\ NoScanner \notin Scanners
    /\ MaxAttempts \in Nat \ {0}
    /\ MaxScans \in Nat
    /\ MaxIncidents \in Nat

VARIABLES
    scan,      \* media_scan_jobs
    row,       \* media_files
    disk,      \* the files
    scanner,   \* what each scan worker holds
    admin,     \* what each cancellation call holds
    reader,    \* what each playback request holds
    clock,     \* the claims so far
    incidents  \* crashes, leases lost alive and lost writes so far

vars == <<scan, row, disk, scanner, admin, reader, clock, incidents>>

Scans == 1..MaxScans

Waiting  == {"pending", "retry_wait"}
Active   == Waiting \cup {"running"}
Terminal == {"succeeded", "failed", "cancelled"}

-----------------------------------------------------------------------------
(* Rows.  due: next_attempt_at is null or past.  live: lease_expires_at is *)
(* in the future.                                                          *)

NoScan == [status |-> "absent", cancel |-> FALSE, attempt |-> 0, due |-> TRUE,
           owner |-> NoScanner, gen |-> 0, live |-> FALSE]

ActiveScans == {j \in Scans : scan[j].status \in Active}

\* UpdateScanJob of a status that is not running clears the lease.
Ended(job, status) ==
    [job EXCEPT !.status = status, !.due = (status # "retry_wait"),
                !.owner = NoScanner, !.live = FALSE]

Expired(job) == job.status = "running" /\ ~job.live

\* hash: the content that made the row (file_hash); stamp: the size and mtime
\* of the content looked at last; seen: last_seen_at.
NoRow == [hash |-> NoContent, stamp |-> NoContent, avail |-> "none", seen |-> 0]

NewRow(c, at) == [hash |-> c, stamp |-> c, avail |-> "online", seen |-> at]

Seen(old, avail, at) == [old EXCEPT !.avail = avail, !.seen = at]

-----------------------------------------------------------------------------
(* Processes.  steady, gone and flagged are history: the files that were   *)
(* there, and those that were not, ever since the pass began, and whether  *)
(* the scan had been cancelled when it was claimed.                        *)

Idle == [pc |-> "idle", job |-> 0, gen |-> 0, attempt |-> 0, start |-> 0,
         todo |-> {}, checked |-> FALSE, failed |-> FALSE, transient |-> FALSE,
         file |-> NoContent, copy |-> NoRow, content |-> NoContent, at |-> 0,
         result |-> "none", steady |-> {}, gone |-> {}, flagged |-> FALSE]

Down == [Idle EXCEPT !.pc = "down"]

NoCancel == [pc |-> "idle", job |-> 0]

NoRead == [pc |-> "idle", file |-> NoContent, copy |-> NoRow]

Scanning(s) == scanner[s].pc \notin {"down", "idle"}

\* Mutation: UpdateScanJob by primary key alone.
HoldsAnyRun(s, j) == Scanning(s) /\ scanner[s].job = j

\* The lease guard of UpdateScanJob.
Holds(s, j) ==
    /\ Scanning(s)
    /\ scanner[s].job = j
    /\ scan[j].owner = s
    /\ scan[j].gen = scanner[s].gen

Incident == incidents < MaxIncidents /\ incidents' = incidents + 1

Finishing(me, result) == [me EXCEPT !.pc = "finishing", !.result = result]

\* The file a scanner was reading is done with.
FileDone(me, failed, transient) ==
    [me EXCEPT !.pc = "walking", !.failed = failed, !.transient = transient,
               !.file = NoContent, !.copy = NoRow, !.content = NoContent,
               !.at = 0]

-----------------------------------------------------------------------------
(* The queue of scans.                                                     *)

\* CreateScanJob: the count and the partial unique index let one scan of a
\* root be active.
StartScan(j) ==
    /\ scan[j].status = "absent"
    /\ \A i \in Scans : i < j => scan[i].status # "absent"
    /\ ActiveScans = {}
    /\ scan' = [scan EXCEPT ![j].status = "pending"]
    /\ UNCHANGED <<row, disk, scanner, admin, reader, clock, incidents>>

Claimable == {j \in Scans : \/ scan[j].status = "pending"
                            \/ scan[j].status = "retry_wait" /\ scan[j].due}

ClaimedScan(job, s) ==
    [job EXCEPT !.status = "running", !.attempt = @ + 1, !.due = TRUE,
                !.owner = s, !.gen = @ + 1, !.live = TRUE]

\* The start of runScanJob.
Begun(j) ==
    [Idle EXCEPT !.pc = "probing", !.job = j, !.gen = scan[j].gen + 1,
                 !.attempt = scan[j].attempt + 1, !.start = clock + 1,
                 !.todo = Files, !.flagged = scan[j].cancel,
                 !.steady = {f \in Files : disk[f] \in Contents \ Unfit},
                 !.gone = {f \in Files : disk[f] = NoContent}]

\* ClaimNextScanJob, which does not look at cancel_requested.
Claim(s) ==
    /\ scanner[s].pc = "idle"
    /\ \E j \in Claimable :
        /\ \A i \in Claimable : j <= i
        /\ scan' = [scan EXCEPT ![j] = ClaimedScan(@, s)]
        /\ scanner' = [scanner EXCEPT ![s] = Begun(j)]
    /\ clock' = clock + 1
    /\ UNCHANGED <<row, disk, admin, reader, incidents>>

\* retryOrFinishScan of a retryable failure.
RetryOrFail(attempt) ==
    IF attempt >= MaxAttempts THEN "failed" ELSE "retry_wait"

\* A failure is retried when the probe says that retrying may help.
AfterFailure(attempt) == {"failed", RetryOrFail(attempt)}

\* The root is gone, disabled or unavailable, or it can be walked.
Probe(s) ==
    /\ scanner[s].pc = "probing"
    /\ \/ scanner' = [scanner EXCEPT ![s].pc = "walking"]
       \/ \E result \in AfterFailure(scanner[s].attempt) :
            scanner' = [scanner EXCEPT ![s] = Finishing(@, result)]
    /\ UNCHANGED <<scan, row, disk, admin, reader, clock, incidents>>

-----------------------------------------------------------------------------
(* The walk.  Its first callback, for the root, looks for a cancellation;  *)
(* later ones do at most once a second.                                    *)

CheckCancellation(s) ==
    /\ scanner[s].pc = "walking"
    /\ LET job == scan[scanner[s].job]
           cancelled == job.cancel \/ job.status = "cancelled" IN
        /\ ~scanner[s].checked \/ cancelled
        /\ scanner' = [scanner EXCEPT ![s] =
             IF cancelled THEN Finishing(@, "cancelled")
                          ELSE [@ EXCEPT !.checked = TRUE]]
    /\ UNCHANGED <<scan, row, disk, admin, reader, clock, incidents>>

\* A database error ends the walk; the probe then decides about a retry.
WalkBreaks(s) ==
    /\ scanner[s].pc = "walking"
    /\ \E result \in AfterFailure(scanner[s].attempt) :
         scanner' = [scanner EXCEPT ![s] = Finishing(@, result)]
    /\ UNCHANGED <<scan, row, disk, admin, reader, clock, incidents>>

\* A directory that cannot be read hides the files below it.
SkipDirectory(s) ==
    /\ scanner[s].pc = "walking"
    /\ scanner[s].checked
    /\ \E hidden \in (SUBSET scanner[s].todo) \ {{}} :
       \E transient \in {scanner[s].transient, TRUE} :
         scanner' = [scanner EXCEPT ![s] =
           [@ EXCEPT !.todo = scanner[s].todo \ hidden, !.failed = TRUE,
                     !.transient = transient]]
    /\ UNCHANGED <<scan, row, disk, admin, reader, clock, incidents>>

\* A file that is not there is not listed, or it vanishes after it was.
MissFile(s, f) ==
    /\ scanner[s].pc = "walking"
    /\ scanner[s].checked
    /\ f \in scanner[s].todo
    /\ disk[f] = NoContent
    /\ \E failed \in {scanner[s].failed, TRUE} :
         scanner' = [scanner EXCEPT ![s] =
                       [@ EXCEPT !.todo = scanner[s].todo \ {f}, !.failed = failed]]
    /\ UNCHANGED <<scan, row, disk, admin, reader, clock, incidents>>

\* Mutation: the walk does not begin with a look at the cancellation.
VisitFileUnchecked(s, f) ==
    /\ scanner[s].pc = "walking"
    /\ f \in scanner[s].todo
    /\ disk[f] # NoContent
    /\ scanner' = [scanner EXCEPT ![s] =
         [@ EXCEPT !.pc = "reading", !.todo = scanner[s].todo \ {f}, !.file = f,
                   !.copy = row[f], !.content = disk[f], !.at = clock]]
    /\ UNCHANGED <<scan, row, disk, admin, reader, clock, incidents>>

VisitFile(s, f) ==
    /\ scanner[s].pc = "walking"
    /\ scanner[s].checked
    /\ f \in scanner[s].todo
    /\ disk[f] # NoContent
    /\ scanner' = [scanner EXCEPT ![s] =
         [@ EXCEPT !.pc = "reading", !.todo = scanner[s].todo \ {f}, !.file = f,
                   !.copy = row[f], !.content = disk[f], !.at = clock]]
    /\ UNCHANGED <<scan, row, disk, admin, reader, clock, incidents>>

-----------------------------------------------------------------------------
(* processScanFile on a file whose row is known: what is saved, and how it *)
(* counts.  The save writes the whole row as it was read.                  *)

Outcome(saved, failed, transient) ==
    [row |-> saved, failed |-> failed, transient |-> transient]

Fine(saved) == {Outcome(saved, FALSE, FALSE)}

\* The file may still be written: it is seen, and that is all.
TooYoung(old, at) == Fine([old EXCEPT !.seen = at])

Unreadable(old) ==
    {Outcome([old EXCEPT !.avail = "offline"], TRUE, t) : t \in BOOLEAN}

\* The file changed while it was read, or its state could not be read.
Busy(old, at) ==
    {Outcome(Seen(old, "changed", at), FALSE, t) : t \in BOOLEAN}

\* Same size and mtime, and not due for hashing again.
Untouched(old, at) == Fine(Seen(old, "online", at))

Hashed(old, c, at) ==
    Fine([Seen(old, IF c = old.hash THEN "online" ELSE "changed", at)
            EXCEPT !.stamp = c])

KnownOutcomes(old, c, at) ==
    TooYoung(old, at) \cup
    IF c \in Unfit
    THEN Unreadable(old) \cup Fine(Seen(old, "changed", at))
    ELSE Unreadable(old) \cup Busy(old, at) \cup
         IF old.stamp = c THEN Untouched(old, at) ELSE {}

RefreshFile(s) ==
    /\ scanner[s].pc = "reading"
    /\ LET me == scanner[s]
           hashed == IF disk[me.file] = me.content /\ me.content \notin Unfit
                     THEN Hashed(me.copy, me.content, me.at) ELSE {} IN
        /\ me.copy.avail # "none"
        /\ \E o \in KnownOutcomes(me.copy, me.content, me.at) \cup hashed :
            /\ row' = [row EXCEPT ![me.file] = o.row]
            /\ scanner' = [scanner EXCEPT ![s] =
                 FileDone(@, @.failed \/ o.failed, @.transient \/ o.transient)]
    /\ UNCHANGED <<scan, disk, admin, reader, clock, incidents>>

\* The save fails.  That counts as a failed file, except where the error is
\* ignored: for unsupported contents and for files that are busy.
RefreshLost(s) ==
    /\ scanner[s].pc = "reading"
    /\ scanner[s].copy.avail # "none"
    /\ Incident
    /\ \E failed \in BOOLEAN : \E transient \in BOOLEAN :
       LET me   == scanner[s]
           done == FileDone(me, me.failed \/ failed, me.transient \/ transient) IN
       scanner' = [scanner EXCEPT ![s] =
         [done EXCEPT !.steady = IF failed THEN me.steady ELSE me.steady \ {me.file}]]
    /\ UNCHANGED <<scan, row, disk, admin, reader, clock>>

\* Mutation: the import overwrites a row that another scan has made.
ImportFileUpsert(s) ==
    /\ scanner[s].pc = "reading"
    /\ LET me == scanner[s] IN
        /\ me.copy.avail = "none"
        /\ \E failed \in {me.failed, TRUE} : \E transient \in {me.transient, TRUE} :
            /\ \/ /\ me.content \notin Unfit
                  /\ disk[me.file] = me.content
                  /\ failed = me.failed
                  /\ row' = [row EXCEPT ![me.file] = NewRow(me.content, me.at)]
               \/ UNCHANGED row
            /\ scanner' = [scanner EXCEPT ![s] = FileDone(@, failed, transient)]
    /\ UNCHANGED <<scan, disk, admin, reader, clock, incidents>>

\* A file without a row is imported if it is stable and fit; the unique source
\* key refuses it when another scan was faster.  A file that is too young,
\* unfit or busy is skipped; one that cannot be read, or stored, has failed.
ImportFile(s) ==
    /\ scanner[s].pc = "reading"
    /\ LET me == scanner[s] IN
        /\ me.copy.avail = "none"
        /\ \E failed \in {me.failed, TRUE} : \E transient \in {me.transient, TRUE} :
            /\ \/ /\ me.content \notin Unfit
                  /\ disk[me.file] = me.content
                  /\ row[me.file].avail = "none"
                  /\ failed = me.failed
                  /\ row' = [row EXCEPT ![me.file] = NewRow(me.content, me.at)]
               \/ UNCHANGED row
            /\ scanner' = [scanner EXCEPT ![s] = FileDone(@, failed, transient)]
    /\ UNCHANGED <<scan, disk, admin, reader, clock, incidents>>

-----------------------------------------------------------------------------
(* The lease, and the end of the pass.                                     *)

\* Progress is flushed, and the lease renewed, between files and while a file
\* is hashed; a scanner that lost its lease stops where it is.
RenewLease(s) ==
    /\ scanner[s].pc \in {"walking", "reading"}
    /\ LET j == scanner[s].job IN
        \/ /\ Holds(s, j)
           /\ scan' = [scan EXCEPT ![j].live = TRUE]
           /\ UNCHANGED scanner
        \/ /\ ~Holds(s, j)
           /\ scanner' = [scanner EXCEPT ![s] = Idle]
           /\ UNCHANGED scan
    /\ UNCHANGED <<row, disk, admin, reader, clock, incidents>>

\* Mutation: files are marked missing even if some could not be read.
EndWalkMarking(s) ==
    /\ scanner[s].pc = "walking"
    /\ scanner[s].checked
    /\ scanner[s].todo = {}
    /\ LET me == scanner[s] IN
        \/ /\ ~me.transient
           /\ scanner' = [scanner EXCEPT ![s].pc = "marking"]
        \/ /\ me.transient \/ me.failed
           /\ \E result \in AfterFailure(me.attempt) :
                scanner' = [scanner EXCEPT ![s] = Finishing(@, result)]
    /\ UNCHANGED <<scan, row, disk, admin, reader, clock, incidents>>

\* Files are marked missing only when nothing failed.
EndWalk(s) ==
    /\ scanner[s].pc = "walking"
    /\ scanner[s].checked
    /\ scanner[s].todo = {}
    /\ LET me == scanner[s] IN
        \/ /\ ~me.transient /\ ~me.failed
           /\ scanner' = [scanner EXCEPT ![s].pc = "marking"]
        \/ /\ ~me.transient /\ me.failed
           /\ scanner' = [scanner EXCEPT ![s] = Finishing(@, "succeeded")]
        \/ /\ me.transient \/ me.failed
           /\ \E result \in AfterFailure(me.attempt) :
                scanner' = [scanner EXCEPT ![s] = Finishing(@, result)]
    /\ UNCHANGED <<scan, row, disk, admin, reader, clock, incidents>>

\* Mutation: only sources that are online are looked at.
MarkMissingOnline(s) ==
    /\ scanner[s].pc = "marking"
    /\ row' = [f \in Files |->
                 IF row[f].seen < scanner[s].start /\ row[f].avail = "online"
                 THEN [row[f] EXCEPT !.avail = "missing"] ELSE row[f]]
    /\ scanner' = [scanner EXCEPT ![s] = Finishing(@, "succeeded")]
    /\ UNCHANGED <<scan, disk, admin, reader, clock, incidents>>

\* MarkRootFilesMissingBefore, which the lease does not guard.
MarkMissing(s) ==
    /\ scanner[s].pc = "marking"
    /\ row' = [f \in Files |->
                 IF /\ row[f].seen < scanner[s].start
                    /\ row[f].avail \notin {"none", "changed"}
                 THEN [row[f] EXCEPT !.avail = "missing"] ELSE row[f]]
    /\ scanner' = [scanner EXCEPT ![s] = Finishing(@, "succeeded")]
    /\ UNCHANGED <<scan, disk, admin, reader, clock, incidents>>

MarkFails(s) ==
    /\ scanner[s].pc = "marking"
    /\ scanner' = [scanner EXCEPT ![s] = Finishing(@, "failed")]
    /\ UNCHANGED <<scan, row, disk, admin, reader, clock, incidents>>

\* Mutation: the final update writes cancel_requested from the local copy.
FinishWritingFlag(s) ==
    /\ scanner[s].pc = "finishing"
    /\ LET j == scanner[s].job IN
       scan' = IF Holds(s, j)
               THEN [scan EXCEPT ![j] =
                       [Ended(@, scanner[s].result)
                          EXCEPT !.cancel = scanner[s].flagged]]
               ELSE scan
    /\ scanner' = [scanner EXCEPT ![s] = Idle]
    /\ UNCHANGED <<row, disk, admin, reader, clock, incidents>>

\* UpdateScanJob leaves cancel_requested out; a lost lease is not an error.
Finish(s) ==
    /\ scanner[s].pc = "finishing"
    /\ LET j == scanner[s].job IN
       scan' = IF Holds(s, j)
               THEN [scan EXCEPT ![j] = Ended(@, scanner[s].result)] ELSE scan
    /\ scanner' = [scanner EXCEPT ![s] = Idle]
    /\ UNCHANGED <<row, disk, admin, reader, clock, incidents>>

\* A database error is logged and the job stays leased.
FinishFails(s) ==
    /\ scanner[s].pc = "finishing"
    /\ Incident
    /\ scanner' = [scanner EXCEPT ![s] = Idle]
    /\ UNCHANGED <<scan, row, disk, admin, reader, clock>>

\* Mutation: recovery fails the scan, as a crash of its worker would suggest.
RecoverFailing(s) ==
    /\ scanner[s].pc \in {"down", "idle"}
    /\ scan' = [j \in Scans |-> IF scan[j].status = "running"
                                THEN Ended(scan[j], "failed") ELSE scan[j]]
    /\ scanner' = [scanner EXCEPT ![s] = Idle]
    /\ UNCHANGED <<row, disk, admin, reader, clock, incidents>>

\* Mutation: recovery leaves a scan alone that has no attempt left.
RecoverUnderLimit(s) ==
    /\ scanner[s].pc \in {"down", "idle"}
    /\ scan' = [j \in Scans |->
                  IF Expired(scan[j]) /\ scan[j].attempt < MaxAttempts
                  THEN [Ended(scan[j], "retry_wait") EXCEPT !.due = TRUE]
                  ELSE scan[j]]
    /\ scanner' = [scanner EXCEPT ![s] = Idle]
    /\ UNCHANGED <<row, disk, admin, reader, clock, incidents>>

\* RecoverExpiredScanJobs, when a process starts and then by its worker: every
\* expired scan waits for a retry, whatever its attempts and its flag.
Recover(s) ==
    /\ scanner[s].pc \in {"down", "idle"}
    /\ scan' = [j \in Scans |-> IF Expired(scan[j])
                                THEN [Ended(scan[j], "retry_wait") EXCEPT !.due = TRUE]
                                ELSE scan[j]]
    /\ scanner' = [scanner EXCEPT ![s] = Idle]
    /\ UNCHANGED <<row, disk, admin, reader, clock, incidents>>

-----------------------------------------------------------------------------
(* RequestScanCancellation: a read, an update guarded by the status read,  *)
(* and a second update when a waiting scan was not waiting any more.       *)

CancelRead(a, j) ==
    /\ admin[a].pc = "idle"
    /\ scan[j].status \in Active
    /\ admin' = [admin EXCEPT ![a] =
          [pc |-> IF scan[j].status = "running" THEN "running" ELSE "waiting",
           job |-> j]]
    /\ UNCHANGED <<scan, row, disk, scanner, reader, clock, incidents>>

CancelWaiting(a) ==
    /\ admin[a].pc = "waiting"
    /\ LET j == admin[a].job IN
        \/ /\ scan[j].status \in Waiting
           /\ scan' = [scan EXCEPT ![j].status = "cancelled", ![j].cancel = TRUE]
           /\ admin' = [admin EXCEPT ![a] = NoCancel]
        \/ /\ scan[j].status \notin Waiting
           /\ admin' = [admin EXCEPT ![a].pc = "running"]
           /\ UNCHANGED scan
    /\ UNCHANGED <<row, disk, scanner, reader, clock, incidents>>

CancelRunning(a) ==
    /\ admin[a].pc = "running"
    /\ LET j == admin[a].job IN
       scan' = IF scan[j].status = "running"
               THEN [scan EXCEPT ![j].cancel = TRUE] ELSE scan
    /\ admin' = [admin EXCEPT ![a] = NoCancel]
    /\ UNCHANGED <<row, disk, scanner, reader, clock, incidents>>

-----------------------------------------------------------------------------
(* ResolveMusicPath: a playback request reads the row of a source, resolves *)
(* its path, and saves the whole row when its availability is another.     *)

ReadSource(r, f) ==
    /\ reader[r].pc = "idle"
    /\ row[f].avail \in {"online", "offline"}
    /\ reader' = [reader EXCEPT ![r] =
                    [pc |-> "resolving", file |-> f, copy |-> row[f]]]
    /\ UNCHANGED <<scan, row, disk, scanner, admin, clock, incidents>>

ServeSource(r) ==
    /\ reader[r].pc = "resolving"
    /\ LET f == reader[r].file IN
        /\ disk[f] # NoContent
        /\ row' = IF reader[r].copy.avail = "online" THEN row
                  ELSE [row EXCEPT ![f] = [reader[r].copy EXCEPT !.avail = "online"]]
    /\ reader' = [reader EXCEPT ![r] = NoRead]
    /\ UNCHANGED <<scan, disk, scanner, admin, clock, incidents>>

\* The source is passed over because its root is disabled or known to be
\* offline, or the path does not resolve, whether or not the file is there: the
\* root is offline, or it is available (again).
LoseSource(r) ==
    /\ reader[r].pc = "resolving"
    /\ \/ UNCHANGED row
       \/ \E avail \in {"offline", "missing"} :
            row' = [row EXCEPT ![reader[r].file] =
                      [reader[r].copy EXCEPT !.avail = avail]]
    /\ reader' = [reader EXCEPT ![r] = NoRead]
    /\ UNCHANGED <<scan, disk, scanner, admin, clock, incidents>>

-----------------------------------------------------------------------------
(* The surroundings.                                                       *)

\* A file is made, replaced or removed.
ChangeFile(f, c) ==
    /\ disk[f] # c
    /\ disk' = [disk EXCEPT ![f] = c]
    /\ scanner' = [s \in Scanners |->
                     [scanner[s] EXCEPT !.steady = @ \ {f}, !.gone = @ \ {f}]]
    /\ UNCHANGED <<scan, row, admin, reader, clock, incidents>>

\* A lease runs out when nobody renews it, and sometimes under a live scanner.
LeaseExpires(j) ==
    /\ scan[j].live
    /\ scan' = [scan EXCEPT ![j].live = FALSE]
    /\ IF \E s \in Scanners : Holds(s, j) THEN Incident ELSE UNCHANGED incidents
    /\ UNCHANGED <<row, disk, scanner, admin, reader, clock>>

BecomesDue(j) ==
    /\ scan[j].status = "retry_wait"
    /\ ~scan[j].due
    /\ scan' = [scan EXCEPT ![j].due = TRUE]
    /\ UNCHANGED <<row, disk, scanner, admin, reader, clock, incidents>>

\* A process dies, or stops and leaves its lease to expire.
Crash(s) ==
    /\ scanner[s].pc # "down"
    /\ Incident
    /\ scanner' = [scanner EXCEPT ![s] = Down]
    /\ UNCHANGED <<scan, row, disk, admin, reader, clock>>

-----------------------------------------------------------------------------
Init ==
    /\ scan = [j \in Scans |-> NoScan]
    /\ row = [f \in Files |-> NoRow]
    /\ disk \in [Files -> Contents \cup {NoContent}]
    /\ scanner = [s \in Scanners |-> Down]
    /\ admin = [a \in Admins |-> NoCancel]
    /\ reader = [r \in Readers |-> NoRead]
    /\ clock = 0
    /\ incidents = 0

Pass(s) ==
    \/ Claim(s)
    \/ Probe(s)
    \/ CheckCancellation(s)
    \/ \E f \in Files : MissFile(s, f)
    \/ \E f \in Files : VisitFile(s, f)
    \/ RefreshFile(s)
    \/ ImportFile(s)
    \/ EndWalk(s)
    \/ MarkMissing(s)
    \/ Finish(s)

Trouble(s) ==
    \/ RenewLease(s)
    \/ WalkBreaks(s)
    \/ SkipDirectory(s)
    \/ RefreshLost(s)
    \/ MarkFails(s)
    \/ FinishFails(s)
    \/ Crash(s)

Cancel(a) ==
    \/ \E j \in Scans : CancelRead(a, j)
    \/ CancelWaiting(a)
    \/ CancelRunning(a)

Playback(r) ==
    \/ \E f \in Files : ReadSource(r, f)
    \/ ServeSource(r)
    \/ LoseSource(r)

Next ==
    \/ \E j \in Scans : StartScan(j)
    \/ \E s \in Scanners : Pass(s)
    \/ \E s \in Scanners : Trouble(s)
    \/ \E s \in Scanners : Recover(s)
    \/ \E a \in Admins : Cancel(a)
    \/ \E r \in Readers : Playback(r)
    \/ \E f \in Files : \E c \in Contents \cup {NoContent} : ChangeFile(f, c)
    \/ \E j \in Scans : LeaseExpires(j)
    \/ \E j \in Scans : BecomesDue(j)

Spec == Init /\ [][Next]_vars

(* Fairness.  A worker's loop comes round, a walk visits what there is to  *)
(* visit and ends, statements return, a lease nobody renews runs out, and  *)
(* a stopped process is started again.  Crashes, leases lost alive and     *)
(* failing writes stop after MaxIncidents: recovery retries without a      *)
(* limit, so a worker that dies in every pass is retried for ever.         *)
AbandonedLeaseExpires(j) ==
    LeaseExpires(j) /\ ~\E s \in Scanners : Holds(s, j)

Fairness ==
    /\ \A s \in Scanners : WF_vars(Pass(s)) /\ WF_vars(Recover(s))
    /\ \A j \in Scans : WF_vars(AbandonedLeaseExpires(j)) /\ WF_vars(BecomesDue(j))

FairSpec == Spec /\ Fairness

-----------------------------------------------------------------------------
(* Types.                                                                  *)

ScanJob == [status : {"absent"} \cup Active \cup Terminal, cancel : BOOLEAN,
            attempt : Nat, due : BOOLEAN, owner : Scanners \cup {NoScanner},
            gen : Nat, live : BOOLEAN]

Held == Contents \cup {NoContent}

FileRow == [hash : Held, stamp : Held,
            avail : {"none", "online", "offline", "changed", "missing"},
            seen : Nat]

ScannerState ==
    [pc : {"down", "idle", "probing", "walking", "reading", "marking", "finishing"},
     job : Scans \cup {0}, gen : Nat, attempt : Nat, start : Nat,
     todo : SUBSET Files, checked : BOOLEAN, failed : BOOLEAN,
     transient : BOOLEAN, file : Files \cup {NoContent}, copy : FileRow,
     content : Held, at : Nat,
     result : {"none", "retry_wait"} \cup Terminal,
     steady : SUBSET Files, gone : SUBSET Files, flagged : BOOLEAN]

\* Every variable has its type.
TypeOK ==
    /\ scan \in [Scans -> ScanJob]
    /\ row \in [Files -> FileRow]
    /\ disk \in [Files -> Held]
    /\ scanner \in [Scanners -> ScannerState]
    /\ admin \in [Admins -> [pc : {"idle", "waiting", "running"}, job : Scans \cup {0}]]
    /\ reader \in [Readers -> [pc : {"idle", "resolving"},
                               file : Files \cup {NoContent}, copy : FileRow]]
    /\ clock \in Nat
    /\ incidents \in 0..MaxIncidents

-----------------------------------------------------------------------------
(* The queue of scans.                                                     *)

\* A root has one scan at a time, through retries, recoveries and races with
\* cancellations; a scan has a lease owner exactly while it runs; and its
\* attempts beyond the retry limit are those that crashes and lost leases
\* cost: nothing else makes the scanner try again.
OneScanAtATime ==
    /\ Cardinality(ActiveScans) <= 1
    /\ \A j \in Scans :
        /\ scan[j].status = "running" <=> scan[j].owner # NoScanner
        /\ scan[j].attempt <= MaxAttempts + incidents

\* The lease of a scan: it is owned exactly while it runs, and only then alive.
LeaseIsTheScan ==
    \A j \in Scans :
        /\ scan[j].status = "running" <=> scan[j].owner # NoScanner
        /\ scan[j].live => scan[j].status = "running"

\* What a scanner holds: a scan, the attempt of the scan it may settle, a retry
\* only when an attempt is left; and when the scan was flagged before it was
\* claimed, the scanner has not begun to look at files.
ScannersAreSound ==
    \A s \in Scanners : Scanning(s) =>
        LET me == scanner[s] IN
        /\ me.job \in Scans
        /\ Holds(s, me.job) => me.attempt = scan[me.job].attempt
        /\ me.pc = "finishing" =>
            me.result # "none" /\ (me.result = "retry_wait" => me.attempt < MaxAttempts)
        /\ me.flagged =>
            /\ scan[me.job].cancel
            /\ me.pc \in {"probing", "walking", "finishing"}
            /\ ~me.checked

HeldAlive(j) == scan[j].live /\ \E s \in Scanners : Holds(s, j)

\* Attempts are paid for: up to the retry limit by retries, beyond it by
\* incidents; a scan that no live scanner works on has one attempt to spare.
AttemptsArePaid ==
    \A j \in Scans :
        /\ scan[j].attempt <= MaxAttempts + incidents
        /\ scan[j].status \notin Terminal /\ ~HeldAlive(j)
             => scan[j].attempt < MaxAttempts + incidents

\* What every step of the queue of scans preserves.
ScanInv ==
    /\ TypeOK
    /\ \A i, j \in ActiveScans : i = j
    /\ LeaseIsTheScan
    /\ ScannersAreSound
    /\ AttemptsArePaid

\* A scan that is settled stays as it is: no worker that lost its lease, no
\* recovery and no late cancellation brings it back or changes its outcome.
SettledScansFinal ==
    [][\A j \in Scans :
        scan[j].status \in Terminal => scan'[j] = scan[j]]_vars

\* A running scan whose lease is alive is ended only by the scanner that holds
\* it, with that scanner's result.
LiveScanRespected ==
    [][\A j \in Scans :
        scan[j].live /\ scan'[j].status # "running" =>
            \E s \in Scanners :
                /\ Holds(s, j)
                /\ scanner'[s].pc = "idle"
                /\ scan'[j].status = scanner[s].result]_vars

\* A cancellation that was set concurrently is not lost when the scanner writes
\* from its older copy (the comment of UpdateScanJob).
CancellationKept ==
    [][\A j \in Scans : scan[j].cancel => scan'[j].cancel]_vars

\* A scan that was asked to stop and is claimed once more, after a retry or a
\* recovery, which both keep the flag and do not look at it, stops before it
\* touches a file.
FlaggedScanTouchesNothing ==
    [][\A s \in Scanners :
        Scanning(s) /\ scanner[s].flagged /\ scanner'[s] # scanner[s]
          => row' = row]_vars

\* Every scan is settled some day, when crashes and lost leases stop.
ScansSettle ==
    \A j \in Scans : scan[j].status \in Active ~> scan[j].status \in Terminal

-----------------------------------------------------------------------------
(* The files.                                                              *)

MarksDone(s) ==
    /\ scanner[s].pc = "marking"
    /\ scanner'[s].pc = "finishing"
    /\ scanner'[s].result = "succeeded"

\* A pass marks vanished sources, and only those: a file that was there, fit
\* and unchanged, from the claim to the end of the walk is not marked missing.
\* (Not if the write that said so was lost and its error ignored.)
PresentFilesKept ==
    [][\A s \in Scanners : MarksDone(s) =>
        \A f \in scanner[s].steady :
            row'[f].avail = "missing" => row[f].avail = "missing"]_vars

\* After a pass that succeeded without failures, no file that was gone all the
\* time is offered for playback.
VanishedFilesMarked ==
    [][\A s \in Scanners : MarksDone(s) =>
        \A f \in scanner[s].gone : row'[f].avail \notin {"online", "offline"}]_vars

\* A copy of a known row has the content of the row.
CopiesKnowRows ==
    /\ \A s \in Scanners : scanner[s].copy.avail # "none" =>
        /\ scanner[s].file \in Files
        /\ row[scanner[s].file].avail # "none"
        /\ row[scanner[s].file].hash = scanner[s].copy.hash
    /\ \A r \in Readers : reader[r].pc = "resolving" =>
        /\ reader[r].file \in Files
        /\ reader[r].copy.avail # "none"
        /\ row[reader[r].file].avail # "none"
        /\ row[reader[r].file].hash = reader[r].copy.hash

\* Nothing has been seen in the future.
TimesArePast ==
    /\ \A f \in Files : row[f].seen <= clock
    /\ \A s \in Scanners :
        /\ scanner[s].at <= clock
        /\ scanner[s].copy.seen <= clock
    /\ \A r \in Readers : reader[r].copy.seen <= clock

\* A file that was gone all through a pass was seen before it, if ever: by
\* every scanner and in every copy.
GoneFilesUnseen ==
    \A s \in Scanners :
        \A f \in scanner[s].gone :
            /\ disk[f] = NoContent
            /\ row[f].seen < scanner[s].start
            /\ \A t \in Scanners : scanner[t].file = f =>
                /\ scanner[t].at < scanner[s].start
                /\ scanner[t].copy.seen < scanner[s].start
            /\ \A r \in Readers : reader[r].file = f =>
                reader[r].copy.seen < scanner[s].start

\* What every step that touches files preserves.
FilesInv == CopiesKnowRows /\ TimesArePast /\ GoneFilesUnseen

Underway == {"probing", "walking", "reading", "marking"}

\* One worker and no playback request: nobody else writes the root's rows.
WritesAlone == Readers = {} /\ \A s, t \in Scanners : s = t

\* What a worker that writes alone has in hand is what the row and the file
\* are, and it was taken in this pass; it marks files after a walk that saw all.
HandIsFresh(s) ==
    LET me == scanner[s] IN
    /\ me.pc \in Underway => me.start <= clock
    /\ me.pc = "reading" =>
        /\ me.file \in Files
        /\ me.start <= me.at
        /\ me.copy = row[me.file]
        /\ me.file \in me.steady => me.content = disk[me.file]
    /\ me.pc = "marking" => ~me.failed /\ me.todo = {}

\* A pass without failures leaves no steady file behind: the file is still to
\* be visited, in hand, seen in this pass, or it has no row.
SteadySeen(s, f) ==
    LET me == scanner[s] IN
    /\ disk[f] \in Contents \ Unfit
    /\ me.pc \in Underway /\ ~me.failed =>
        \/ f \in me.todo
        \/ me.pc = "reading" /\ me.file = f
        \/ me.start <= row[f].seen
        \/ row[f].avail = "none"

SteadyFilesSeen ==
    \A s \in Scanners :
        HandIsFresh(s) /\ \A f \in scanner[s].steady : SteadySeen(s, f)

\* A row keeps the content it was made from, whoever scans, replaces or plays
\* the file: a known source is never relinked or forgotten.
IdentityKept ==
    [][\A f \in Files : row[f].avail # "none" =>
        row'[f].avail # "none" /\ row'[f].hash = row[f].hash]_vars

\* The bytes of a known path may be replaced "without silently relinking the
\* logical track before an administrator accepts the replacement"
\* (domain.MediaFile): a scan that finds a source marked as changed puts it
\* back online only if its content is the row's again. It fails: the first pass
\* records the new size and time, and the second takes the path for unchanged
\* files.
ChangedStaysChanged ==
    [][\A s \in Scanners : \A f \in Files :
        /\ scanner[s].pc = "reading" /\ scanner'[s].pc = "walking"
        /\ scanner[s].file = f /\ scanner[s].copy.avail = "changed"
        /\ row'[f].avail = "online"
        => scanner[s].content = row'[f].hash]_vars
=============================================================================
