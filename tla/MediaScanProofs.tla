--------------------------- MODULE MediaScanProofs ---------------------------
(***************************************************************************)
(* Scans and files of the media library scanner: proofs for any files,     *)
(* contents, scanners, administrators, playback requests and bounds.       *)
(***************************************************************************)
EXTENDS MediaScan, FiniteSetTheorems, TLAPS

-----------------------------------------------------------------------------
(* What a step may do to one scan.                                         *)

Started(j) ==
    /\ scan[j].status = "absent"
    /\ ActiveScans = {}
    /\ scan'[j] = [scan[j] EXCEPT !.status = "pending"]
    /\ \A i \in Scans \ {j} : scan'[i] = scan[i]

Claimed(j) ==
    \E s \in Scanners :
        /\ scanner[s].pc = "idle"
        /\ j \in Claimable
        /\ scan'[j] = ClaimedScan(scan[j], s)
        /\ scanner'[s] = Begun(j)

Renewed(j) ==
    /\ \E s \in Scanners : Holds(s, j)
    /\ scanner' = scanner
    /\ scan'[j] = [scan[j] EXCEPT !.live = TRUE]

Completed(j) ==
    \E s \in Scanners :
        /\ scanner[s].pc = "finishing"
        /\ Holds(s, j)
        /\ scan'[j] = Ended(scan[j], scanner[s].result)
        /\ scanner' = [scanner EXCEPT ![s] = Idle]

Recovered(j) ==
    /\ Expired(scan[j])
    /\ scan'[j] = [Ended(scan[j], "retry_wait") EXCEPT !.due = TRUE]

CancelledAtOnce(j) ==
    /\ scan[j].status \in Waiting
    /\ scan'[j] = [scan[j] EXCEPT !.status = "cancelled", !.cancel = TRUE]

Flagged(j) ==
    /\ scan[j].status = "running"
    /\ scan'[j] = [scan[j] EXCEPT !.cancel = TRUE]

LeaseLost(j) ==
    /\ scan[j].live
    /\ scan'[j] = [scan[j] EXCEPT !.live = FALSE]
    /\ (\E s \in Scanners : Holds(s, j)) => incidents' = incidents + 1

MadeDue(j) ==
    /\ scan[j].status = "retry_wait"
    /\ scan'[j] = [scan[j] EXCEPT !.due = TRUE]

JobStep(j) ==
    \/ scan'[j] = scan[j]
    \/ Started(j)
    \/ Claimed(j)
    \/ Renewed(j)
    \/ Completed(j)
    \/ Recovered(j)
    \/ CancelledAtOnce(j)
    \/ Flagged(j)
    \/ LeaseLost(j)
    \/ MadeDue(j)

\* The actions that leave the scans alone.
LEMMA ScansAlone ==
    ASSUME [Next]_vars
    PROVE  \/ scan' = scan
           \/ \E j \in Scans : StartScan(j) \/ LeaseExpires(j) \/ BecomesDue(j)
           \/ \E s \in Scanners : Claim(s) \/ Finish(s) \/ RenewLease(s) \/ Recover(s)
           \/ \E a \in Admins : CancelWaiting(a) \/ CancelRunning(a)
<1>1. CASE UNCHANGED vars
  BY <1>1 DEF vars
<1>2. ASSUME NEW s \in Scanners, Pass(s)
      PROVE  Claim(s) \/ Finish(s) \/ scan' = scan
  BY <1>2 DEF Pass, Probe, CheckCancellation, MissFile, VisitFile, RefreshFile,
     ImportFile, EndWalk, MarkMissing
<1>3. ASSUME NEW s \in Scanners, Trouble(s)
      PROVE  RenewLease(s) \/ scan' = scan
  BY <1>3 DEF Trouble, WalkBreaks, SkipDirectory, RefreshLost, MarkFails,
     FinishFails, Crash
<1>4. ASSUME NEW a \in Admins, Cancel(a)
      PROVE  CancelWaiting(a) \/ CancelRunning(a) \/ scan' = scan
  BY <1>4 DEF Cancel, CancelRead
<1>5. ASSUME NEW r \in Readers, Playback(r)
      PROVE  scan' = scan
  BY <1>5 DEF Playback, ReadSource, ServeSource, LoseSource
<1>6. ASSUME NEW f \in Files, NEW c \in Contents \cup {NoContent}, ChangeFile(f, c)
      PROVE  scan' = scan
  BY <1>6 DEF ChangeFile
<1>7. QED
  BY <1>1, <1>2, <1>3, <1>4, <1>5, <1>6 DEF Next

\* A step changes each scan in one of ten ways.
LEMMA JobSteps ==
    ASSUME TypeOK, ScannersAreSound, [Next]_vars, NEW j \in Scans
    PROVE  JobStep(j)
<1>0. scan \in [Scans -> ScanJob] /\ scanner \in [Scanners -> ScannerState]
  BY DEF TypeOK
<1>1. CASE scan' = scan
  BY <1>1 DEF JobStep
<1>2. ASSUME NEW i \in Scans, StartScan(i)
      PROVE  JobStep(j)
  <2>1. \A k \in Scans : scan'[k] =
          IF k = i THEN [scan[k] EXCEPT !.status = "pending"] ELSE scan[k]
    BY <1>0, <1>2 DEF StartScan, ScanJob
  <2>2. QED
    BY <1>2, <2>1 DEF StartScan, JobStep, Started
<1>3. ASSUME NEW i \in Scans, LeaseExpires(i)
      PROVE  JobStep(j)
  <2>1. scan'[j] = IF j = i THEN [scan[j] EXCEPT !.live = FALSE] ELSE scan[j]
    BY <1>0, <1>3 DEF LeaseExpires, ScanJob
  <2>2. QED
    BY <1>3, <2>1 DEF LeaseExpires, Incident, JobStep, LeaseLost
<1>4. ASSUME NEW i \in Scans, BecomesDue(i)
      PROVE  JobStep(j)
  <2>1. scan'[j] = IF j = i THEN [scan[j] EXCEPT !.due = TRUE] ELSE scan[j]
    BY <1>0, <1>4 DEF BecomesDue, ScanJob
  <2>2. QED
    BY <1>4, <2>1 DEF BecomesDue, JobStep, MadeDue
<1>5. ASSUME NEW s \in Scanners, Claim(s)
      PROVE  JobStep(j)
  <2>1. PICK i \in Claimable :
          /\ scan' = [scan EXCEPT ![i] = ClaimedScan(@, s)]
          /\ scanner'[s] = Begun(i)
    BY <1>0, <1>5 DEF Claim
  <2>2. scan'[j] = IF j = i THEN ClaimedScan(scan[j], s) ELSE scan[j]
    BY <1>0, <2>1 DEF Claimable
  <2>3. QED
    BY <1>5, <2>1, <2>2 DEF Claim, JobStep, Claimed
<1>6. ASSUME NEW s \in Scanners, Finish(s)
      PROVE  JobStep(j)
  <2>1. scanner[s].job \in Scans
    BY <1>6 DEF Finish, ScannersAreSound, Scanning
  <2>2. CASE Holds(s, scanner[s].job)
    <3>1. scan'[j] = IF j = scanner[s].job THEN Ended(scan[j], scanner[s].result)
                                           ELSE scan[j]
      BY <1>0, <1>6, <2>1, <2>2 DEF Finish
    <3>2. QED
      BY <1>6, <2>2, <3>1 DEF Finish, JobStep, Completed
  <2>3. CASE ~Holds(s, scanner[s].job)
    BY <1>6, <2>3 DEF Finish, JobStep
  <2>4. QED
    BY <2>2, <2>3
<1>7. ASSUME NEW s \in Scanners, RenewLease(s)
      PROVE  JobStep(j)
  <2>1. scanner[s].job \in Scans
    BY <1>7 DEF RenewLease, ScannersAreSound, Scanning
  <2>2. CASE Holds(s, scanner[s].job)
    <3>1. scan'[j] = IF j = scanner[s].job THEN [scan[j] EXCEPT !.live = TRUE]
                                           ELSE scan[j]
      BY <1>0, <1>7, <2>1, <2>2 DEF RenewLease, ScanJob
    <3>2. QED
      BY <1>7, <2>2, <3>1 DEF RenewLease, JobStep, Renewed
  <2>3. CASE ~Holds(s, scanner[s].job)
    BY <1>7, <2>3 DEF RenewLease, JobStep
  <2>4. QED
    BY <2>2, <2>3
<1>8. ASSUME NEW s \in Scanners, Recover(s)
      PROVE  JobStep(j)
  BY <1>8 DEF Recover, JobStep, Recovered
<1>9. ASSUME NEW a \in Admins, CancelWaiting(a)
      PROVE  JobStep(j)
  <2>1. \/ scan' = scan
        \/ /\ scan[admin[a].job].status \in Waiting
           /\ scan' = [scan EXCEPT ![admin[a].job].status = "cancelled",
                                   ![admin[a].job].cancel = TRUE]
    BY <1>9 DEF CancelWaiting
  <2>2. CASE scan' = scan
    BY <2>2 DEF JobStep
  <2>3. CASE /\ scan[admin[a].job].status \in Waiting
             /\ scan' = [scan EXCEPT ![admin[a].job].status = "cancelled",
                                     ![admin[a].job].cancel = TRUE]
    <3>1. scan'[j] = IF j = admin[a].job
                     THEN [scan[j] EXCEPT !.status = "cancelled", !.cancel = TRUE]
                     ELSE scan[j]
      BY <1>0, <2>3 DEF ScanJob
    <3>2. QED
      BY <2>3, <3>1 DEF JobStep, CancelledAtOnce
  <2>4. QED
    BY <2>1, <2>2, <2>3
<1>10. ASSUME NEW a \in Admins, CancelRunning(a)
       PROVE  JobStep(j)
  <2>1. CASE scan[admin[a].job].status = "running"
    <3>1. scan'[j] = IF j = admin[a].job THEN [scan[j] EXCEPT !.cancel = TRUE]
                                         ELSE scan[j]
      BY <1>0, <1>10, <2>1 DEF CancelRunning, ScanJob
    <3>2. QED
      BY <2>1, <3>1 DEF JobStep, Flagged
  <2>2. CASE scan[admin[a].job].status # "running"
    BY <1>10, <2>2 DEF CancelRunning, JobStep
  <2>3. QED
    BY <2>1, <2>2
<1>11. QED
  BY <1>1, <1>2, <1>3, <1>4, <1>5, <1>6, <1>7, <1>8, <1>9, <1>10, ScansAlone

-----------------------------------------------------------------------------
(* Types.                                                                  *)

\* The values records are made of.
LEMMA Records ==
    /\ NoScan \in ScanJob
    /\ NoRow \in FileRow
    /\ Idle \in ScannerState
    /\ Down \in ScannerState
    /\ \A c \in Held, n \in Nat : NewRow(c, n) \in FileRow
    /\ \A old \in FileRow, n \in Nat,
          v \in {"none", "online", "offline", "changed", "missing"} :
         Seen(old, v, n) \in FileRow
    /\ \A n \in Nat : RetryOrFail(n) \in {"failed", "retry_wait"}
<1>1. NoScan \in ScanJob
  BY DEF NoScan, ScanJob
<1>2. NoRow \in FileRow
  BY DEF NoRow, FileRow, Held
<1>3. Idle \in ScannerState
  BY <1>2 DEF Idle, ScannerState, Held
<1>4. Down \in ScannerState
  BY <1>3 DEF Down, Idle, ScannerState
<1>5. \A c \in Held, n \in Nat : NewRow(c, n) \in FileRow
  BY DEF NewRow, FileRow, Held
<1>6. \A old \in FileRow, n \in Nat,
         v \in {"none", "online", "offline", "changed", "missing"} :
        Seen(old, v, n) \in FileRow
  BY DEF Seen, FileRow
<1>7. \A n \in Nat : RetryOrFail(n) \in {"failed", "retry_wait"}
  BY DEF RetryOrFail
<1>8. QED
  BY <1>1, <1>2, <1>3, <1>4, <1>5, <1>6, <1>7

\* What a scanner's record may become.
LEMMA ScannerRecords ==
    ASSUME NEW me \in ScannerState
    PROVE  /\ \A result \in {"retry_wait"} \cup Terminal :
                Finishing(me, result) \in ScannerState
           /\ \A failed \in BOOLEAN, transient \in BOOLEAN :
                FileDone(me, failed, transient) \in ScannerState
           /\ AfterFailure(me.attempt) \subseteq {"failed", "retry_wait"}
<1>1. \A result \in {"retry_wait"} \cup Terminal : Finishing(me, result) \in ScannerState
  BY DEF Finishing, ScannerState
<1>2. \A failed \in BOOLEAN, transient \in BOOLEAN :
        FileDone(me, failed, transient) \in ScannerState
  BY ZenonT(40), Records DEF FileDone, ScannerState, Held
<1>3. AfterFailure(me.attempt) \subseteq {"failed", "retry_wait"}
  BY DEF AfterFailure, RetryOrFail
<1>4. QED
  BY <1>1, <1>2, <1>3

\* A save leaves the content of a row alone.
LEMMA SavedRows ==
    ASSUME NEW old \in FileRow, NEW new, NEW n \in Nat, NEW c \in Held,
           NEW v \in {"online", "offline", "changed"},
           \/ new = [old EXCEPT !.seen = n]
           \/ new = [old EXCEPT !.avail = v]
           \/ new = Seen(old, v, n)
           \/ new = [Seen(old, v, n) EXCEPT !.stamp = c]
    PROVE  /\ new \in FileRow
           /\ new.hash = old.hash
           /\ old.avail # "none" => new.avail # "none"
           /\ new.seen \in {old.seen, n}
  BY DEF Seen, FileRow, Held

\* What an outcome is.
LEMMA Outcomes ==
    ASSUME NEW old \in FileRow, NEW c \in Held, NEW at \in Nat,
           NEW o \in KnownOutcomes(old, c, at) \cup Hashed(old, c, at)
    PROVE  /\ o.row \in FileRow
           /\ o.failed \in BOOLEAN
           /\ o.transient \in BOOLEAN
           /\ o.row.hash = old.hash
           /\ old.avail # "none" => o.row.avail # "none"
           /\ o.row.seen \in {old.seen, at}
<1>1. PICK v \in {"online", "offline", "changed"} :
        \/ o.row = [old EXCEPT !.seen = at]
        \/ o.row = [old EXCEPT !.avail = v]
        \/ o.row = Seen(old, v, at)
        \/ o.row = [Seen(old, v, at) EXCEPT !.stamp = c]
  BY DEF KnownOutcomes, TooYoung, Unreadable, Busy, Untouched, Hashed, Fine, Outcome
<1>2. o.failed \in BOOLEAN /\ o.transient \in BOOLEAN
  <2>1. \A saved : \A x \in Fine(saved) : x.failed = FALSE /\ x.transient = FALSE
    BY DEF Fine, Outcome
  <2>2. CASE o \in Unreadable(old)
    <3>1. PICK t \in BOOLEAN : o = Outcome([old EXCEPT !.avail = "offline"], TRUE, t)
      BY <2>2 DEF Unreadable
    <3>2. o.failed = TRUE /\ o.transient = t
      BY <3>1, Zenon DEF Outcome
    <3>3. QED
      BY <3>2, Zenon
  <2>3. CASE o \in Busy(old, at)
    <3>1. PICK t \in BOOLEAN : o = Outcome(Seen(old, "changed", at), FALSE, t)
      BY <2>3 DEF Busy
    <3>2. o.failed = FALSE /\ o.transient = t
      BY <3>1, Zenon DEF Outcome
    <3>3. QED
      BY <3>2, Zenon
  <2>4. CASE \E saved : o \in Fine(saved)
    BY <2>1, <2>4
  <2>5. QED
    BY <2>2, <2>3, <2>4 DEF KnownOutcomes, TooYoung, Untouched, Hashed
<1>3. QED
  BY <1>1, <1>2, SavedRows

\* An ended scan.
LEMMA EndedScans ==
    ASSUME NEW job \in ScanJob, NEW status \in {"retry_wait"} \cup Terminal
    PROVE  Ended(job, status) \in ScanJob
<1>1. \A due \in BOOLEAN :
        [job EXCEPT !.status = status, !.due = due,
                    !.owner = NoScanner, !.live = FALSE] \in ScanJob
  BY DEF ScanJob, Active, Waiting
<1>2. (status # "retry_wait") \in BOOLEAN
  OBVIOUS
<1>3. QED
  BY <1>1, <1>2, Zenon DEF Ended

\* What a scan's row may become.
LEMMA ScanRecords ==
    ASSUME NEW job \in ScanJob
    PROVE  /\ [job EXCEPT !.status = "pending"] \in ScanJob
           /\ [job EXCEPT !.live = TRUE] \in ScanJob
           /\ [job EXCEPT !.live = FALSE] \in ScanJob
           /\ [job EXCEPT !.due = TRUE] \in ScanJob
           /\ [job EXCEPT !.cancel = TRUE] \in ScanJob
           /\ [job EXCEPT !.status = "cancelled", !.cancel = TRUE] \in ScanJob
  BY DEF ScanJob, Active, Waiting, Terminal

\* A claim makes a scan's row of a scan's row.
LEMMA ClaimedScans ==
    ASSUME NEW job \in ScanJob, NEW s \in Scanners
    PROVE  ClaimedScan(job, s) \in ScanJob
<1>1. job.attempt + 1 \in Nat /\ job.gen + 1 \in Nat
  BY DEF ScanJob
<1>2. QED
  BY <1>1 DEF ClaimedScan, ScanJob, Active

\* What a scanner holds when it begins a pass.
LEMMA BegunScans ==
    ASSUME TypeOK, NEW j \in Scans
    PROVE  Begun(j) \in ScannerState
<1>1. scan[j] \in ScanJob /\ clock \in Nat
  BY DEF TypeOK
<1>2. /\ scan[j].gen + 1 \in Nat /\ scan[j].attempt + 1 \in Nat /\ clock + 1 \in Nat
      /\ scan[j].cancel \in BOOLEAN
  BY <1>1 DEF ScanJob
<1>3. \A gen \in Nat, attempt \in Nat, start \in Nat :
        [Idle EXCEPT !.pc = "probing", !.job = j, !.gen = gen, !.attempt = attempt,
                     !.start = start] \in ScannerState
  BY Records DEF ScannerState
<1>4. \A me \in ScannerState, flagged \in BOOLEAN,
         steady \in SUBSET Files, gone \in SUBSET Files :
        [me EXCEPT !.todo = Files, !.flagged = flagged,
                   !.steady = steady, !.gone = gone] \in ScannerState
  BY ZenonT(40) DEF ScannerState
<1>5. /\ {f \in Files : disk[f] \in Contents \ Unfit} \in SUBSET Files
      /\ {f \in Files : disk[f] = NoContent} \in SUBSET Files
  OBVIOUS
<1>6. QED
  BY <1>2, <1>3, <1>4, <1>5 DEF Begun

\* A step that only gives a scanner another record.
LEMMA OnlyScanner ==
    ASSUME TypeOK, NEW s \in Scanners, NEW new \in ScannerState,
           scanner' = [scanner EXCEPT ![s] = new],
           UNCHANGED <<scan, row, disk, admin, reader, clock>>,
           incidents' \in 0..MaxIncidents
    PROVE  TypeOK'
  BY DEF TypeOK

\* The scanner a step updates has a record again.
LEMMA PassTypes ==
    ASSUME TypeOK, ScannersAreSound, NEW s \in Scanners, Pass(s)
    PROVE  TypeOK'
<1> USE DEF TypeOK
<1>0. scanner[s] \in ScannerState /\ incidents \in 0..MaxIncidents
  OBVIOUS
<1>1. CASE Claim(s)
  <2>1. PICK j \in Claimable : /\ scan' = [scan EXCEPT ![j] = ClaimedScan(@, s)]
                               /\ scanner' = [scanner EXCEPT ![s] = Begun(j)]
    BY <1>1 DEF Claim
  <2>2. j \in Scans /\ scan[j] \in ScanJob
    BY <2>1 DEF Claimable
  <2>3. ClaimedScan(scan[j], s) \in ScanJob
    BY <2>2, ClaimedScans
  <2>4. Begun(j) \in ScannerState
    BY <2>2, BegunScans
  <2>5. clock' \in Nat
    BY <1>1 DEF Claim
  <2>6. scan' \in [Scans -> ScanJob]
    BY <2>1, <2>3
  <2>7. scanner' \in [Scanners -> ScannerState]
    BY <2>1, <2>4
  <2>8. QED
    BY <1>1, <2>5, <2>6, <2>7 DEF Claim
<1>2. CASE Probe(s)
  <2>1. [scanner[s] EXCEPT !.pc = "walking"] \in ScannerState
    BY <1>0 DEF ScannerState
  <2>2. QED
    BY <1>0, <1>2, <2>1, ScannerRecords, OnlyScanner DEF Probe, Terminal
<1>3. CASE CheckCancellation(s)
  <2>1. [scanner[s] EXCEPT !.checked = TRUE] \in ScannerState
    BY <1>0 DEF ScannerState
  <2>2. QED
    BY <1>0, <1>3, <2>1, ScannerRecords DEF CheckCancellation, Terminal
<1>4. ASSUME NEW f \in Files, MissFile(s, f)
      PROVE  TypeOK'
  <2> DEFINE new(failed) == [scanner[s] EXCEPT !.todo = scanner[s].todo \ {f}, !.failed = failed]
  <2>1. \A failed \in BOOLEAN : new(failed) \in ScannerState
    BY <1>0 DEF ScannerState
  <2>2. scanner[s].failed \in BOOLEAN
    BY <1>0 DEF ScannerState
  <2>3. PICK failed \in BOOLEAN : scanner' = [scanner EXCEPT ![s] = new(failed)]
    BY <1>4, <2>2 DEF MissFile
  <2>4. UNCHANGED <<scan, row, disk, admin, reader, clock, incidents>>
    BY <1>4 DEF MissFile
  <2> HIDE DEF new
  <2>5. QED
    BY <1>0, <2>1, <2>3, <2>4, OnlyScanner
<1>5. ASSUME NEW f \in Files, VisitFile(s, f)
      PROVE  TypeOK'
  <2> DEFINE new == [scanner[s] EXCEPT !.pc = "reading", !.todo = scanner[s].todo \ {f}, !.file = f,
                       !.copy = row[f], !.content = disk[f], !.at = clock]
  <2>1. new \in ScannerState
    BY <1>0 DEF ScannerState
  <2>2. scanner' = [scanner EXCEPT ![s] = new]
    BY <1>5 DEF VisitFile
  <2>3. UNCHANGED <<scan, row, disk, admin, reader, clock, incidents>>
    BY <1>5 DEF VisitFile
  <2> HIDE DEF new
  <2>4. QED
    BY <1>0, <2>1, <2>2, <2>3, OnlyScanner
<1>6. CASE RefreshFile(s)
  <2>1. PICK o \in KnownOutcomes(scanner[s].copy, scanner[s].content, scanner[s].at)
                   \cup Hashed(scanner[s].copy, scanner[s].content, scanner[s].at) :
          /\ row' = [row EXCEPT ![scanner[s].file] = o.row]
          /\ scanner' = [scanner EXCEPT ![s] =
               FileDone(@, @.failed \/ o.failed, @.transient \/ o.transient)]
    BY <1>6 DEF RefreshFile
  <2>2. /\ scanner[s].copy \in FileRow
        /\ scanner[s].content \in Held
        /\ scanner[s].at \in Nat
    BY <1>0 DEF ScannerState
  <2>3. o.row \in FileRow
    BY <2>2, Outcomes
  <2>4. FileDone(scanner[s], scanner[s].failed \/ o.failed,
                 scanner[s].transient \/ o.transient) \in ScannerState
    BY <1>0, ScannerRecords
  <2>5. QED
    BY <1>6, <2>1, <2>3, <2>4 DEF RefreshFile
<1>7. CASE ImportFile(s)
  <2>1. PICK failed \in {scanner[s].failed, TRUE},
             transient \in {scanner[s].transient, TRUE} :
          /\ \/ row' = [row EXCEPT ![scanner[s].file] =
                           NewRow(scanner[s].content, scanner[s].at)]
             \/ UNCHANGED row
          /\ scanner' = [scanner EXCEPT ![s] = FileDone(@, failed, transient)]
    BY <1>7 DEF ImportFile
  <2>2. /\ scanner[s].failed \in BOOLEAN
        /\ scanner[s].transient \in BOOLEAN
        /\ scanner[s].content \in Held
        /\ scanner[s].at \in Nat
    BY <1>0 DEF ScannerState
  <2>3. NewRow(scanner[s].content, scanner[s].at) \in FileRow
    BY <2>2, Records
  <2>4. FileDone(scanner[s], failed, transient) \in ScannerState
    BY <1>0, <2>2, ScannerRecords
  <2>5. QED
    BY <1>7, <2>1, <2>3, <2>4 DEF ImportFile
<1>8. CASE EndWalk(s)
  <2>1. [scanner[s] EXCEPT !.pc = "marking"] \in ScannerState
    BY <1>0 DEF ScannerState
  <2>2. QED
    BY <1>0, <1>8, <2>1, ScannerRecords, OnlyScanner DEF EndWalk, Terminal
<1>9. CASE MarkMissing(s)
  <2>1. \A f \in Files : [row[f] EXCEPT !.avail = "missing"] \in FileRow
    BY DEF FileRow
  <2>2. row' \in [Files -> FileRow]
    BY <1>9, <2>1 DEF MarkMissing
  <2>3. Finishing(scanner[s], "succeeded") \in ScannerState
    BY <1>0, ScannerRecords DEF Terminal
  <2>4. scanner' \in [Scanners -> ScannerState]
    BY <1>9, <2>3 DEF MarkMissing
  <2>5. QED
    BY <1>9, <2>2, <2>4 DEF MarkMissing
<1>10. CASE Finish(s)
  <2>1. scanner[s].job \in Scans /\ scanner[s].result \in {"retry_wait"} \cup Terminal
    BY <1>0, <1>10 DEF Finish, ScannersAreSound, Scanning, ScannerState
  <2>2. Ended(scan[scanner[s].job], scanner[s].result) \in ScanJob
    BY <2>1, EndedScans
  <2>3. QED
    BY <1>10, <2>1, <2>2, Records DEF Finish
<1>11. QED
  BY <1>1, <1>2, <1>3, <1>4, <1>5, <1>6, <1>7, <1>8, <1>9, <1>10 DEF Pass

\* So does the scanner that meets trouble.
LEMMA TroubleTypes ==
    ASSUME TypeOK, ScannersAreSound, NEW s \in Scanners, Trouble(s)
    PROVE  TypeOK'
<1>0. /\ scanner[s] \in ScannerState /\ Idle \in ScannerState /\ Down \in ScannerState
      /\ incidents \in 0..MaxIncidents
      /\ Incident => incidents' \in 0..MaxIncidents
  BY Records, ScanConstants DEF TypeOK, Incident
<1>1. CASE RenewLease(s)
  <2>1. CASE Holds(s, scanner[s].job)
    <3>1. \A j \in Scans : [scan[j] EXCEPT !.live = TRUE] \in ScanJob
      BY ScanRecords DEF TypeOK
    <3>2. scan' \in [Scans -> ScanJob]
      BY <1>1, <2>1, <3>1 DEF RenewLease, TypeOK
    <3>3. QED
      BY <1>1, <2>1, <3>2 DEF RenewLease, TypeOK
  <2>2. CASE ~Holds(s, scanner[s].job)
    BY <1>0, <1>1, <2>2, OnlyScanner DEF RenewLease
  <2>3. QED
    BY <2>1, <2>2
<1>2. CASE WalkBreaks(s)
  BY <1>0, <1>2, ScannerRecords, OnlyScanner DEF WalkBreaks, Terminal
<1>3. CASE SkipDirectory(s)
  <2> DEFINE new(hidden, transient) ==
               [scanner[s] EXCEPT !.todo = scanner[s].todo \ hidden, !.failed = TRUE,
                                  !.transient = transient]
  <2>1. \A hidden \in SUBSET scanner[s].todo, transient \in {scanner[s].transient, TRUE} :
          new(hidden, transient) \in ScannerState
    BY <1>0 DEF ScannerState
  <2>2. PICK hidden \in SUBSET scanner[s].todo, transient \in {scanner[s].transient, TRUE} :
          scanner' = [scanner EXCEPT ![s] = new(hidden, transient)]
    BY <1>3 DEF SkipDirectory
  <2>3. UNCHANGED <<scan, row, disk, admin, reader, clock, incidents>>
    BY <1>3 DEF SkipDirectory
  <2> HIDE DEF new
  <2>4. QED
    BY <1>0, <2>1, <2>2, <2>3, OnlyScanner
<1>4. CASE RefreshLost(s)
  <2> DEFINE done(f, t) == FileDone(scanner[s], scanner[s].failed \/ f, scanner[s].transient \/ t)
             new(f, t) == [done(f, t) EXCEPT !.steady =
                             IF f THEN scanner[s].steady
                                  ELSE scanner[s].steady \ {scanner[s].file}]
  <2>1. PICK f \in BOOLEAN, t \in BOOLEAN : scanner' = [scanner EXCEPT ![s] = new(f, t)]
    BY <1>4 DEF RefreshLost
  <2>2. done(f, t) \in ScannerState
    BY <1>0, ScannerRecords
  <2>3. scanner[s].steady \in SUBSET Files
    BY <1>0 DEF ScannerState
  <2> HIDE DEF done
  <2>4. new(f, t) \in ScannerState
    BY <2>2, <2>3 DEF ScannerState
  <2>5. UNCHANGED <<scan, row, disk, admin, reader, clock>> /\ Incident
    BY <1>4 DEF RefreshLost
  <2> HIDE DEF new
  <2>6. QED
    BY <1>0, <2>1, <2>4, <2>5, OnlyScanner
<1>5. CASE MarkFails(s)
  BY <1>0, <1>5, ScannerRecords, OnlyScanner DEF MarkFails, Terminal
<1>6. CASE FinishFails(s)
  BY <1>0, <1>6, OnlyScanner DEF FinishFails
<1>7. CASE Crash(s)
  BY <1>0, <1>7, OnlyScanner DEF Crash
<1>8. QED
  BY <1>1, <1>2, <1>3, <1>4, <1>5, <1>6, <1>7 DEF Trouble

\* A step keeps every variable in its type.
LEMMA TypeStep ==
    ASSUME TypeOK, ScannersAreSound, [Next]_vars
    PROVE  TypeOK'
<1>1. CASE UNCHANGED vars
  BY <1>1 DEF vars, TypeOK
<1>2. ASSUME NEW j \in Scans, StartScan(j)
      PROVE  TypeOK'
  <2>1. [scan[j] EXCEPT !.status = "pending"] \in ScanJob
    BY ScanRecords DEF TypeOK
  <2>2. QED
    BY <1>2, <2>1 DEF StartScan, TypeOK
<1>3. ASSUME NEW s \in Scanners, Recover(s)
      PROVE  TypeOK'
  <2>1. \A job \in ScanJob : [Ended(job, "retry_wait") EXCEPT !.due = TRUE] \in ScanJob
    BY EndedScans DEF ScanJob
  <2>2. scan' \in [Scans -> ScanJob]
    BY <1>3, <2>1 DEF Recover, TypeOK
  <2>3. QED
    BY <1>3, <2>2, Records DEF Recover, TypeOK
<1>4. ASSUME NEW a \in Admins, Cancel(a)
      PROVE  TypeOK'
  <2>1. ASSUME NEW j \in Scans, CancelRead(a, j)
        PROVE  TypeOK'
    BY <2>1 DEF CancelRead, TypeOK
  <2>2. CASE CancelWaiting(a)
    <3>1. \A j \in Scans : [scan[j] EXCEPT !.status = "cancelled", !.cancel = TRUE] \in ScanJob
      BY ScanRecords DEF TypeOK
    <3>2. scan' \in [Scans -> ScanJob]
      <4>1. CASE scan' = scan
        BY <4>1 DEF TypeOK
      <4>2. CASE scan' = [scan EXCEPT ![admin[a].job].status = "cancelled",
                                      ![admin[a].job].cancel = TRUE]
        BY <3>1, <4>2 DEF TypeOK
      <4>3. QED
        BY <2>2, <4>1, <4>2 DEF CancelWaiting
    <3>3. admin' \in [Admins -> [pc : {"idle", "waiting", "running"}, job : Scans \cup {0}]]
      BY <2>2 DEF CancelWaiting, NoCancel, TypeOK
    <3>4. QED
      BY <2>2, <3>2, <3>3 DEF CancelWaiting, TypeOK
  <2>3. CASE CancelRunning(a)
    <3>1. \A j \in Scans : [scan[j] EXCEPT !.cancel = TRUE] \in ScanJob
      BY ScanRecords DEF TypeOK
    <3>2. scan' \in [Scans -> ScanJob]
      BY <2>3, <3>1 DEF CancelRunning, TypeOK
    <3>3. QED
      BY <2>3, <3>2 DEF CancelRunning, NoCancel, TypeOK
  <2>4. QED
    BY <1>4, <2>1, <2>2, <2>3 DEF Cancel
<1>5. ASSUME NEW r \in Readers, Playback(r)
      PROVE  TypeOK'
  <2>0. NoRead \in [pc : {"idle", "resolving"}, file : Files \cup {NoContent}, copy : FileRow]
    BY Records DEF NoRead
  <2>1. ASSUME NEW f \in Files, ReadSource(r, f)
        PROVE  TypeOK'
    BY <2>1 DEF ReadSource, TypeOK
  <2>2. \A v \in {"online", "offline", "missing"} :
          [reader[r].copy EXCEPT !.avail = v] \in FileRow
    BY DEF TypeOK, FileRow
  <2>3. CASE ServeSource(r)
    BY <2>0, <2>2, <2>3 DEF ServeSource, TypeOK
  <2>4. CASE LoseSource(r)
    BY <2>0, <2>2, <2>4 DEF LoseSource, TypeOK
  <2>5. QED
    BY <1>5, <2>1, <2>3, <2>4 DEF Playback
<1>6. ASSUME NEW f \in Files, NEW c \in Contents \cup {NoContent}, ChangeFile(f, c)
      PROVE  TypeOK'
  <2>1. \A s \in Scanners :
          [scanner[s] EXCEPT !.steady = @ \ {f}, !.gone = @ \ {f}] \in ScannerState
    <3>1. \A s \in Scanners : scanner[s] \in ScannerState
      BY DEF TypeOK
    <3>2. ASSUME NEW me \in ScannerState, NEW A \in SUBSET Files, NEW B \in SUBSET Files
          PROVE  [me EXCEPT !.steady = A, !.gone = B] \in ScannerState
      BY DEF ScannerState
    <3>3. \A me \in ScannerState :
            me.steady \ {f} \in SUBSET Files /\ me.gone \ {f} \in SUBSET Files
      BY DEF ScannerState
    <3>4. QED
      BY <3>1, <3>2, <3>3
  <2>2. scanner' \in [Scanners -> ScannerState]
    BY <1>6, <2>1 DEF ChangeFile
  <2>3. disk' \in [Files -> Held]
    BY <1>6 DEF ChangeFile, TypeOK, Held
  <2>4. QED
    BY <1>6, <2>2, <2>3 DEF ChangeFile, TypeOK
<1>7. ASSUME NEW j \in Scans, LeaseExpires(j)
      PROVE  TypeOK'
  <2>1. [scan[j] EXCEPT !.live = FALSE] \in ScanJob
    BY ScanRecords DEF TypeOK
  <2>2. incidents' \in 0..MaxIncidents
    BY <1>7, ScanConstants DEF LeaseExpires, Incident, TypeOK
  <2>3. QED
    BY <1>7, <2>1, <2>2 DEF LeaseExpires, TypeOK
<1>8. ASSUME NEW j \in Scans, BecomesDue(j)
      PROVE  TypeOK'
  <2>1. [scan[j] EXCEPT !.due = TRUE] \in ScanJob
    BY ScanRecords DEF TypeOK
  <2>2. QED
    BY <1>8, <2>1 DEF BecomesDue, TypeOK
<1>9. QED
  BY <1>1, <1>2, <1>3, <1>4, <1>5, <1>6, <1>7, <1>8, PassTypes, TroubleTypes DEF Next

-----------------------------------------------------------------------------
(* What a step may do to one scanner.                                      *)

Begins(s) ==
    /\ scanner[s].pc = "idle"
    /\ \E j \in Claimable :
        /\ scan' = [scan EXCEPT ![j] = ClaimedScan(@, s)]
        /\ scanner'[s] = Begun(j)
    /\ UNCHANGED <<row, incidents>>

Released(s) ==
    /\ scanner'[s].pc \in {"down", "idle"}
    /\ \A j \in Scans : Holds(s, j) =>
        incidents' = incidents + 1 \/ scan'[j].status # "running"
    /\ UNCHANGED row

Continued(s) ==
    /\ scanner'[s].job = scanner[s].job
    /\ scanner'[s].gen = scanner[s].gen
    /\ scanner'[s].attempt = scanner[s].attempt
    /\ scanner'[s].flagged = scanner[s].flagged
    /\ scanner'[s].pc \in {"down", "idle"} <=> scanner[s].pc \in {"down", "idle"}
    /\ Scanning(s) /\ scanner'[s].pc = "finishing" =>
        /\ scanner'[s].result # "none"
        /\ scanner'[s].result = "retry_wait" => scanner[s].attempt < MaxAttempts
    /\ Scanning(s) /\ scanner[s].flagged =>
        /\ scanner'[s].pc \in {"probing", "walking", "finishing"}
        /\ ~scanner'[s].checked
        /\ scanner'[s] # scanner[s] => row' = row

ScannerStep(s) == Begins(s) \/ Released(s) \/ Continued(s)

\* A scanner that a step leaves alone continues.
LEMMA LeftAlone ==
    ASSUME ScannersAreSound, NEW s \in Scanners, scanner'[s] = scanner[s]
    PROVE  Continued(s)
  BY DEF ScannersAreSound, Continued, Scanning

\* What is decided after a failure, the retry limit included.
LEMMA Failures ==
    ASSUME NEW me \in ScannerState, NEW result \in AfterFailure(me.attempt)
    PROVE  /\ result \in {"failed", "retry_wait"}
           /\ result = "retry_wait" => me.attempt < MaxAttempts
  BY ScanConstants DEF AfterFailure, RetryOrFail, ScannerState

\* A scanner that has its result.
LEMMA Decided ==
    ASSUME TypeOK, NEW s \in Scanners, Scanning(s), NEW result,
           result # "none", result = "retry_wait" => scanner[s].attempt < MaxAttempts,
           scanner[s].flagged => ~scanner[s].checked,
           scanner'[s] = Finishing(scanner[s], result), row' = row
    PROVE  Continued(s)
<1>1. scanner[s] \in ScannerState
  BY DEF TypeOK
<1>2. /\ scanner'[s].pc = "finishing" /\ scanner'[s].result = result
      /\ scanner'[s].job = scanner[s].job
      /\ scanner'[s].gen = scanner[s].gen
      /\ scanner'[s].attempt = scanner[s].attempt
      /\ scanner'[s].flagged = scanner[s].flagged
      /\ scanner'[s].checked = scanner[s].checked
  BY <1>1 DEF Finishing, ScannerState
<1>3. QED
  BY <1>2 DEF Continued, Scanning

\* A scanner's action leaves the other scanners alone.
LEMMA OthersAlone ==
    ASSUME TypeOK, NEW s \in Scanners, NEW t \in Scanners, t # s,
           Pass(t) \/ Trouble(t) \/ Recover(t)
    PROVE  scanner'[s] = scanner[s]
<1>1. scanner \in [Scanners -> ScannerState]
  BY DEF TypeOK
<1>2. QED
  BY <1>1 DEF Pass, Trouble, Claim, Probe, CheckCancellation, MissFile, VisitFile,
     RefreshFile, ImportFile, EndWalk, MarkMissing, Finish, RenewLease, WalkBreaks,
     SkipDirectory, RefreshLost, MarkFails, FinishFails, Crash, Recover

\* The actions that leave the scanners alone.
LEMMA ScannersAlone ==
    ASSUME \/ UNCHANGED vars
           \/ \E j \in Scans : StartScan(j) \/ LeaseExpires(j) \/ BecomesDue(j)
           \/ \E a \in Admins : Cancel(a)
           \/ \E r \in Readers : Playback(r)
    PROVE  scanner' = scanner
<1>1. CASE UNCHANGED vars
  BY <1>1 DEF vars
<1>2. ASSUME NEW j \in Scans, StartScan(j) \/ LeaseExpires(j) \/ BecomesDue(j)
      PROVE  scanner' = scanner
  BY <1>2 DEF StartScan, LeaseExpires, BecomesDue
<1>3. ASSUME NEW a \in Admins, Cancel(a)
      PROVE  scanner' = scanner
  BY <1>3 DEF Cancel, CancelRead, CancelWaiting, CancelRunning
<1>4. ASSUME NEW r \in Readers, Playback(r)
      PROVE  scanner' = scanner
  BY <1>4 DEF Playback, ReadSource, ServeSource, LoseSource
<1>5. QED
  BY <1>1, <1>2, <1>3, <1>4

\* A step changes what a scanner holds of its scan in one of three ways.
LEMMA ScannerSteps ==
    ASSUME TypeOK, ScannersAreSound, [Next]_vars, NEW s \in Scanners
    PROVE  ScannerStep(s)
<1>0. scanner[s] \in ScannerState /\ scanner \in [Scanners -> ScannerState]
  BY DEF TypeOK
<1>1. CASE scanner'[s] = scanner[s]
  BY <1>1, LeftAlone DEF ScannerStep
<1>2. ASSUME Pass(s)
      PROVE  ScannerStep(s)
  <2>0. Scanning(s) /\ scanner[s].flagged =>
          ~scanner[s].checked /\ scanner[s].pc \in {"probing", "walking", "finishing"}
    BY DEF ScannersAreSound
  <2>1. CASE Claim(s)
    <3>1. PICK j \in Claimable : /\ scan' = [scan EXCEPT ![j] = ClaimedScan(@, s)]
                                 /\ scanner'[s] = Begun(j)
      BY <1>0, <2>1 DEF Claim
    <3>2. QED
      BY <2>1, <3>1 DEF Claim, Begins, ScannerStep
  <2>2. CASE Probe(s)
    <3>1. Scanning(s) /\ row' = row
      BY <2>2 DEF Probe, Scanning
    <3>2. CASE scanner' = [scanner EXCEPT ![s].pc = "walking"]
      <4>1. scanner'[s] = [scanner[s] EXCEPT !.pc = "walking"]
        BY <1>0, <3>2
      <4>2. QED
        BY <1>0, <2>0, <3>1, <4>1 DEF ScannerState, Continued, Scanning, ScannerStep
    <3>3. CASE \E result \in AfterFailure(scanner[s].attempt) :
                 scanner' = [scanner EXCEPT ![s] = Finishing(@, result)]
      BY <1>0, <2>0, <3>1, <3>3, Failures, Decided DEF ScannerStep
    <3>4. QED
      BY <2>2, <3>2, <3>3 DEF Probe
  <2>3. CASE CheckCancellation(s)
    <3>1. Scanning(s) /\ row' = row
      BY <2>3 DEF CheckCancellation, Scanning
    <3>2. CASE scanner' = [scanner EXCEPT ![s] = Finishing(@, "cancelled")]
      BY <1>0, <2>0, <3>1, <3>2, Decided DEF ScannerStep
    <3>3. CASE /\ ~scan[scanner[s].job].cancel
               /\ scanner' = [scanner EXCEPT ![s] = [@ EXCEPT !.checked = TRUE]]
      <4>1. ~scanner[s].flagged
        BY <3>1, <3>3 DEF ScannersAreSound
      <4>2. scanner'[s] = [scanner[s] EXCEPT !.checked = TRUE] /\ scanner[s].pc = "walking"
        BY <1>0, <2>3, <3>3 DEF CheckCancellation
      <4>3. QED
        BY <1>0, <3>1, <4>1, <4>2 DEF ScannerState, Continued, Scanning, ScannerStep
    <3>4. QED
      BY <2>3, <3>2, <3>3 DEF CheckCancellation
  <2>4. ASSUME NEW f \in Files, MissFile(s, f) \/ VisitFile(s, f)
        PROVE  ScannerStep(s)
    <3>1. /\ scanner[s].pc = "walking" /\ scanner[s].checked
          /\ scanner'[s].pc \in {"walking", "reading"}
          /\ scanner'[s].job = scanner[s].job
          /\ scanner'[s].gen = scanner[s].gen
          /\ scanner'[s].attempt = scanner[s].attempt
          /\ scanner'[s].flagged = scanner[s].flagged
      <4>1. CASE MissFile(s, f)
        <5>1. PICK failed : scanner'[s] = [scanner[s] EXCEPT
                              !.todo = scanner[s].todo \ {f}, !.failed = failed]
          BY <1>0, <4>1 DEF MissFile
        <5>2. QED
          BY <1>0, <4>1, <5>1 DEF MissFile, ScannerState
      <4>2. CASE VisitFile(s, f)
        <5>1. scanner'[s] = [scanner[s] EXCEPT
                !.pc = "reading", !.todo = scanner[s].todo \ {f}, !.file = f,
                !.copy = row[f], !.content = disk[f], !.at = clock]
          BY <1>0, <4>2 DEF VisitFile
        <5>2. QED
          BY <1>0, <4>2, <5>1 DEF VisitFile, ScannerState
      <4>3. QED
        BY <2>4, <4>1, <4>2
    <3>2. QED
      BY <2>0, <3>1 DEF Continued, Scanning, ScannerStep
  <2>5. CASE RefreshFile(s) \/ ImportFile(s)
    <3>1. scanner[s].pc = "reading"
      BY <2>5 DEF RefreshFile, ImportFile
    <3>2. PICK f, t : scanner'[s] = FileDone(scanner[s], f, t)
      <4>1. CASE RefreshFile(s)
        <5>1. PICK o : scanner' = [scanner EXCEPT ![s] =
                         FileDone(@, @.failed \/ o.failed, @.transient \/ o.transient)]
          BY <4>1 DEF RefreshFile
        <5>2. QED
          BY <1>0, <5>1
      <4>2. CASE ImportFile(s)
        <5>1. PICK f, t : scanner' = [scanner EXCEPT ![s] = FileDone(@, f, t)]
          BY <4>2 DEF ImportFile
        <5>2. QED
          BY <1>0, <5>1
      <4>3. QED
        BY <2>5, <4>1, <4>2
    <3>3. /\ scanner'[s].pc = "walking"
          /\ scanner'[s].job = scanner[s].job
          /\ scanner'[s].gen = scanner[s].gen
          /\ scanner'[s].attempt = scanner[s].attempt
          /\ scanner'[s].flagged = scanner[s].flagged
      BY <1>0, <3>2 DEF FileDone, ScannerState
    <3>4. QED
      BY <2>0, <3>1, <3>3 DEF Continued, Scanning, ScannerStep
  <2>6. CASE EndWalk(s)
    <3>1. /\ scanner[s].pc = "walking" /\ scanner[s].checked /\ Scanning(s)
          /\ ~scanner[s].flagged /\ row' = row
      BY <2>0, <2>6 DEF EndWalk, Scanning
    <3>2. CASE scanner' = [scanner EXCEPT ![s].pc = "marking"]
      <4>1. scanner'[s] = [scanner[s] EXCEPT !.pc = "marking"]
        BY <1>0, <3>2
      <4>2. QED
        BY <1>0, <3>1, <4>1 DEF ScannerState, Continued, Scanning, ScannerStep
    <3>3. CASE \/ scanner' = [scanner EXCEPT ![s] = Finishing(@, "succeeded")]
               \/ \E result \in AfterFailure(scanner[s].attempt) :
                    scanner' = [scanner EXCEPT ![s] = Finishing(@, result)]
      BY <1>0, <3>1, <3>3, Failures, Decided DEF ScannerStep
    <3>4. QED
      BY <2>6, <3>2, <3>3 DEF EndWalk
  <2>7. CASE MarkMissing(s)
    <3>1. scanner[s].pc = "marking" /\ scanner'[s] = Finishing(scanner[s], "succeeded")
      BY <1>0, <2>7 DEF MarkMissing
    <3>2. ~scanner[s].flagged
      BY <2>0, <3>1 DEF Scanning
    <3>3. QED
      BY <1>0, <3>1, <3>2 DEF Finishing, ScannerState, Continued, Scanning, ScannerStep
  <2>8. CASE Finish(s)
    <3>1. scanner'[s].pc = "idle" /\ row' = row
      BY <1>0, <2>8 DEF Finish, Idle
    <3>2. ASSUME NEW j \in Scans, Holds(s, j)
          PROVE  scan'[j].status # "running"
      <4>1. scan[j] \in ScanJob
        BY DEF TypeOK
      <4>2. scanner[s].job = j /\ scanner[s].pc = "finishing"
        BY <2>8, <3>2 DEF Finish, Holds
      <4>3. scanner[s].result \in {"retry_wait"} \cup Terminal
        BY <1>0, <4>2 DEF ScannersAreSound, Scanning, ScannerState
      <4>4. scan'[j] = Ended(scan[j], scanner[s].result)
        BY <2>8, <3>2, <4>2 DEF Finish, TypeOK
      <4>5. QED
        BY <4>1, <4>3, <4>4 DEF Ended, ScanJob, Terminal
    <3>3. QED
      BY <3>1, <3>2 DEF Released, ScannerStep
  <2>9. QED
    BY <1>2, <2>1, <2>2, <2>3, <2>4, <2>5, <2>6, <2>7, <2>8 DEF Pass
<1>3. ASSUME Trouble(s)
      PROVE  ScannerStep(s)
  <2>0. Scanning(s) /\ scanner[s].flagged =>
          ~scanner[s].checked /\ scanner[s].pc \in {"probing", "walking", "finishing"}
    BY DEF ScannersAreSound
  <2>1. CASE RenewLease(s)
    <3>1. CASE scanner' = scanner
      BY <3>1, LeftAlone DEF ScannerStep
    <3>2. CASE ~Holds(s, scanner[s].job) /\ scanner' = [scanner EXCEPT ![s] = Idle]
      <4>1. \A j \in Scans : ~Holds(s, j)
        BY <3>2 DEF Holds
      <4>2. QED
        BY <1>0, <2>1, <3>2, <4>1 DEF RenewLease, Idle, Released, ScannerStep
    <3>3. QED
      BY <2>1, <3>1, <3>2 DEF RenewLease
  <2>2. CASE WalkBreaks(s)
    <3>1. Scanning(s) /\ row' = row
      BY <2>2 DEF WalkBreaks, Scanning
    <3>2. QED
      BY <1>0, <2>0, <2>2, <3>1, Failures, Decided DEF WalkBreaks, ScannerStep
  <2>3. CASE SkipDirectory(s)
    <3>1. /\ scanner[s].pc = "walking" /\ scanner[s].checked
          /\ scanner'[s].pc = "walking"
          /\ scanner'[s].job = scanner[s].job
          /\ scanner'[s].gen = scanner[s].gen
          /\ scanner'[s].attempt = scanner[s].attempt
          /\ scanner'[s].flagged = scanner[s].flagged
      BY <1>0, <2>3 DEF SkipDirectory, ScannerState
    <3>2. QED
      BY <2>0, <3>1 DEF Continued, Scanning, ScannerStep
  <2>4. CASE RefreshLost(s)
    <3>1. scanner[s].pc = "reading"
      BY <2>4 DEF RefreshLost
    <3>2. /\ scanner'[s].pc = "walking"
          /\ scanner'[s].job = scanner[s].job
          /\ scanner'[s].gen = scanner[s].gen
          /\ scanner'[s].attempt = scanner[s].attempt
          /\ scanner'[s].flagged = scanner[s].flagged
      <4> DEFINE done(f, t) == FileDone(scanner[s], scanner[s].failed \/ f,
                                        scanner[s].transient \/ t)
                 left(f) == IF f THEN scanner[s].steady
                                 ELSE scanner[s].steady \ {scanner[s].file}
      <4>1. PICK f \in BOOLEAN, t \in BOOLEAN :
              scanner' = [scanner EXCEPT ![s] = [done(f, t) EXCEPT !.steady = left(f)]]
        BY <2>4 DEF RefreshLost
      <4>2. scanner'[s] = [done(f, t) EXCEPT !.steady = left(f)]
        BY <1>0, <4>1
      <4>3. done(f, t) \in ScannerState
        BY <1>0, ScannerRecords
      <4>4. /\ done(f, t).pc = "walking"
            /\ done(f, t).job = scanner[s].job
            /\ done(f, t).gen = scanner[s].gen
            /\ done(f, t).attempt = scanner[s].attempt
            /\ done(f, t).flagged = scanner[s].flagged
        BY <1>0 DEF FileDone, ScannerState
      <4> HIDE DEF done, left
      <4>5. QED
        BY <4>2, <4>3, <4>4 DEF ScannerState
    <3>3. QED
      BY <2>0, <3>1, <3>2 DEF Continued, Scanning, ScannerStep
  <2>5. CASE MarkFails(s)
    <3>1. scanner[s].pc = "marking" /\ scanner'[s] = Finishing(scanner[s], "failed")
      BY <1>0, <2>5 DEF MarkFails
    <3>2. ~scanner[s].flagged
      BY <2>0, <3>1 DEF Scanning
    <3>3. QED
      BY <1>0, <3>1, <3>2 DEF Finishing, ScannerState, Continued, Scanning, ScannerStep
  <2>6. CASE FinishFails(s)
    BY <1>0, <2>6 DEF FinishFails, Incident, Idle, Released, ScannerStep
  <2>7. CASE Crash(s)
    BY <1>0, <2>7 DEF Crash, Incident, Down, Idle, Released, ScannerStep
  <2>8. QED
    BY <1>3, <2>1, <2>2, <2>3, <2>4, <2>5, <2>6, <2>7 DEF Trouble
<1>4. ASSUME Recover(s)
      PROVE  ScannerStep(s)
  <2>1. \A j \in Scans : ~Holds(s, j)
    BY <1>4 DEF Recover, Holds, Scanning
  <2>2. QED
    BY <1>0, <1>4, <2>1 DEF Recover, Idle, Released, ScannerStep
<1>5. ASSUME NEW t \in Scanners, t # s, Pass(t) \/ Trouble(t) \/ Recover(t)
      PROVE  scanner'[s] = scanner[s]
  BY <1>5, OthersAlone
<1>6. ASSUME NEW f \in Files, NEW c \in Contents \cup {NoContent}, ChangeFile(f, c)
      PROVE  ScannerStep(s)
  <2>1. scanner'[s] = [scanner[s] EXCEPT !.steady = @ \ {f}, !.gone = @ \ {f}]
    BY <1>6 DEF ChangeFile
  <2>2. /\ scanner'[s].pc = scanner[s].pc
        /\ scanner'[s].job = scanner[s].job
        /\ scanner'[s].gen = scanner[s].gen
        /\ scanner'[s].attempt = scanner[s].attempt
        /\ scanner'[s].flagged = scanner[s].flagged
        /\ scanner'[s].result = scanner[s].result
        /\ scanner'[s].checked = scanner[s].checked
    BY <1>0, <2>1 DEF ScannerState
  <2>3. row' = row
    BY <1>6 DEF ChangeFile
  <2>4. QED
    BY <2>2, <2>3 DEF ScannersAreSound, Continued, Scanning, ScannerStep
<1>7. QED
  <2>1. CASE \/ UNCHANGED vars
             \/ \E j \in Scans : StartScan(j) \/ LeaseExpires(j) \/ BecomesDue(j)
             \/ \E a \in Admins : Cancel(a)
             \/ \E r \in Readers : Playback(r)
    BY <1>1, <2>1, ScannersAlone
  <2>2. QED
    BY <1>1, <1>2, <1>3, <1>4, <1>5, <1>6, <2>1 DEF Next

-----------------------------------------------------------------------------
(* The queue of scans.                                                     *)

\* Incidents are only added, one at a time.
LEMMA IncidentsGrow ==
    ASSUME TypeOK, [Next]_vars
    PROVE  /\ incidents \in Nat
           /\ incidents' \in {incidents, incidents + 1}
<1>1. incidents \in Nat
  BY ScanConstants DEF TypeOK
<1>2. ASSUME NEW s \in Scanners, Pass(s) \/ Trouble(s) \/ Recover(s)
      PROVE  incidents' \in {incidents, incidents + 1}
  BY <1>2 DEF Pass, Trouble, Claim, Probe, CheckCancellation, MissFile, VisitFile,
     RefreshFile, ImportFile, EndWalk, MarkMissing, Finish, RenewLease, WalkBreaks,
     SkipDirectory, RefreshLost, MarkFails, FinishFails, Crash, Recover, Incident
<1>3. ASSUME NEW j \in Scans, StartScan(j) \/ LeaseExpires(j) \/ BecomesDue(j)
      PROVE  incidents' \in {incidents, incidents + 1}
  BY <1>3 DEF StartScan, LeaseExpires, BecomesDue, Incident
<1>4. ASSUME NEW a \in Admins, Cancel(a)
      PROVE  incidents' = incidents
  BY <1>4 DEF Cancel, CancelRead, CancelWaiting, CancelRunning
<1>5. ASSUME NEW r \in Readers, Playback(r)
      PROVE  incidents' = incidents
  BY <1>5 DEF Playback, ReadSource, ServeSource, LoseSource
<1>6. ASSUME NEW f \in Files, NEW c \in Contents \cup {NoContent}, ChangeFile(f, c)
      PROVE  incidents' = incidents
  BY <1>6 DEF ChangeFile
<1>7. QED
  BY <1>1, <1>2, <1>3, <1>4, <1>5, <1>6 DEF Next, vars

\* What a finished pass leaves behind.
LEMMA CompletedScans ==
    ASSUME ScanInv, NEW j \in Scans, Completed(j)
    PROVE  /\ scan[j].status = "running"
           /\ scan'[j].status \in {"retry_wait"} \cup Terminal
           /\ scan'[j].status = "retry_wait" => scan[j].attempt < MaxAttempts
           /\ scan'[j].owner = NoScanner /\ scan'[j].live = FALSE
           /\ scan'[j].attempt = scan[j].attempt
           /\ scan'[j].cancel = scan[j].cancel
           /\ scan'[j].gen = scan[j].gen
<1>1. PICK s \in Scanners : /\ scanner[s].pc = "finishing"
                            /\ Holds(s, j)
                            /\ scan'[j] = Ended(scan[j], scanner[s].result)
  BY DEF Completed
<1>2. scanner[s] \in ScannerState /\ scan[j] \in ScanJob
  BY DEF ScanInv, TypeOK
<1>3. scan[j].owner = s /\ s # NoScanner /\ scanner[s].job = j
  BY <1>1, ScanConstants DEF Holds
<1>4. scan[j].status = "running"
  BY <1>3 DEF ScanInv, LeaseIsTheScan
<1>5. /\ scanner[s].result \in {"retry_wait"} \cup Terminal
      /\ scanner[s].result = "retry_wait" => scan[j].attempt < MaxAttempts
  BY <1>1, <1>2, <1>3 DEF ScanInv, ScannersAreSound, Scanning, ScannerState
<1>6. QED
  BY <1>1, <1>2, <1>4, <1>5 DEF Ended, ScanJob

\* What a step leaves of a scan, by the kinds of steps.
LEMMA ScanFacts ==
    ASSUME ScanInv, NEW j \in Scans, JobStep(j)
    PROVE  /\ scan'[j].status \in Active => scan[j].status \in Active \/ Started(j)
           /\ scan'[j].status = "running" <=> scan'[j].owner # NoScanner
           /\ scan'[j].live => scan'[j].status = "running"
           /\ scan[j].cancel => scan'[j].cancel
           /\ \/ Claimed(j)
              \/ /\ scan'[j].owner \in {scan[j].owner, NoScanner}
                 /\ scan'[j].gen = scan[j].gen
                 /\ scan'[j].attempt = scan[j].attempt
<1>0. /\ scan[j] \in ScanJob
      /\ scan[j].status = "running" <=> scan[j].owner # NoScanner
      /\ scan[j].live => scan[j].status = "running"
  BY DEF ScanInv, TypeOK, LeaseIsTheScan
<1>1. CASE scan'[j] = scan[j]
  BY <1>0, <1>1
<1>2. CASE Started(j)
  BY <1>0, <1>2 DEF Started, ScanJob
<1>3. CASE Claimed(j)
  <2>1. PICK s \in Scanners : scan'[j] = ClaimedScan(scan[j], s) /\ j \in Claimable
    BY <1>3 DEF Claimed
  <2>2. scan[j].status \in Active
    BY <2>1 DEF Claimable, Active, Waiting
  <2>3. QED
    BY <1>0, <1>3, <2>1, <2>2, ScanConstants DEF ClaimedScan, ScanJob
<1>4. CASE Renewed(j)
  BY <1>0, <1>4, ScanConstants DEF Renewed, Holds, ScanJob
<1>5. CASE Completed(j)
  BY <1>0, <1>5, CompletedScans, ScanConstants DEF Active, Waiting, Terminal
<1>6. CASE Recovered(j)
  BY <1>0, <1>6 DEF Recovered, Expired, Ended, ScanJob, Active
<1>7. CASE CancelledAtOnce(j)
  BY <1>0, <1>7 DEF CancelledAtOnce, ScanJob, Active, Waiting
<1>8. CASE Flagged(j)
  BY <1>0, <1>8 DEF Flagged, ScanJob
<1>9. CASE LeaseLost(j)
  BY <1>0, <1>9 DEF LeaseLost, ScanJob
<1>10. CASE MadeDue(j)
  BY <1>0, <1>10 DEF MadeDue, ScanJob
<1>11. QED
  BY <1>1, <1>2, <1>3, <1>4, <1>5, <1>6, <1>7, <1>8, <1>9, <1>10 DEF JobStep

\* Scanners keep a scan, an attempt and a result that belong together.
LEMMA SoundStep ==
    ASSUME ScanInv, [Next]_vars
    PROVE  ScannersAreSound'
<1>0. TypeOK /\ TypeOK' /\ ScannersAreSound
  BY TypeStep DEF ScanInv
<1>1. SUFFICES ASSUME NEW s \in Scanners, Scanning(s)'
               PROVE  /\ scanner'[s].job \in Scans
                      /\ Holds(s, scanner[s].job)' =>
                           scanner'[s].attempt = scan'[scanner'[s].job].attempt
                      /\ scanner'[s].pc = "finishing" =>
                           /\ scanner'[s].result # "none"
                           /\ scanner'[s].result = "retry_wait" =>
                                scanner'[s].attempt < MaxAttempts
                      /\ scanner'[s].flagged =>
                           /\ scan'[scanner'[s].job].cancel
                           /\ scanner'[s].pc \in {"probing", "walking", "finishing"}
                           /\ ~scanner'[s].checked
  BY DEF ScannersAreSound
<1>2. ScannerStep(s)
  BY <1>0, ScannerSteps
<1>3. CASE Begins(s)
  <2>1. PICK j \in Claimable : /\ scan' = [scan EXCEPT ![j] = ClaimedScan(@, s)]
                               /\ scanner'[s] = Begun(j)
    BY <1>3 DEF Begins
  <2>2. j \in Scans
    BY <2>1 DEF Claimable
  <2>3. /\ scan[j] \in ScanJob
        /\ scan'[j] = ClaimedScan(scan[j], s)
    BY <1>0, <2>1, <2>2 DEF TypeOK
  <2>4. /\ scan'[j].attempt = scan[j].attempt + 1
        /\ scan'[j].cancel = scan[j].cancel
    BY <2>3 DEF ClaimedScan, ScanJob
  <2>5. /\ scanner'[s].job = j
        /\ scanner'[s].pc = "probing"
        /\ scanner'[s].attempt = scan[j].attempt + 1
        /\ scanner'[s].flagged = scan[j].cancel
        /\ scanner'[s].checked = FALSE
    BY <2>1 DEF Begun, Idle
  <2>6. QED
    BY <2>2, <2>4, <2>5
<1>4. CASE Released(s)
  BY <1>1, <1>4 DEF Released, Scanning
<1>5. CASE Continued(s)
  <2>1. Scanning(s)
    BY <1>1, <1>5 DEF Continued, Scanning
  <2>2. scanner[s].job \in Scans
    BY <1>0, <2>1 DEF ScannersAreSound
  <2>3. JobStep(scanner[s].job)
    BY <1>0, <2>2, JobSteps
  <2>4. ASSUME Holds(s, scanner[s].job)'
        PROVE  scanner'[s].attempt = scan'[scanner'[s].job].attempt
    <3>1. /\ scan'[scanner[s].job].owner = s
          /\ scan'[scanner[s].job].gen = scanner[s].gen
          /\ s # NoScanner
      BY <1>5, <2>4, ScanConstants DEF Holds, Continued
    <3>2. ~Claimed(scanner[s].job)
      <4>1. ASSUME Claimed(scanner[s].job)
            PROVE  FALSE
        <5>1. PICK t \in Scanners : /\ scanner[t].pc = "idle"
                                    /\ scan'[scanner[s].job] = ClaimedScan(scan[scanner[s].job], t)
          BY <4>1 DEF Claimed
        <5>2. scan[scanner[s].job] \in ScanJob
          BY <1>0, <2>2 DEF TypeOK
        <5>3. t = s
          BY <3>1, <5>1, <5>2 DEF ClaimedScan, ScanJob
        <5>4. QED
          BY <2>1, <5>1, <5>3 DEF Scanning
      <4>2. QED
        BY <4>1
    <3>3. /\ scan[scanner[s].job].owner = s
          /\ scan[scanner[s].job].gen = scanner[s].gen
          /\ scan'[scanner[s].job].attempt = scan[scanner[s].job].attempt
      BY <2>2, <2>3, <3>1, <3>2, ScanFacts
    <3>4. Holds(s, scanner[s].job)
      BY <2>1, <3>3 DEF Holds
    <3>5. QED
      BY <1>0, <1>5, <2>1, <3>3, <3>4 DEF ScannersAreSound, Continued
  <2>5. scanner[s].flagged => scan'[scanner[s].job].cancel
    BY <1>0, <2>1, <2>2, <2>3, ScanFacts DEF ScannersAreSound
  <2>6. QED
    BY <1>5, <2>1, <2>2, <2>4, <2>5 DEF Continued
<1>6. QED
  BY <1>2, <1>3, <1>4, <1>5 DEF ScannerStep

\* A step adds an attempt only to a scan that has one to spare.
LEMMA PaidStep ==
    ASSUME ScanInv, [Next]_vars
    PROVE  AttemptsArePaid'
<1>0. TypeOK /\ TypeOK' /\ ScannersAreSound /\ LeaseIsTheScan /\ AttemptsArePaid
  BY TypeStep DEF ScanInv
<1>1. SUFFICES ASSUME NEW j \in Scans
               PROVE  /\ scan'[j].attempt <= MaxAttempts + incidents'
                      /\ scan'[j].status \notin Terminal /\ ~HeldAlive(j)'
                           => scan'[j].attempt < MaxAttempts + incidents'
  BY DEF AttemptsArePaid
<1>2. JobStep(j)
  BY <1>0, JobSteps
<1>3. /\ scan[j] \in ScanJob /\ scan[j].attempt \in Nat
      /\ MaxAttempts \in Nat
      /\ incidents \in Nat
      /\ incidents' \in {incidents, incidents + 1}
  BY <1>0, IncidentsGrow, ScanConstants DEF TypeOK, ScanJob
<1>4. /\ scan[j].attempt <= MaxAttempts + incidents
      /\ scan[j].status \notin Terminal /\ ~HeldAlive(j)
           => scan[j].attempt < MaxAttempts + incidents
      /\ scan[j].live => scan[j].status = "running"
      /\ scan[j].status = "running" <=> scan[j].owner # NoScanner
  BY <1>0 DEF AttemptsArePaid, LeaseIsTheScan
<1>5. CASE /\ scan'[j].attempt = scan[j].attempt
           /\ scan'[j].status = scan[j].status
           /\ scan'[j].owner = scan[j].owner
           /\ scan'[j].gen = scan[j].gen
           /\ scan'[j].live = scan[j].live
  <2>1. CASE ~HeldAlive(j) \/ scan[j].status \in Terminal
    BY <1>3, <1>4, <1>5, <2>1
  <2>2. CASE HeldAlive(j)
    <3>1. PICK s \in Scanners : Holds(s, j)
      BY <2>2 DEF HeldAlive
    <3>2. scan[j].status = "running" /\ scan[j].live
      BY <1>4, <2>2 DEF HeldAlive
    <3>3. CASE Released(s)
      BY <1>3, <1>4, <1>5, <3>1, <3>2, <3>3 DEF Released
    <3>4. CASE Continued(s)
      <4>1. Holds(s, j)'
        BY <1>5, <3>1, <3>4 DEF Holds, Continued, Scanning
      <4>2. HeldAlive(j)'
        BY <1>5, <3>2, <4>1 DEF HeldAlive
      <4>3. QED
        BY <1>3, <1>4, <1>5, <4>2
    <3>5. CASE Begins(s)
      BY <3>1, <3>5 DEF Begins, Holds, Scanning
    <3>6. QED
      BY <1>0, <3>3, <3>4, <3>5, ScannerSteps DEF ScannerStep
  <2>3. QED
    BY <2>1, <2>2
<1>6. CASE Started(j)
  BY <1>3, <1>4, <1>6 DEF Started, HeldAlive, Terminal, ScanJob
<1>7. CASE Claimed(j)
  <2>1. PICK s \in Scanners : /\ scanner[s].pc = "idle"
                              /\ j \in Claimable
                              /\ scan'[j] = ClaimedScan(scan[j], s)
                              /\ scanner'[s] = Begun(j)
    BY <1>7 DEF Claimed
  <2>2. scan[j].attempt < MaxAttempts + incidents
    BY <1>4, <2>1 DEF Claimable, HeldAlive, Terminal
  <2>3. /\ scan'[j].attempt = scan[j].attempt + 1
        /\ scan'[j].owner = s /\ scan'[j].gen = scan[j].gen + 1
        /\ scan'[j].live = TRUE
    BY <1>3, <2>1 DEF ClaimedScan, ScanJob
  <2>4. /\ scanner'[s].pc = "probing" /\ scanner'[s].job = j
        /\ scanner'[s].gen = scan[j].gen + 1
    BY <2>1 DEF Begun, Idle
  <2>5. HeldAlive(j)'
    BY <2>3, <2>4 DEF HeldAlive, Holds, Scanning
  <2>6. QED
    BY <1>3, <2>2, <2>3, <2>5
<1>8. CASE Renewed(j)
  <2>1. /\ scan'[j].attempt = scan[j].attempt
        /\ scan'[j].owner = scan[j].owner /\ scan'[j].gen = scan[j].gen
        /\ scan'[j].live = TRUE
    BY <1>3, <1>8 DEF Renewed, ScanJob
  <2>2. HeldAlive(j)'
    BY <1>8, <2>1 DEF Renewed, HeldAlive, Holds, Scanning
  <2>3. QED
    BY <1>3, <1>4, <2>1, <2>2
<1>9. CASE Completed(j)
  <2>1. /\ scan'[j].attempt = scan[j].attempt
        /\ scan'[j].status \in {"retry_wait"} \cup Terminal
        /\ scan'[j].status = "retry_wait" => scan[j].attempt < MaxAttempts
    BY <1>9, CompletedScans
  <2>2. QED
    BY <1>3, <1>4, <2>1
<1>10. CASE Recovered(j)
  <2>1. scan[j].status \notin Terminal /\ ~HeldAlive(j)
    BY <1>10 DEF Recovered, Expired, Terminal, HeldAlive
  <2>2. scan'[j].attempt = scan[j].attempt
    BY <1>3, <1>10 DEF Recovered, Ended, ScanJob
  <2>3. QED
    BY <1>3, <1>4, <2>1, <2>2
<1>11. CASE CancelledAtOnce(j)
  BY <1>3, <1>4, <1>11 DEF CancelledAtOnce, Terminal, ScanJob
<1>12. CASE Flagged(j)
  BY <1>3, <1>5, <1>12 DEF Flagged, ScanJob
<1>13. CASE LeaseLost(j)
  <2>1. scan'[j].attempt = scan[j].attempt
    BY <1>3, <1>13 DEF LeaseLost, ScanJob
  <2>2. CASE \E s \in Scanners : Holds(s, j)
    BY <1>3, <1>4, <1>13, <2>1, <2>2 DEF LeaseLost
  <2>3. CASE ~\E s \in Scanners : Holds(s, j)
    BY <1>3, <1>4, <1>13, <2>1, <2>3 DEF LeaseLost, HeldAlive, Terminal
  <2>4. QED
    BY <2>2, <2>3
<1>14. CASE MadeDue(j)
  BY <1>3, <1>5, <1>14 DEF MadeDue, ScanJob
<1>15. CASE scan'[j] = scan[j]
  BY <1>5, <1>15
<1>16. QED
  BY <1>2, <1>6, <1>7, <1>8, <1>9, <1>10, <1>11, <1>12, <1>13, <1>14, <1>15 DEF JobStep

\* What the scans and the scanners keep is inductive.
THEOREM ScanInvInductive ==
    /\ Init => ScanInv
    /\ ScanInv /\ [Next]_vars => ScanInv'
<1>1. ASSUME Init PROVE ScanInv
  <2>1. TypeOK
    BY <1>1, Records, ScanConstants DEF Init, TypeOK, NoCancel, NoRead, Held
  <2>2. \A i, j \in ActiveScans : i = j
    BY <1>1 DEF Init, ActiveScans, NoScan, Active, Waiting
  <2>3. LeaseIsTheScan
    BY <1>1 DEF Init, LeaseIsTheScan, NoScan
  <2>4. ScannersAreSound
    BY <1>1 DEF Init, ScannersAreSound, Scanning, Down, Idle
  <2>5. AttemptsArePaid
    BY <1>1, ScanConstants DEF Init, AttemptsArePaid, NoScan
  <2>6. QED
    BY <2>1, <2>2, <2>3, <2>4, <2>5 DEF ScanInv
<1>2. ASSUME ScanInv, [Next]_vars PROVE ScanInv'
  <2>0. TypeOK /\ ScannersAreSound
    BY <1>2 DEF ScanInv
  <2>1. TypeOK'
    BY <1>2, <2>0, TypeStep
  <2>2. \A j \in Scans : JobStep(j)
    BY <1>2, <2>0, JobSteps
  <2>3. ASSUME NEW i \in ActiveScans', NEW j \in ActiveScans'
        PROVE  i = j
    <3>1. i \in Scans /\ j \in Scans
      BY <2>3 DEF ActiveScans
    <3>2. /\ i \in ActiveScans \/ Started(i)
          /\ j \in ActiveScans \/ Started(j)
      BY <1>2, <2>2, <2>3, <3>1, ScanFacts DEF ActiveScans
    <3>3. CASE Started(i) \/ Started(j)
      BY <2>3, <3>1, <3>2, <3>3 DEF Started, ActiveScans
    <3>4. CASE i \in ActiveScans /\ j \in ActiveScans
      BY <1>2, <3>4 DEF ScanInv
    <3>5. QED
      BY <3>2, <3>3, <3>4
  <2>4. LeaseIsTheScan'
    BY <1>2, <2>2, ScanFacts DEF LeaseIsTheScan
  <2>5. QED
    BY <1>2, <2>1, <2>3, <2>4, SoundStep, PaidStep DEF ScanInv
<1>3. QED
  BY <1>1, <1>2

\* Whatever the numbers of files, scanners and requests, and in whatever order
\* they act, crash and lose leases: the invariant of the scans holds.
THEOREM ScanInvHolds == Spec => []ScanInv
<1>1. ScanInv /\ UNCHANGED vars => ScanInv'
  BY ScanInvInductive
<1>2. QED
  BY ScanInvInductive, PTL DEF Spec

\* Every variable keeps its type.
THEOREM TypeCorrect == Spec => []TypeOK
<1>1. ScanInv => TypeOK
  BY DEF ScanInv
<1>2. QED
  BY <1>1, ScanInvHolds, PTL

\* A root has one scan at a time, owned exactly while it runs, and beyond the
\* retry limit only crashes and lost leases add attempts.
THEOREM OneScan == Spec => []OneScanAtATime
<1>1. ASSUME ScanInv PROVE OneScanAtATime
  <2>1. Cardinality(ActiveScans) <= 1
    <3>1. CASE ActiveScans = {}
      BY <3>1, FS_EmptySet
    <3>2. ASSUME NEW i \in ActiveScans
          PROVE  Cardinality(ActiveScans) <= 1
      <4>1. ActiveScans = {i}
        BY <1>1 DEF ScanInv
      <4>2. Cardinality({i}) = 1
        BY FS_Singleton
      <4>3. QED
        BY <4>1, <4>2
    <3>3. QED
      BY <3>1, <3>2
  <2>2. QED
    BY <1>1, <2>1 DEF ScanInv, LeaseIsTheScan, AttemptsArePaid, OneScanAtATime
<1>2. QED
  BY <1>1, ScanInvHolds, PTL

\* A settled scan keeps its outcome, its attempts and its flags for ever.
THEOREM SettledFinal == Spec => SettledScansFinal
<1>1. ASSUME ScanInv, [Next]_vars, NEW j \in Scans, scan[j].status \in Terminal
      PROVE  scan'[j] = scan[j]
  <2>1. JobStep(j)
    BY <1>1, JobSteps DEF ScanInv
  <2>2. /\ scan[j].status \notin Active \cup {"absent"}
        /\ scan[j].owner = NoScanner
        /\ ~scan[j].live
    BY <1>1 DEF Terminal, Active, Waiting, ScanInv, LeaseIsTheScan
  <2>3. /\ ~Started(j) /\ ~Flagged(j) /\ ~LeaseLost(j) /\ ~MadeDue(j)
        /\ ~CancelledAtOnce(j) /\ ~Recovered(j)
    BY <2>2 DEF Started, Flagged, LeaseLost, MadeDue, CancelledAtOnce, Recovered,
       Expired, Active, Waiting
  <2>4. ~Claimed(j)
    BY <2>2 DEF Claimed, Claimable, Active, Waiting
  <2>5. ~Renewed(j) /\ ~Completed(j)
    BY <2>2, ScanConstants DEF Renewed, Completed, Holds
  <2>6. QED
    BY <2>1, <2>3, <2>4, <2>5 DEF JobStep
<1>2. ScanInv /\ [Next]_vars =>
        [\A j \in Scans :
            scan[j].status \in Terminal => scan'[j] = scan[j]]_vars
  BY <1>1
<1>3. QED
  BY <1>2, ScanInvHolds, PTL DEF Spec, SettledScansFinal

\* Only its holder ends a running scan whose lease is alive.
THEOREM LiveRespected == Spec => LiveScanRespected
<1>1. ASSUME ScanInv, [Next]_vars, NEW j \in Scans,
             scan[j].live, scan'[j].status # "running"
      PROVE  \E s \in Scanners :
                /\ Holds(s, j)
                /\ scanner'[s].pc = "idle"
                /\ scan'[j].status = scanner[s].result
  <2>1. JobStep(j)
    BY <1>1, JobSteps DEF ScanInv
  <2>2. scan[j] \in ScanJob /\ scan[j].status = "running"
        /\ scanner \in [Scanners -> ScannerState]
    BY <1>1 DEF ScanInv, TypeOK, LeaseIsTheScan
  <2>3. Completed(j)
    <3>1. scan'[j] # scan[j] /\ ~Started(j) /\ ~CancelledAtOnce(j) /\ ~Recovered(j)
            /\ ~MadeDue(j)
      BY <1>1, <2>2 DEF Started, CancelledAtOnce, Recovered, MadeDue, Expired, Waiting
    <3>2. ~Flagged(j) /\ ~LeaseLost(j) /\ ~Renewed(j)
      BY <1>1, <2>2 DEF Flagged, LeaseLost, Renewed, ScanJob
    <3>3. ~Claimed(j)
      BY <2>2 DEF Claimed, Claimable
    <3>4. QED
      BY <2>1, <3>1, <3>2, <3>3 DEF JobStep
  <2>4. PICK s \in Scanners : /\ Holds(s, j)
                              /\ scan'[j] = Ended(scan[j], scanner[s].result)
                              /\ scanner' = [scanner EXCEPT ![s] = Idle]
    BY <2>3 DEF Completed
  <2>5. scan'[j].status = scanner[s].result
    BY <2>2, <2>4 DEF Ended, ScanJob
  <2>6. scanner'[s].pc = "idle"
    BY <2>2, <2>4 DEF Idle
  <2>7. QED
    BY <2>4, <2>5, <2>6
<1>2. ScanInv /\ [Next]_vars =>
        [\A j \in Scans :
            scan[j].live /\ scan'[j].status # "running" =>
                \E s \in Scanners :
                    /\ Holds(s, j)
                    /\ scanner'[s].pc = "idle"
                    /\ scan'[j].status = scanner[s].result]_vars
  BY <1>1
<1>3. QED
  BY <1>2, ScanInvHolds, PTL DEF Spec, LiveScanRespected

\* No write of a scanner, a recovery or a claim loses a cancellation.
THEOREM CancellationsKept == Spec => CancellationKept
<1>1. ASSUME ScanInv, [Next]_vars, NEW j \in Scans, scan[j].cancel
      PROVE  scan'[j].cancel
  BY <1>1, JobSteps, ScanFacts DEF ScanInv
<1>2. ScanInv /\ [Next]_vars =>
        [\A j \in Scans : scan[j].cancel => scan'[j].cancel]_vars
  BY <1>1
<1>3. QED
  BY <1>2, ScanInvHolds, PTL DEF Spec, CancellationKept

\* A scan that was cancelled before it is claimed touches no file.
THEOREM FlaggedTouchesNothing == Spec => FlaggedScanTouchesNothing
<1>1. ASSUME ScanInv, [Next]_vars, NEW s \in Scanners,
             Scanning(s), scanner[s].flagged, scanner'[s] # scanner[s]
      PROVE  row' = row
  <2>1. ScannerStep(s)
    BY <1>1, ScannerSteps DEF ScanInv
  <2>2. QED
    BY <1>1, <2>1 DEF ScannerStep, Begins, Released, Continued
<1>2. ScanInv /\ [Next]_vars =>
        [\A s \in Scanners :
            Scanning(s) /\ scanner[s].flagged /\ scanner'[s] # scanner[s]
              => row' = row]_vars
  BY <1>1
<1>3. QED
  BY <1>2, ScanInvHolds, PTL DEF Spec, FlaggedScanTouchesNothing

-----------------------------------------------------------------------------
(* What a step may do to a row, to what a scanner has in hand, and to what *)
(* a playback request has.                                                 *)

SavedBy(s, f) ==
    /\ scanner[s].file = f
    /\ scanner[s].copy.avail # "none"
    /\ row'[f].hash = scanner[s].copy.hash
    /\ row'[f].avail # "none"
    /\ row'[f].seen \in {scanner[s].copy.seen, scanner[s].at}

ImportedBy(s, f) ==
    /\ scanner[s].file = f
    /\ row[f].avail = "none"
    /\ row'[f].seen = scanner[s].at

MarkedMissing(f) ==
    /\ row[f].avail # "none"
    /\ row'[f] = [row[f] EXCEPT !.avail = "missing"]

ResolvedBy(r, f) ==
    /\ reader[r].pc = "resolving"
    /\ reader[r].file = f
    /\ row'[f].hash = reader[r].copy.hash
    /\ row'[f].avail # "none"
    /\ row'[f].seen = reader[r].copy.seen

RowStep(f) ==
    \/ row'[f] = row[f]
    \/ \E s \in Scanners : SavedBy(s, f) \/ ImportedBy(s, f)
    \/ MarkedMissing(f)
    \/ \E r \in Readers : ResolvedBy(r, f)

\* A step changes a row by a save, an import, a mark or a playback request.
LEMMA RowSteps ==
    ASSUME TypeOK, [Next]_vars, NEW f \in Files
    PROVE  RowStep(f)
<1>0. row \in [Files -> FileRow] /\ row[f] \in FileRow
  BY DEF TypeOK
<1>1. CASE row' = row
  BY <1>1 DEF RowStep
<1>2. ASSUME NEW s \in Scanners, RefreshFile(s)
      PROVE  RowStep(f)
  <2>0. scanner[s] \in ScannerState
    BY DEF TypeOK
  <2>1. PICK o \in KnownOutcomes(scanner[s].copy, scanner[s].content, scanner[s].at)
                   \cup Hashed(scanner[s].copy, scanner[s].content, scanner[s].at) :
          row' = [row EXCEPT ![scanner[s].file] = o.row]
    BY <1>2 DEF RefreshFile
  <2>2. /\ scanner[s].copy \in FileRow
        /\ scanner[s].content \in Held
        /\ scanner[s].at \in Nat
        /\ scanner[s].copy.avail # "none"
    BY <1>2, <2>0 DEF RefreshFile, ScannerState
  <2>3. /\ o.row.hash = scanner[s].copy.hash
        /\ o.row.avail # "none"
        /\ o.row.seen \in {scanner[s].copy.seen, scanner[s].at}
    BY <2>2, Outcomes
  <2>4. row'[f] = IF f = scanner[s].file THEN o.row ELSE row[f]
    BY <1>0, <2>1
  <2>5. QED
    BY <2>2, <2>3, <2>4 DEF RowStep, SavedBy
<1>3. ASSUME NEW s \in Scanners, ImportFile(s)
      PROVE  RowStep(f)
  <2>1. \/ row' = row
        \/ /\ row[scanner[s].file].avail = "none"
           /\ row' = [row EXCEPT ![scanner[s].file] =
                        NewRow(scanner[s].content, scanner[s].at)]
    BY <1>3 DEF ImportFile
  <2>2. QED
    BY <1>0, <2>1 DEF RowStep, ImportedBy, NewRow
<1>4. ASSUME NEW s \in Scanners, MarkMissing(s)
      PROVE  RowStep(f)
  BY <1>4 DEF MarkMissing, RowStep, MarkedMissing
<1>5. ASSUME NEW r \in Readers, ServeSource(r) \/ LoseSource(r)
      PROVE  RowStep(f)
  <2>1. reader[r].pc = "resolving" /\ reader[r].copy \in FileRow
    BY <1>5 DEF ServeSource, LoseSource, TypeOK
  <2>2. \/ row' = row
        \/ \E v \in {"online", "offline", "missing"} :
             row' = [row EXCEPT ![reader[r].file] = [reader[r].copy EXCEPT !.avail = v]]
    BY <1>5 DEF ServeSource, LoseSource
  <2>3. ASSUME NEW v \in {"online", "offline", "missing"},
               row' = [row EXCEPT ![reader[r].file] = [reader[r].copy EXCEPT !.avail = v]]
        PROVE  RowStep(f)
    <3>1. row'[f] = IF f = reader[r].file THEN [reader[r].copy EXCEPT !.avail = v] ELSE row[f]
      BY <1>0, <2>3
    <3>2. QED
      BY <2>1, <3>1 DEF RowStep, ResolvedBy, FileRow
  <2>4. QED
    BY <1>1, <2>2, <2>3
<1>6. QED
  <2>1. CASE UNCHANGED vars
    BY <1>1, <2>1 DEF vars
  <2>2. ASSUME NEW s \in Scanners, Pass(s)
        PROVE  RowStep(f)
    BY <1>1, <1>2, <1>3, <1>4, <2>2 DEF Pass, Claim, Probe, CheckCancellation, MissFile,
       VisitFile, EndWalk, Finish
  <2>3. ASSUME NEW s \in Scanners, Trouble(s) \/ Recover(s)
        PROVE  row' = row
    BY <2>3 DEF Trouble, RenewLease, WalkBreaks, SkipDirectory, RefreshLost, MarkFails,
       FinishFails, Crash, Recover
  <2>4. ASSUME NEW j \in Scans, StartScan(j) \/ LeaseExpires(j) \/ BecomesDue(j)
        PROVE  row' = row
    BY <2>4 DEF StartScan, LeaseExpires, BecomesDue
  <2>5. ASSUME NEW a \in Admins, Cancel(a)
        PROVE  row' = row
    BY <2>5 DEF Cancel, CancelRead, CancelWaiting, CancelRunning
  <2>6. ASSUME NEW r \in Readers, Playback(r)
        PROVE  RowStep(f)
    BY <1>1, <1>5, <2>6 DEF Playback, ReadSource
  <2>7. ASSUME NEW g \in Files, NEW c \in Contents \cup {NoContent}, ChangeFile(g, c)
        PROVE  row' = row
    BY <2>7 DEF ChangeFile
  <2>8. QED
    BY <1>1, <2>1, <2>2, <2>3, <2>4, <2>5, <2>6, <2>7 DEF Next

SameHand(s) ==
    /\ scanner'[s].file = scanner[s].file
    /\ scanner'[s].copy = scanner[s].copy
    /\ scanner'[s].at = scanner[s].at

EmptyHand(s) == scanner'[s].copy = NoRow /\ scanner'[s].at = 0

Visits(s) ==
    \E f \in Files :
        /\ disk[f] # NoContent
        /\ scanner'[s].file = f
        /\ scanner'[s].copy = row[f]
        /\ scanner'[s].at = clock
        /\ UNCHANGED <<row, clock>>

HandStep(s) == SameHand(s) \/ EmptyHand(s) \/ Visits(s)

\* The files that were gone all the time: fewer in the same pass, none, or
\* those that are gone when a pass begins.
GoneStep(s) ==
    \/ scanner'[s].start = scanner[s].start /\ scanner'[s].gone \subseteq scanner[s].gone
    \/ scanner'[s].gone = {}
    \/ /\ scanner'[s].gone = {f \in Files : disk[f] = NoContent}
       /\ scanner'[s].start = clock + 1
       /\ UNCHANGED <<row, disk, reader>>

\* A scanner that is done with a file has empty hands.
LEMMA DonePasses ==
    ASSUME TypeOK, NEW s \in Scanners, NEW f, NEW t,
           scanner'[s] = FileDone(scanner[s], f, t)
    PROVE  HandStep(s) /\ GoneStep(s)
<1>1. scanner[s] \in ScannerState
  BY DEF TypeOK
<1>2. QED
  BY <1>1 DEF FileDone, ScannerState, HandStep, EmptyHand, GoneStep

\* A scanner that goes to its end keeps what it has in hand.
LEMMA FinishingPasses ==
    ASSUME TypeOK, NEW s \in Scanners, NEW result,
           scanner'[s] = Finishing(scanner[s], result)
    PROVE  HandStep(s) /\ GoneStep(s)
<1>1. scanner[s] \in ScannerState
  BY DEF TypeOK
<1>2. QED
  BY <1>1 DEF Finishing, ScannerState, HandStep, SameHand, GoneStep

\* A step changes what a scanner has in hand, and what it remembers as gone,
\* in one of three ways.
LEMMA HandSteps ==
    ASSUME TypeOK, [Next]_vars, NEW s \in Scanners
    PROVE  HandStep(s) /\ GoneStep(s)
<1>0. scanner[s] \in ScannerState /\ scanner \in [Scanners -> ScannerState]
  BY DEF TypeOK
<1>1. CASE scanner'[s] = scanner[s]
  BY <1>1 DEF HandStep, SameHand, GoneStep
<1>2. CASE scanner'[s] \in {Idle, Down}
  BY <1>2 DEF Idle, Down, HandStep, EmptyHand, GoneStep
<1>3. CASE Claim(s)
  <2>1. PICK j : scanner'[s] = Begun(j)
    BY <1>0, <1>3 DEF Claim
  <2>2. QED
    BY ZenonT(40), <1>3, <2>1 DEF Claim, Begun, Idle, HandStep, EmptyHand, GoneStep
<1>4. CASE Probe(s) \/ WalkBreaks(s) \/ CheckCancellation(s) \/ EndWalk(s)
             \/ MarkMissing(s) \/ MarkFails(s)
  <2>1. \/ \E result : scanner'[s] = Finishing(scanner[s], result)
        \/ scanner'[s] = [scanner[s] EXCEPT !.pc = "walking"]
        \/ scanner'[s] = [scanner[s] EXCEPT !.pc = "marking"]
        \/ scanner'[s] = [scanner[s] EXCEPT !.checked = TRUE]
    BY <1>0, <1>4 DEF Probe, WalkBreaks, CheckCancellation, EndWalk, MarkMissing, MarkFails
  <2>2. ASSUME \/ scanner'[s] = [scanner[s] EXCEPT !.pc = "walking"]
               \/ scanner'[s] = [scanner[s] EXCEPT !.pc = "marking"]
               \/ scanner'[s] = [scanner[s] EXCEPT !.checked = TRUE]
        PROVE  HandStep(s) /\ GoneStep(s)
    BY <1>0, <2>2 DEF ScannerState, HandStep, SameHand, GoneStep
  <2>3. QED
    BY <2>1, <2>2, FinishingPasses
<1>5. CASE \E f \in Files : MissFile(s, f)
  <2>1. PICK f \in Files : MissFile(s, f)
    BY <1>5
  <2>2. PICK failed \in {scanner[s].failed, TRUE} :
          scanner' = [scanner EXCEPT ![s] =
                        [@ EXCEPT !.todo = scanner[s].todo \ {f}, !.failed = failed]]
    BY <2>1 DEF MissFile
  <2>3. scanner'[s] = [scanner[s] EXCEPT !.todo = scanner[s].todo \ {f}, !.failed = failed]
    BY <1>0, <2>2
  <2>4. QED
    BY <1>0, <2>3 DEF ScannerState, HandStep, SameHand, GoneStep
<1>6. CASE SkipDirectory(s)
  <2>1. PICK hidden \in SUBSET scanner[s].todo, transient \in {scanner[s].transient, TRUE} :
          scanner' = [scanner EXCEPT ![s] =
            [@ EXCEPT !.todo = scanner[s].todo \ hidden, !.failed = TRUE,
                      !.transient = transient]]
    BY <1>6 DEF SkipDirectory
  <2>2. scanner'[s] = [scanner[s] EXCEPT
          !.todo = scanner[s].todo \ hidden, !.failed = TRUE, !.transient = transient]
    BY <1>0, <2>1
  <2>3. QED
    BY <1>0, <2>2 DEF ScannerState, HandStep, SameHand, GoneStep
<1>7. ASSUME NEW f \in Files, VisitFile(s, f)
      PROVE  HandStep(s) /\ GoneStep(s)
  <2>1. scanner'[s] = [scanner[s] EXCEPT
          !.pc = "reading", !.todo = scanner[s].todo \ {f}, !.file = f,
          !.copy = row[f], !.content = disk[f], !.at = clock]
    BY <1>0, <1>7 DEF VisitFile
  <2>2. /\ scanner'[s].file = f
        /\ scanner'[s].copy = row[f]
        /\ scanner'[s].at = clock
        /\ scanner'[s].start = scanner[s].start
        /\ scanner'[s].gone = scanner[s].gone
    BY <1>0, <2>1 DEF ScannerState
  <2>3. QED
    BY <1>7, <2>2 DEF VisitFile, HandStep, Visits, GoneStep
<1>8. CASE RefreshFile(s)
  <2>1. PICK o : scanner' = [scanner EXCEPT ![s] =
                   FileDone(@, @.failed \/ o.failed, @.transient \/ o.transient)]
    BY <1>8 DEF RefreshFile
  <2>2. QED
    BY <1>0, <2>1, DonePasses
<1>9. CASE ImportFile(s)
  <2>1. PICK f, t : scanner' = [scanner EXCEPT ![s] = FileDone(@, f, t)]
    BY <1>9 DEF ImportFile
  <2>2. QED
    BY <1>0, <2>1, DonePasses
<1>10. CASE RefreshLost(s)
  <2> DEFINE done(f, t) == FileDone(scanner[s], scanner[s].failed \/ f,
                                    scanner[s].transient \/ t)
             left(f) == IF f THEN scanner[s].steady
                             ELSE scanner[s].steady \ {scanner[s].file}
  <2>1. PICK f \in BOOLEAN, t \in BOOLEAN :
          scanner' = [scanner EXCEPT ![s] = [done(f, t) EXCEPT !.steady = left(f)]]
    BY <1>10 DEF RefreshLost
  <2>2. scanner'[s] = [done(f, t) EXCEPT !.steady = left(f)]
    BY <1>0, <2>1
  <2>3. done(f, t) \in ScannerState
    BY <1>0, ScannerRecords
  <2>4. /\ done(f, t).copy = NoRow
        /\ done(f, t).at = 0
        /\ done(f, t).start = scanner[s].start
        /\ done(f, t).gone = scanner[s].gone
    BY <1>0 DEF FileDone, ScannerState
  <2> HIDE DEF done, left
  <2>5. QED
    BY <2>2, <2>3, <2>4 DEF ScannerState, HandStep, EmptyHand, GoneStep
<1>11. CASE Finish(s) \/ FinishFails(s) \/ Crash(s) \/ Recover(s) \/ RenewLease(s)
  BY <1>0, <1>1, <1>2, <1>11 DEF Finish, FinishFails, Crash, Recover, RenewLease
<1>12. ASSUME NEW t \in Scanners, t # s, Pass(t) \/ Trouble(t) \/ Recover(t)
       PROVE  scanner'[s] = scanner[s]
  BY <1>0, <1>12, OthersAlone
<1>13. ASSUME NEW f \in Files, NEW c \in Contents \cup {NoContent}, ChangeFile(f, c)
       PROVE  HandStep(s) /\ GoneStep(s)
  <2>1. scanner'[s] = [scanner[s] EXCEPT !.steady = @ \ {f}, !.gone = @ \ {f}]
    BY <1>13 DEF ChangeFile
  <2>2. QED
    BY <1>0, <2>1 DEF ScannerState, HandStep, SameHand, GoneStep
<1>14. QED
  <2>1. CASE \/ UNCHANGED vars
             \/ \E j \in Scans : StartScan(j) \/ LeaseExpires(j) \/ BecomesDue(j)
             \/ \E a \in Admins : Cancel(a)
             \/ \E r \in Readers : Playback(r)
    BY <1>1, <2>1, ScannersAlone
  <2>2. ASSUME Pass(s) \/ Trouble(s)
        PROVE  HandStep(s) /\ GoneStep(s)
    BY <1>3, <1>4, <1>5, <1>6, <1>7, <1>8, <1>9, <1>10, <1>11, <2>2 DEF Pass, Trouble
  <2>3. QED
    BY <1>1, <1>11, <1>12, <1>13, <2>1, <2>2 DEF Next

ReadStep(r) ==
    \/ reader'[r] = reader[r]
    \/ reader'[r] = NoRead
    \/ \E f \in Files :
        /\ reader'[r] = [pc |-> "resolving", file |-> f, copy |-> row[f]]
        /\ row[f].avail # "none"
        /\ UNCHANGED <<row, scanner>>

\* The clock never goes back, a playback request takes its copy from the row,
\* and a file that comes or goes was not gone all the time.
LEMMA OtherSteps ==
    ASSUME TypeOK, [Next]_vars
    PROVE  /\ clock' \in {clock, clock + 1}
           /\ \A r \in Readers : ReadStep(r)
           /\ \A f \in Files : \/ disk'[f] = disk[f]
                               \/ \A s \in Scanners : f \notin scanner'[s].gone
<1>0. /\ reader \in [Readers -> [pc : {"idle", "resolving"},
                                file : Files \cup {NoContent}, copy : FileRow]]
      /\ disk \in [Files -> Held]
      /\ scanner \in [Scanners -> ScannerState]
  BY DEF TypeOK
<1>1. CASE UNCHANGED vars
  BY <1>1 DEF vars, ReadStep
<1>2. ASSUME NEW s \in Scanners, Pass(s) \/ Trouble(s) \/ Recover(s)
      PROVE  UNCHANGED <<disk, reader>> /\ clock' \in {clock, clock + 1}
  BY <1>2 DEF Pass, Trouble, Claim, Probe, CheckCancellation, MissFile, VisitFile,
     RefreshFile, ImportFile, EndWalk, MarkMissing, Finish, RenewLease, WalkBreaks,
     SkipDirectory, RefreshLost, MarkFails, FinishFails, Crash, Recover
<1>3. ASSUME NEW j \in Scans, StartScan(j) \/ LeaseExpires(j) \/ BecomesDue(j)
      PROVE  UNCHANGED <<disk, reader, clock>>
  BY <1>3 DEF StartScan, LeaseExpires, BecomesDue
<1>4. ASSUME NEW a \in Admins, Cancel(a)
      PROVE  UNCHANGED <<disk, reader, clock>>
  BY <1>4 DEF Cancel, CancelRead, CancelWaiting, CancelRunning
<1>5. ASSUME NEW q \in Readers, Playback(q)
      PROVE  UNCHANGED <<disk, clock>> /\ \A r \in Readers : ReadStep(r)
  <2>1. ASSUME NEW f \in Files, ReadSource(q, f)
        PROVE  \A r \in Readers : ReadStep(r)
    BY <1>0, <2>1 DEF ReadSource, ReadStep
  <2>2. CASE ServeSource(q) \/ LoseSource(q)
    BY <1>0, <2>2 DEF ServeSource, LoseSource, ReadStep
  <2>3. UNCHANGED <<disk, clock>>
    BY <1>5 DEF Playback, ReadSource, ServeSource, LoseSource
  <2>4. QED
    BY <1>5, <2>1, <2>2, <2>3 DEF Playback
<1>6. ASSUME NEW g \in Files, NEW c \in Contents \cup {NoContent}, ChangeFile(g, c)
      PROVE  /\ UNCHANGED <<reader, clock>>
             /\ \A f \in Files : \/ disk'[f] = disk[f]
                                 \/ \A s \in Scanners : f \notin scanner'[s].gone
  <2>1. ASSUME NEW s \in Scanners
        PROVE  g \notin scanner'[s].gone
    <3>1. scanner[s] \in ScannerState
      BY <1>0
    <3>2. scanner'[s] = [scanner[s] EXCEPT !.steady = @ \ {g}, !.gone = @ \ {g}]
      BY <1>6 DEF ChangeFile
    <3>3. QED
      BY <3>1, <3>2 DEF ScannerState
  <2>2. QED
    BY <1>0, <1>6, <2>1 DEF ChangeFile
<1>7. QED
  BY <1>1, <1>2, <1>3, <1>4, <1>5, <1>6 DEF Next, ReadStep

-----------------------------------------------------------------------------
(* The files.                                                              *)

\* No step relinks or forgets a source.
LEMMA IdentityStep ==
    ASSUME TypeOK, CopiesKnowRows, [Next]_vars, NEW f \in Files, row[f].avail # "none"
    PROVE  row'[f].avail # "none" /\ row'[f].hash = row[f].hash
<1>1. RowStep(f) /\ row[f] \in FileRow
  BY RowSteps DEF TypeOK
<1>2. ASSUME NEW s \in Scanners, SavedBy(s, f) \/ ImportedBy(s, f)
      PROVE  row'[f].avail # "none" /\ row'[f].hash = row[f].hash
  BY <1>2 DEF SavedBy, ImportedBy, CopiesKnowRows
<1>3. CASE MarkedMissing(f)
  BY <1>1, <1>3 DEF MarkedMissing, FileRow
<1>4. ASSUME NEW r \in Readers, ResolvedBy(r, f)
      PROVE  row'[f].avail # "none" /\ row'[f].hash = row[f].hash
  BY <1>4 DEF ResolvedBy, CopiesKnowRows
<1>5. QED
  BY <1>1, <1>2, <1>3, <1>4 DEF RowStep

\* Copies stay copies of known rows.
LEMMA CopiesStep ==
    ASSUME TypeOK, CopiesKnowRows, [Next]_vars
    PROVE  CopiesKnowRows'
<1>1. ASSUME NEW s \in Scanners, scanner'[s].copy.avail # "none"
      PROVE  /\ scanner'[s].file \in Files
             /\ row'[scanner'[s].file].avail # "none"
             /\ row'[scanner'[s].file].hash = scanner'[s].copy.hash
  <2>1. HandStep(s)
    BY HandSteps
  <2>2. CASE SameHand(s)
    <3>1. /\ scanner[s].copy.avail # "none"
          /\ scanner[s].file \in Files
          /\ row[scanner[s].file].avail # "none"
          /\ row[scanner[s].file].hash = scanner[s].copy.hash
      BY <1>1, <2>2 DEF SameHand, CopiesKnowRows
    <3>2. QED
      BY <2>2, <3>1, IdentityStep DEF SameHand
  <2>3. CASE EmptyHand(s)
    BY <1>1, <2>3 DEF EmptyHand, NoRow
  <2>4. CASE Visits(s)
    BY <1>1, <2>4 DEF Visits
  <2>5. QED
    BY <2>1, <2>2, <2>3, <2>4 DEF HandStep
<1>2. ASSUME NEW r \in Readers, reader'[r].pc = "resolving"
      PROVE  /\ reader'[r].file \in Files
             /\ reader'[r].copy.avail # "none"
             /\ row'[reader'[r].file].avail # "none"
             /\ row'[reader'[r].file].hash = reader'[r].copy.hash
  <2>1. ReadStep(r)
    BY OtherSteps
  <2>2. CASE reader'[r] = reader[r]
    <3>1. /\ reader[r].file \in Files
          /\ reader[r].copy.avail # "none"
          /\ row[reader[r].file].avail # "none"
          /\ row[reader[r].file].hash = reader[r].copy.hash
      BY <1>2, <2>2 DEF CopiesKnowRows
    <3>2. QED
      BY <2>2, <3>1, IdentityStep
  <2>3. CASE reader'[r] = NoRead
    BY <1>2, <2>3 DEF NoRead
  <2>4. CASE \E f \in Files :
               /\ reader'[r] = [pc |-> "resolving", file |-> f, copy |-> row[f]]
               /\ row[f].avail # "none"
               /\ UNCHANGED <<row, scanner>>
    BY <2>4
  <2>5. QED
    BY <2>1, <2>2, <2>3, <2>4 DEF ReadStep
<1>3. QED
  BY <1>1, <1>2 DEF CopiesKnowRows

\* Where the time a row was seen comes from.
LEMMA SeenSources ==
    ASSUME TypeOK, [Next]_vars, NEW f \in Files
    PROVE  \/ row'[f].seen = row[f].seen
           \/ \E s \in Scanners :
                /\ scanner[s].file = f
                /\ row'[f].seen \in {scanner[s].copy.seen, scanner[s].at}
           \/ \E r \in Readers :
                /\ reader[r].file = f
                /\ row'[f].seen = reader[r].copy.seen
<1>1. RowStep(f) /\ row[f] \in FileRow
  BY RowSteps DEF TypeOK
<1>2. CASE MarkedMissing(f)
  BY <1>1, <1>2 DEF MarkedMissing, FileRow
<1>3. QED
  BY <1>1, <1>2 DEF RowStep, SavedBy, ImportedBy, ResolvedBy

\* Nothing comes to be seen in the future.
LEMMA TimesStep ==
    ASSUME TypeOK, TimesArePast, [Next]_vars
    PROVE  TimesArePast'
<1>0. /\ clock \in Nat /\ clock' \in Nat /\ clock <= clock'
  BY OtherSteps DEF TypeOK
<1>1. ASSUME NEW f \in Files
      PROVE  row'[f].seen <= clock'
  <2>1. /\ row[f].seen \in Nat
        /\ \A s \in Scanners : scanner[s].copy.seen \in Nat /\ scanner[s].at \in Nat
        /\ \A r \in Readers : reader[r].copy.seen \in Nat
    BY DEF TypeOK, FileRow, ScannerState
  <2>2. PICK n \in Nat : row'[f].seen = n /\ n <= clock
    BY <2>1, SeenSources DEF TimesArePast
  <2>3. QED
    BY <1>0, <2>2
<1>2. ASSUME NEW s \in Scanners
      PROVE  scanner'[s].at <= clock' /\ scanner'[s].copy.seen <= clock'
  <2>1. scanner[s].at \in Nat /\ scanner[s].copy.seen \in Nat
        /\ \A f \in Files : row[f].seen \in Nat
    BY DEF TypeOK, FileRow, ScannerState
  <2>2. HandStep(s)
    BY HandSteps
  <2>3. QED
    BY <1>0, <2>1, <2>2 DEF HandStep, SameHand, EmptyHand, Visits, NoRow, TimesArePast
<1>3. ASSUME NEW r \in Readers
      PROVE  reader'[r].copy.seen <= clock'
  <2>1. reader[r].copy.seen \in Nat /\ \A f \in Files : row[f].seen \in Nat
    BY DEF TypeOK, FileRow
  <2>2. ReadStep(r)
    BY OtherSteps
  <2>3. CASE reader'[r] = reader[r]
    BY <1>0, <2>1, <2>3 DEF TimesArePast
  <2>4. CASE reader'[r] = NoRead
    BY <1>0, <2>4 DEF NoRead, NoRow
  <2>5. CASE \E f \in Files :
               reader'[r] = [pc |-> "resolving", file |-> f, copy |-> row[f]]
    <3>1. PICK f \in Files : reader'[r].copy = row[f]
      BY <2>5
    <3>2. QED
      BY <1>0, <2>1, <3>1 DEF TimesArePast
  <2>6. QED
    BY <2>2, <2>3, <2>4, <2>5 DEF ReadStep
<1>4. QED
  BY <1>1, <1>2, <1>3 DEF TimesArePast

\* A file that was gone all through a pass has not been seen by anybody.
LEMMA GoneUnseenStep ==
    ASSUME TypeOK, TypeOK', TimesArePast, GoneFilesUnseen, [Next]_vars
    PROVE  GoneFilesUnseen'
<1>1. SUFFICES ASSUME NEW s \in Scanners, NEW f \in scanner'[s].gone
               PROVE  /\ disk'[f] = NoContent
                      /\ row'[f].seen < scanner'[s].start
                      /\ \A t \in Scanners : scanner'[t].file = f =>
                          /\ scanner'[t].at < scanner'[s].start
                          /\ scanner'[t].copy.seen < scanner'[s].start
                      /\ \A r \in Readers : reader'[r].file = f =>
                          reader'[r].copy.seen < scanner'[s].start
  BY DEF GoneFilesUnseen
<1>2. /\ f \in Files
      /\ scanner'[s].start \in Nat
      /\ clock \in Nat
  <2>1. scanner'[s] \in ScannerState
    BY DEF TypeOK
  <2>2. QED
    BY <1>1, <2>1 DEF TypeOK, ScannerState
<1>3. /\ row[f].seen \in Nat
      /\ \A t \in Scanners : scanner[t].at \in Nat /\ scanner[t].copy.seen \in Nat
      /\ \A r \in Readers : reader[r].copy.seen \in Nat
  BY <1>2 DEF TypeOK, FileRow, ScannerState
<1>4. GoneStep(s) /\ \A t \in Scanners : HandStep(t)
  BY HandSteps
<1>5. /\ disk'[f] = disk[f]
      /\ \A r \in Readers : ReadStep(r)
  BY <1>1, <1>2, OtherSteps
<1>6. CASE scanner'[s].start = scanner[s].start /\ scanner'[s].gone \subseteq scanner[s].gone
  <2>1. /\ disk[f] = NoContent
        /\ row[f].seen < scanner[s].start
        /\ \A t \in Scanners : scanner[t].file = f =>
            scanner[t].at < scanner[s].start /\ scanner[t].copy.seen < scanner[s].start
        /\ \A r \in Readers : reader[r].file = f => reader[r].copy.seen < scanner[s].start
    BY <1>1, <1>6 DEF GoneFilesUnseen
  <2>2. 0 < scanner'[s].start
    BY <1>2, <1>3, <1>6, <2>1
  <2>3. row'[f].seen < scanner'[s].start
    BY <1>2, <1>6, <2>1, SeenSources
  <2>4. ASSUME NEW t \in Scanners, scanner'[t].file = f
        PROVE  scanner'[t].at < scanner'[s].start /\ scanner'[t].copy.seen < scanner'[s].start
    <3>1. CASE SameHand(t)
      BY <1>6, <2>1, <2>4, <3>1 DEF SameHand
    <3>2. CASE EmptyHand(t)
      BY <2>2, <3>2 DEF EmptyHand, NoRow
    <3>3. CASE Visits(t)
      BY <2>1, <2>4, <3>3 DEF Visits
    <3>4. QED
      BY <1>4, <3>1, <3>2, <3>3 DEF HandStep
  <2>5. ASSUME NEW r \in Readers, reader'[r].file = f
        PROVE  reader'[r].copy.seen < scanner'[s].start
    <3>1. CASE reader'[r] = reader[r]
      BY <1>6, <2>1, <2>5, <3>1
    <3>2. CASE reader'[r] = NoRead
      BY <2>2, <3>2 DEF NoRead, NoRow
    <3>3. CASE \E g \in Files :
                 reader'[r] = [pc |-> "resolving", file |-> g, copy |-> row[g]]
      BY <1>6, <2>1, <2>5, <3>3
    <3>4. QED
      BY <1>5, <3>1, <3>2, <3>3 DEF ReadStep
  <2>6. QED
    BY <1>5, <2>1, <2>3, <2>4, <2>5
<1>7. CASE scanner'[s].gone = {}
  BY <1>1, <1>7
<1>8. CASE /\ scanner'[s].gone = {g \in Files : disk[g] = NoContent}
           /\ scanner'[s].start = clock + 1
           /\ UNCHANGED <<row, disk, reader>>
  <2>1. disk'[f] = NoContent
    BY <1>1, <1>8
  <2>2. /\ row[f].seen <= clock
        /\ \A t \in Scanners : scanner[t].at <= clock /\ scanner[t].copy.seen <= clock
        /\ \A r \in Readers : reader[r].copy.seen <= clock
    BY <1>2 DEF TimesArePast
  <2>3. ASSUME NEW t \in Scanners, scanner'[t].file = f
        PROVE  scanner'[t].at < scanner'[s].start /\ scanner'[t].copy.seen < scanner'[s].start
    <3>1. CASE SameHand(t)
      BY <1>2, <1>3, <1>8, <2>2, <3>1 DEF SameHand
    <3>2. CASE EmptyHand(t)
      BY <1>2, <1>8, <3>2 DEF EmptyHand, NoRow
    <3>3. CASE Visits(t)
      BY <1>2, <1>8, <2>1, <2>3, <3>3 DEF Visits
    <3>4. QED
      BY <1>4, <3>1, <3>2, <3>3 DEF HandStep
  <2>4. QED
    BY <1>2, <1>3, <1>8, <2>1, <2>2, <2>3
<1>9. QED
  BY <1>4, <1>6, <1>7, <1>8 DEF GoneStep

\* What the rows, the copies and the passes keep is inductive.
THEOREM FilesInvInductive ==
    /\ Init => FilesInv
    /\ ScanInv /\ FilesInv /\ [Next]_vars => FilesInv'
<1>1. ASSUME Init PROVE FilesInv
  <2>1. /\ \A f \in Files : row[f].seen = 0
        /\ \A s \in Scanners : /\ scanner[s].at = 0
                               /\ scanner[s].copy = NoRow
                               /\ scanner[s].gone = {}
        /\ \A r \in Readers : reader[r].pc = "idle" /\ reader[r].copy = NoRow
        /\ clock = 0
    BY <1>1 DEF Init, NoRow, Down, Idle, NoRead
  <2>2. CopiesKnowRows
    BY <2>1 DEF CopiesKnowRows, NoRow
  <2>3. TimesArePast
    BY <2>1 DEF TimesArePast, NoRow
  <2>4. GoneFilesUnseen
    BY <2>1 DEF GoneFilesUnseen
  <2>5. QED
    BY <2>2, <2>3, <2>4 DEF FilesInv
<1>2. ASSUME ScanInv, FilesInv, [Next]_vars PROVE FilesInv'
  <2>1. TypeOK /\ TypeOK'
    BY <1>2, TypeStep DEF ScanInv
  <2>2. CopiesKnowRows' /\ TimesArePast' /\ GoneFilesUnseen'
    BY <1>2, <2>1, CopiesStep, TimesStep, GoneUnseenStep DEF FilesInv
  <2>3. QED
    BY <2>2 DEF FilesInv
<1>3. QED
  BY <1>1, <1>2

\* The invariant of the files holds.
THEOREM FilesInvHolds == Spec => []FilesInv
<1>1. ScanInv /\ FilesInv /\ UNCHANGED vars => FilesInv'
  BY FilesInvInductive
<1>2. QED
  BY <1>1, FilesInvInductive, ScanInvHolds, PTL DEF Spec

\* Whoever scans, replaces or plays a file, a known source keeps the content it
\* was imported with.
THEOREM IdentitiesKept == Spec => IdentityKept
<1>1. ScanInv /\ FilesInv /\ [Next]_vars =>
        [\A f \in Files : row[f].avail # "none" =>
            row'[f].avail # "none" /\ row'[f].hash = row[f].hash]_vars
  BY IdentityStep DEF ScanInv, FilesInv
<1>2. QED
  BY <1>1, ScanInvHolds, FilesInvHolds, PTL DEF Spec, IdentityKept

\* The step that marks missing files.
LEMMA MarkSteps ==
    ASSUME TypeOK, ScannersAreSound, [Next]_vars, NEW s \in Scanners, MarksDone(s)
    PROVE  MarkMissing(s)
<1>0. scanner[s] \in ScannerState /\ scanner \in [Scanners -> ScannerState]
  BY DEF TypeOK
<1>1. /\ scanner[s].pc = "marking"
      /\ scanner'[s].pc = "finishing"
      /\ scanner'[s].result = "succeeded"
      /\ scanner'[s] # scanner[s]
  BY DEF MarksDone
<1>2. ASSUME Pass(s) \/ Trouble(s) \/ Recover(s)
      PROVE  MarkMissing(s)
  <2>1. ~MarkFails(s)
    <3>1. ASSUME MarkFails(s) PROVE scanner'[s].result = "failed"
      BY <1>0, <3>1 DEF MarkFails, Finishing, ScannerState
    <3>2. QED
      BY <1>1, <3>1
  <2>2. ~Crash(s)
    BY <1>0, <1>1 DEF Crash, Down, Idle
  <2>3. QED
    BY <1>1, <1>2, <2>1, <2>2 DEF Pass, Trouble, Claim, Probe, CheckCancellation, MissFile,
       VisitFile, RefreshFile, ImportFile, EndWalk, Finish, RenewLease, WalkBreaks,
       SkipDirectory, RefreshLost, FinishFails, Recover
<1>3. ASSUME NEW t \in Scanners, t # s, Pass(t) \/ Trouble(t) \/ Recover(t)
      PROVE  FALSE
  BY <1>1, <1>3, OthersAlone
<1>4. ASSUME NEW f \in Files, NEW c \in Contents \cup {NoContent}, ChangeFile(f, c)
      PROVE  FALSE
  <2>1. scanner'[s] = [scanner[s] EXCEPT !.steady = @ \ {f}, !.gone = @ \ {f}]
    BY <1>4 DEF ChangeFile
  <2>2. scanner'[s].pc = scanner[s].pc
    BY <1>0, <2>1 DEF ScannerState
  <2>3. QED
    BY <1>1, <2>2
<1>5. QED
  <2>1. ~ \/ UNCHANGED vars
          \/ \E j \in Scans : StartScan(j) \/ LeaseExpires(j) \/ BecomesDue(j)
          \/ \E a \in Admins : Cancel(a)
          \/ \E r \in Readers : Playback(r)
    BY <1>1, ScannersAlone
  <2>2. QED
    BY <1>2, <1>3, <1>4, <2>1 DEF Next

\* With any number of scanners and playback requests, a pass that succeeded
\* without failures leaves no file on offer that was gone all the time.
THEOREM VanishedMarked == Spec => VanishedFilesMarked
<1>1. ASSUME ScanInv, FilesInv, [Next]_vars, NEW s \in Scanners, MarksDone(s),
             NEW f \in scanner[s].gone
      PROVE  row'[f].avail \notin {"online", "offline"}
  <2>1. MarkMissing(s)
    BY <1>1, MarkSteps DEF ScanInv
  <2>2. scanner[s] \in ScannerState /\ row \in [Files -> FileRow]
    BY <1>1 DEF ScanInv, TypeOK
  <2>3. f \in Files /\ row[f] \in FileRow
    BY <1>1, <2>2 DEF ScannerState
  <2>4. row[f].seen < scanner[s].start
    BY <1>1 DEF FilesInv, GoneFilesUnseen
  <2>5. row'[f] = IF row[f].avail \notin {"none", "changed"}
                  THEN [row[f] EXCEPT !.avail = "missing"] ELSE row[f]
    BY <2>1, <2>3, <2>4 DEF MarkMissing
  <2>6. QED
    BY <2>3, <2>5 DEF FileRow
<1>2. ScanInv /\ FilesInv /\ [Next]_vars =>
        [\A s \in Scanners : MarksDone(s) =>
            \A f \in scanner[s].gone : row'[f].avail \notin {"online", "offline"}]_vars
  BY <1>1
<1>3. QED
  BY <1>2, ScanInvHolds, FilesInvHolds, PTL DEF Spec, VanishedFilesMarked

-----------------------------------------------------------------------------
(* The files that are there.                                               *)

SteadyKept(s) == HandIsFresh(s) /\ \A f \in scanner[s].steady : SteadySeen(s, f)

\* A scanner that is not at work on a pass, or has failed, owes nothing but the
\* files themselves.
LEMMA SteadyIdles ==
    ASSUME TypeOK, NEW s \in Scanners, SteadyKept(s),
           scanner'[s].pc \notin Underway,
           scanner'[s].steady \subseteq scanner[s].steady, disk' = disk
    PROVE  SteadyKept(s)'
<1>1. scanner'[s].pc \notin {"reading", "marking"}
  BY DEF Underway
<1>2. HandIsFresh(s)'
  BY <1>1 DEF HandIsFresh
<1>3. QED
  BY <1>2 DEF SteadyKept, SteadySeen

\* A scanner that goes on with its pass, with empty hands and without a look at
\* a file that is there.
LEMMA SteadyGoesOn ==
    ASSUME TypeOK, NEW s \in Scanners, SteadyKept(s),
           UNCHANGED <<row, disk, clock>>,
           scanner[s].pc \in Underway \ {"reading"},
           scanner'[s].pc # "reading",
           scanner'[s].start = scanner[s].start,
           scanner'[s].steady = scanner[s].steady,
           scanner'[s].pc = "marking" => ~scanner'[s].failed /\ scanner'[s].todo = {},
           \/ scanner'[s].failed
           \/ /\ ~scanner[s].failed
              /\ \A f \in scanner[s].todo : disk[f] # NoContent => f \in scanner'[s].todo
    PROVE  SteadyKept(s)'
<1>1. HandIsFresh(s)'
  BY DEF SteadyKept, HandIsFresh
<1>2. ASSUME NEW f \in scanner[s].steady
      PROVE  SteadySeen(s, f)'
  <2>1. SteadySeen(s, f)
    BY DEF SteadyKept
  <2>2. disk[f] # NoContent
    BY <2>1, ScanConstants DEF SteadySeen
  <2>3. CASE scanner'[s].failed
    BY <2>1, <2>3 DEF SteadySeen
  <2>4. CASE /\ ~scanner[s].failed
             /\ \A g \in scanner[s].todo : disk[g] # NoContent => g \in scanner'[s].todo
    BY <2>1, <2>2, <2>4 DEF SteadySeen
  <2>5. QED
    BY <2>3, <2>4
<1>3. QED
  BY <1>1, <1>2 DEF SteadyKept

\* A scanner that has begun a pass has every file before it.
LEMMA SteadyBegins ==
    ASSUME TypeOK, NEW s \in Scanners, Claim(s)
    PROVE  SteadyKept(s)'
<1>1. PICK j : scanner'[s] = Begun(j)
  BY DEF Claim, TypeOK
<1>2. /\ scanner'[s].pc = "probing"
      /\ scanner'[s].start = clock + 1
      /\ scanner'[s].todo = Files
      /\ scanner'[s].steady = {f \in Files : disk[f] \in Contents \ Unfit}
  BY <1>1 DEF Begun, Idle
<1>3. clock' = clock + 1 /\ clock \in Nat /\ disk' = disk
  BY DEF Claim, TypeOK
<1>4. HandIsFresh(s)'
  BY <1>2, <1>3 DEF HandIsFresh
<1>5. QED
  BY <1>2, <1>3, <1>4 DEF SteadyKept, SteadySeen

\* A scanner that takes a file in hand takes what is there.
LEMMA SteadyVisits ==
    ASSUME TypeOK, NEW s \in Scanners, SteadyKept(s), NEW g \in Files, VisitFile(s, g)
    PROVE  SteadyKept(s)'
<1>0. scanner[s] \in ScannerState /\ scanner \in [Scanners -> ScannerState]
  BY DEF TypeOK
<1>1. scanner'[s] = [scanner[s] EXCEPT
        !.pc = "reading", !.todo = scanner[s].todo \ {g}, !.file = g,
        !.copy = row[g], !.content = disk[g], !.at = clock]
  BY <1>0 DEF VisitFile
<1>2. /\ scanner'[s].pc = "reading"
      /\ scanner'[s].file = g
      /\ scanner'[s].copy = row[g]
      /\ scanner'[s].content = disk[g]
      /\ scanner'[s].at = clock
      /\ scanner'[s].todo = scanner[s].todo \ {g}
      /\ scanner'[s].start = scanner[s].start
      /\ scanner'[s].steady = scanner[s].steady
  BY <1>0, <1>1 DEF ScannerState
<1>3. scanner'[s].failed = scanner[s].failed
  BY <1>0, <1>1 DEF ScannerState
<1>4. UNCHANGED <<row, disk, clock>> /\ scanner[s].pc = "walking"
  BY DEF VisitFile
<1>5. HandIsFresh(s)'
  BY <1>2, <1>4 DEF SteadyKept, HandIsFresh, Underway
<1>6. ASSUME NEW f \in scanner[s].steady
      PROVE  SteadySeen(s, f)'
  <2>1. SteadySeen(s, f)
    BY DEF SteadyKept
  <2>2. QED
    BY <1>2, <1>3, <1>4, <2>1 DEF SteadySeen, Underway
<1>7. QED
  BY <1>2, <1>5, <1>6 DEF SteadyKept

\* A scanner that is done with a file it had in hand has failed, has seen the
\* file, or found it without a row and left it so.
LEMMA SteadyDone ==
    ASSUME TypeOK, NEW s \in Scanners, SteadyKept(s), UNCHANGED <<disk, clock>>,
           scanner[s].pc = "reading",
           scanner'[s].pc = "walking",
           scanner'[s].start = scanner[s].start,
           scanner'[s].todo = scanner[s].todo,
           scanner'[s].steady \subseteq scanner[s].steady,
           scanner[s].failed => scanner'[s].failed,
           \A f \in Files \ {scanner[s].file} : row'[f] = row[f],
           scanner[s].file \in scanner'[s].steady =>
               \/ scanner'[s].failed
               \/ scanner[s].start <= row'[scanner[s].file].seen
               \/ row'[scanner[s].file].avail = "none"
    PROVE  SteadyKept(s)'
<1>1. HandIsFresh(s)'
  BY DEF SteadyKept, HandIsFresh, Underway
<1>2. ASSUME NEW f \in scanner'[s].steady
      PROVE  SteadySeen(s, f)'
  <2>1. SteadySeen(s, f) /\ f \in Files
    BY DEF SteadyKept, TypeOK, ScannerState
  <2>2. CASE f = scanner[s].file
    BY <2>1, <2>2 DEF SteadySeen
  <2>3. CASE f # scanner[s].file
    <3>1. row'[f] = row[f]
      BY <2>1, <2>3
    <3>2. QED
      BY <2>1, <2>3, <3>1 DEF SteadySeen, Underway
  <2>4. QED
    BY <2>2, <2>3
<1>3. QED
  BY <1>1, <1>2 DEF SteadyKept

\* The outcome of a fit file is a failure, or the file has been seen.
LEMMA SeenOutcomes ==
    ASSUME NEW old \in FileRow, NEW c \in Contents \ Unfit, NEW at \in Nat,
           NEW o \in KnownOutcomes(old, c, at) \cup Hashed(old, c, at)
    PROVE  o.failed \/ o.row.seen = at
<1>1. /\ [old EXCEPT !.seen = at].seen = at
      /\ \A v : Seen(old, v, at).seen = at
      /\ \A v : [Seen(old, v, at) EXCEPT !.stamp = c].seen = at
  BY DEF Seen, FileRow
<1>2. \A saved : \A x \in Fine(saved) : x.row = saved
  BY DEF Fine, Outcome
<1>3. CASE o \in Unreadable(old)
  <2>1. PICK t \in BOOLEAN : o = Outcome([old EXCEPT !.avail = "offline"], TRUE, t)
    BY <1>3 DEF Unreadable
  <2>2. QED
    BY <2>1, Zenon DEF Outcome
<1>4. CASE o \in Busy(old, at)
  <2>1. PICK t \in BOOLEAN : o = Outcome(Seen(old, "changed", at), FALSE, t)
    BY <1>4 DEF Busy
  <2>2. o.row = Seen(old, "changed", at)
    BY <2>1, Zenon DEF Outcome
  <2>3. QED
    BY <1>1, <2>2
<1>5. CASE o \in TooYoung(old, at) \cup Untouched(old, at) \cup Hashed(old, c, at)
  BY <1>1, <1>2, <1>5 DEF TooYoung, Untouched, Hashed
<1>6. QED
  BY <1>3, <1>4, <1>5 DEF KnownOutcomes

\* What is left of a scanner's record when it is done with a file.
LEMMA DoneRecords ==
    ASSUME NEW me \in ScannerState, NEW f, NEW t, NEW done, done = FileDone(me, f, t)
    PROVE  /\ done.pc = "walking"
           /\ done.start = me.start
           /\ done.todo = me.todo
           /\ done.steady = me.steady
           /\ done.failed = f
  BY DEF FileDone, ScannerState

\* A refreshed file is kept.
LEMMA SteadyRefreshed ==
    ASSUME TypeOK, NEW s \in Scanners, SteadyKept(s), RefreshFile(s)
    PROVE  SteadyKept(s)'
<1> DEFINE me == scanner[s]
<1>0. me \in ScannerState /\ scanner \in [Scanners -> ScannerState]
  BY DEF TypeOK
<1>1. PICK o \in KnownOutcomes(me.copy, me.content, me.at)
                 \cup (IF disk[me.file] = me.content /\ me.content \notin Unfit
                       THEN Hashed(me.copy, me.content, me.at) ELSE {}) :
        /\ row' = [row EXCEPT ![me.file] = o.row]
        /\ scanner' = [scanner EXCEPT ![s] =
             FileDone(@, @.failed \/ o.failed, @.transient \/ o.transient)]
  BY DEF RefreshFile
<1>2. scanner'[s] = FileDone(me, me.failed \/ o.failed, me.transient \/ o.transient)
  BY <1>0, <1>1
<1>3. /\ scanner'[s].pc = "walking"
      /\ scanner'[s].start = me.start
      /\ scanner'[s].todo = me.todo
      /\ scanner'[s].steady = me.steady
  BY <1>0, <1>2, DoneRecords
<1>4. scanner'[s].failed = (me.failed \/ o.failed)
  BY <1>0, <1>2, DoneRecords
<1>5. me.pc = "reading" /\ UNCHANGED <<disk, clock>>
  BY DEF RefreshFile
<1>6. row \in [Files -> FileRow] /\ me.file \in Files
  BY <1>5 DEF TypeOK, SteadyKept, HandIsFresh
<1>7. /\ \A f \in Files \ {me.file} : row'[f] = row[f]
      /\ row'[me.file] = o.row
  BY <1>1, <1>6
<1>8. ASSUME me.file \in me.steady
      PROVE  scanner'[s].failed \/ me.start <= row'[me.file].seen
  <2>1. me.content \in Contents \ Unfit /\ me.start <= me.at
    BY <1>5, <1>8 DEF SteadyKept, HandIsFresh, SteadySeen
  <2>2. me.copy \in FileRow /\ me.at \in Nat
    BY <1>0 DEF ScannerState
  <2>3. o.failed \/ o.row.seen = me.at
    BY <1>1, <2>1, <2>2, SeenOutcomes
  <2>4. CASE o.failed
    BY <1>4, <2>4
  <2>5. CASE o.row.seen = me.at
    BY <1>7, <2>1, <2>5
  <2>6. QED
    BY <2>3, <2>4, <2>5
<1>9. me.failed => scanner'[s].failed
  BY <1>4
<1>10. QED
  BY <1>3, <1>5, <1>7, <1>8, <1>9, SteadyDone

\* A file whose save failed is kept, or given up.
LEMMA SteadyLost ==
    ASSUME TypeOK, NEW s \in Scanners, SteadyKept(s), RefreshLost(s)
    PROVE  SteadyKept(s)'
<1> DEFINE me == scanner[s]
           done(f, t) == FileDone(me, me.failed \/ f, me.transient \/ t)
           left(f) == IF f THEN me.steady ELSE me.steady \ {me.file}
<1>0. me \in ScannerState /\ scanner \in [Scanners -> ScannerState]
  BY DEF TypeOK
<1>1. PICK f \in BOOLEAN, t \in BOOLEAN :
        scanner' = [scanner EXCEPT ![s] = [done(f, t) EXCEPT !.steady = left(f)]]
  BY DEF RefreshLost
<1>2. scanner'[s] = [done(f, t) EXCEPT !.steady = left(f)]
  BY <1>0, <1>1
<1>3. done(f, t) \in ScannerState
  BY <1>0, ScannerRecords
<1>4. /\ done(f, t).pc = "walking"
      /\ done(f, t).start = me.start
      /\ done(f, t).todo = me.todo
  BY <1>0, DoneRecords
<1>5. done(f, t).failed = (me.failed \/ f)
  BY <1>0, DoneRecords
<1> HIDE DEF done
<1>6. /\ scanner'[s].pc = "walking"
      /\ scanner'[s].start = me.start
      /\ scanner'[s].todo = me.todo
      /\ scanner'[s].steady = left(f)
  BY <1>2, <1>3, <1>4 DEF ScannerState
<1>7. scanner'[s].failed = (me.failed \/ f)
  BY <1>2, <1>3, <1>5 DEF ScannerState
<1>8. me.pc = "reading" /\ UNCHANGED <<row, disk, clock>>
  BY DEF RefreshLost
<1>9. scanner'[s].steady \subseteq me.steady
  BY <1>6
<1>10. me.file \in scanner'[s].steady => scanner'[s].failed
  BY <1>6, <1>7
<1>11. me.failed => scanner'[s].failed
  BY <1>7
<1>12. QED
  BY <1>6, <1>8, <1>9, <1>10, <1>11, SteadyDone

\* A file without a row gets one, or is left without.
LEMMA SteadyImported ==
    ASSUME TypeOK, NEW s \in Scanners, SteadyKept(s), ImportFile(s)
    PROVE  SteadyKept(s)'
<1> DEFINE me == scanner[s]
<1>0. me \in ScannerState /\ scanner \in [Scanners -> ScannerState]
  BY DEF TypeOK
<1>1. PICK failed \in {me.failed, TRUE}, transient \in {me.transient, TRUE} :
        scanner' = [scanner EXCEPT ![s] = FileDone(@, failed, transient)]
  BY DEF ImportFile
<1>2. scanner'[s] = FileDone(me, failed, transient)
  BY <1>0, <1>1
<1>3. /\ scanner'[s].pc = "walking"
      /\ scanner'[s].start = me.start
      /\ scanner'[s].todo = me.todo
      /\ scanner'[s].steady = me.steady
      /\ scanner'[s].failed = failed
  BY <1>0, <1>2, DoneRecords
<1>4. /\ me.pc = "reading"
      /\ me.copy.avail = "none"
      /\ UNCHANGED <<disk, clock>>
      /\ \/ row' = [row EXCEPT ![me.file] = NewRow(me.content, me.at)]
         \/ row' = row
  BY DEF ImportFile
<1>5. row \in [Files -> FileRow] /\ me.file \in Files
  BY <1>4 DEF TypeOK, SteadyKept, HandIsFresh
<1>6. me.copy = row[me.file] /\ me.start <= me.at
  BY <1>4 DEF SteadyKept, HandIsFresh
<1>7. \A f \in Files \ {me.file} : row'[f] = row[f]
  BY <1>4, <1>5
<1>8. me.start <= row'[me.file].seen \/ row'[me.file].avail = "none"
  BY <1>4, <1>5, <1>6 DEF NewRow
<1>9. me.failed => scanner'[s].failed
  BY <1>1, <1>3
<1>10. QED
  BY <1>3, <1>4, <1>7, <1>8, <1>9, SteadyDone

\* A file that comes, changes or goes is steady no more.
LEMMA SteadyChanges ==
    ASSUME TypeOK, NEW s \in Scanners, SteadyKept(s),
           NEW g \in Files, NEW c \in Contents \cup {NoContent}, ChangeFile(g, c)
    PROVE  SteadyKept(s)'
<1>0. scanner[s] \in ScannerState /\ disk \in [Files -> Held]
  BY DEF TypeOK
<1>1. scanner'[s] = [scanner[s] EXCEPT !.steady = @ \ {g}, !.gone = @ \ {g}]
  BY DEF ChangeFile
<1>2. /\ scanner'[s].steady = scanner[s].steady \ {g}
      /\ scanner'[s].pc = scanner[s].pc
      /\ scanner'[s].start = scanner[s].start
      /\ scanner'[s].todo = scanner[s].todo
      /\ scanner'[s].file = scanner[s].file
      /\ scanner'[s].copy = scanner[s].copy
      /\ scanner'[s].content = scanner[s].content
      /\ scanner'[s].at = scanner[s].at
  BY <1>0, <1>1 DEF ScannerState
<1>3. scanner'[s].failed = scanner[s].failed
  BY <1>0, <1>1 DEF ScannerState
<1>4. UNCHANGED <<row, clock>> /\ \A f \in Files \ {g} : disk'[f] = disk[f]
  BY <1>0 DEF ChangeFile
<1>5. HandIsFresh(s)'
  BY <1>2, <1>3, <1>4 DEF SteadyKept, HandIsFresh
<1>6. ASSUME NEW f \in scanner'[s].steady
      PROVE  SteadySeen(s, f)'
  <2>1. f \in scanner[s].steady /\ f \in Files \ {g}
    BY <1>0, <1>2 DEF ScannerState
  <2>2. SteadySeen(s, f)
    BY <2>1 DEF SteadyKept
  <2>3. QED
    BY <1>2, <1>3, <1>4, <2>1, <2>2 DEF SteadySeen
<1>7. QED
  BY <1>5, <1>6 DEF SteadyKept

\* A scanner that goes to the end of its scan, or leaves it.
LEMMA SteadyEnds ==
    ASSUME TypeOK, NEW s \in Scanners, SteadyKept(s), disk' = disk,
           \/ scanner'[s] \in {Idle, Down}
           \/ \E result : scanner'[s] = Finishing(scanner[s], result)
    PROVE  SteadyKept(s)'
<1>0. scanner[s] \in ScannerState
  BY DEF TypeOK
<1>1. CASE scanner'[s] \in {Idle, Down}
  <2>1. scanner'[s].pc \notin Underway /\ scanner'[s].steady = {}
    BY <1>1 DEF Idle, Down, Underway
  <2>2. QED
    BY <2>1, SteadyIdles
<1>2. ASSUME NEW result, scanner'[s] = Finishing(scanner[s], result)
      PROVE  SteadyKept(s)'
  <2>1. scanner'[s].pc = "finishing" /\ scanner'[s].steady = scanner[s].steady
    BY <1>0, <1>2 DEF Finishing, ScannerState
  <2>2. scanner'[s].pc \notin Underway
    BY <2>1 DEF Underway
  <2>3. QED
    BY <2>1, <2>2, SteadyIdles
<1>3. QED
  BY <1>1, <1>2

\* What the steps that neither take a file in hand nor put one away do.
LEMMA SteadyWalks ==
    ASSUME TypeOK, NEW s \in Scanners, SteadyKept(s),
           \/ Probe(s) \/ WalkBreaks(s) \/ CheckCancellation(s) \/ EndWalk(s)
           \/ MarkMissing(s) \/ MarkFails(s) \/ SkipDirectory(s)
           \/ \E f \in Files : MissFile(s, f)
    PROVE  SteadyKept(s)'
<1>0. scanner[s] \in ScannerState /\ scanner \in [Scanners -> ScannerState]
  BY DEF TypeOK
<1>1. UNCHANGED <<disk, clock>>
  BY DEF Probe, WalkBreaks, CheckCancellation, EndWalk, MarkMissing, MarkFails,
     SkipDirectory, MissFile
<1>2. CASE \E result : scanner'[s] = Finishing(scanner[s], result)
  BY <1>1, <1>2, SteadyEnds
<1>3. CASE /\ scanner[s].pc \in {"probing", "walking"}
           /\ row' = row
           /\ \/ scanner'[s] = [scanner[s] EXCEPT !.pc = "walking"]
              \/ /\ scanner'[s] = [scanner[s] EXCEPT !.pc = "marking"]
                 /\ ~scanner[s].failed
                 /\ scanner[s].todo = {}
              \/ scanner'[s] = [scanner[s] EXCEPT !.checked = TRUE]
  <2>1. /\ scanner'[s].pc # "reading"
        /\ scanner'[s].start = scanner[s].start
        /\ scanner'[s].steady = scanner[s].steady
        /\ scanner'[s].todo = scanner[s].todo
    BY <1>0, <1>3 DEF ScannerState
  <2>2. scanner'[s].failed = scanner[s].failed
    BY <1>0, <1>3 DEF ScannerState
  <2>3. scanner'[s].failed \/ ~scanner[s].failed
    BY <2>2
  <2>4. scanner[s].pc \in Underway \ {"reading"}
    BY <1>3 DEF Underway
  <2>5. scanner'[s].pc = "marking" => ~scanner'[s].failed /\ scanner'[s].todo = {}
    BY <1>0, <1>3, <2>1, <2>2 DEF ScannerState
  <2>6. QED
    BY <1>1, <1>3, <2>1, <2>3, <2>4, <2>5, SteadyGoesOn
<1>4. ASSUME NEW f \in Files, MissFile(s, f)
      PROVE  SteadyKept(s)'
  <2>1. PICK failed \in {scanner[s].failed, TRUE} :
          scanner' = [scanner EXCEPT ![s] =
                        [@ EXCEPT !.todo = scanner[s].todo \ {f}, !.failed = failed]]
    BY <1>4 DEF MissFile
  <2>2. scanner'[s] = [scanner[s] EXCEPT !.todo = scanner[s].todo \ {f}, !.failed = failed]
    BY <1>0, <2>1
  <2>3. /\ scanner'[s].pc = scanner[s].pc
        /\ scanner'[s].start = scanner[s].start
        /\ scanner'[s].steady = scanner[s].steady
        /\ scanner'[s].todo = scanner[s].todo \ {f}
    BY <1>0, <2>2 DEF ScannerState
  <2>4. scanner'[s].failed = failed
    BY <1>0, <2>2 DEF ScannerState
  <2>5. scanner'[s].failed \/ ~scanner[s].failed
    BY <2>1, <2>4
  <2>6. scanner[s].pc = "walking" /\ disk[f] = NoContent /\ row' = row
    BY <1>4 DEF MissFile
  <2>7. /\ scanner[s].pc \in Underway \ {"reading"}
        /\ scanner'[s].pc \notin {"reading", "marking"}
    BY <2>3, <2>6 DEF Underway
  <2>8. \A g \in scanner[s].todo : disk[g] # NoContent => g \in scanner'[s].todo
    BY <2>3, <2>6
  <2>9. QED
    BY <1>1, <2>3, <2>5, <2>6, <2>7, <2>8, SteadyGoesOn
<1>5. CASE SkipDirectory(s)
  <2>1. PICK hidden \in SUBSET scanner[s].todo, transient \in {scanner[s].transient, TRUE} :
          scanner' = [scanner EXCEPT ![s] =
            [@ EXCEPT !.todo = scanner[s].todo \ hidden, !.failed = TRUE,
                      !.transient = transient]]
    BY <1>5 DEF SkipDirectory
  <2>2. scanner'[s] = [scanner[s] EXCEPT
          !.todo = scanner[s].todo \ hidden, !.failed = TRUE, !.transient = transient]
    BY <1>0, <2>1
  <2>3. /\ scanner'[s].pc = scanner[s].pc
        /\ scanner'[s].start = scanner[s].start
        /\ scanner'[s].steady = scanner[s].steady
        /\ scanner'[s].failed
    BY <1>0, <2>2 DEF ScannerState
  <2>4. scanner[s].pc = "walking" /\ row' = row
    BY <1>5 DEF SkipDirectory
  <2>5. /\ scanner[s].pc \in Underway \ {"reading"}
        /\ scanner'[s].pc \notin {"reading", "marking"}
    BY <2>3, <2>4 DEF Underway
  <2>6. QED
    BY <1>1, <2>3, <2>4, <2>5, SteadyGoesOn
<1>6. CASE \/ Probe(s) \/ WalkBreaks(s) \/ CheckCancellation(s) \/ EndWalk(s)
           \/ MarkMissing(s) \/ MarkFails(s)
  BY <1>0, <1>2, <1>3, <1>6 DEF Probe, WalkBreaks, CheckCancellation, EndWalk,
     MarkMissing, MarkFails
<1>7. QED
  BY <1>4, <1>5, <1>6

\* A worker that writes alone keeps its account of the steady files.
LEMMA SteadyStep ==
    ASSUME TypeOK, WritesAlone, SteadyFilesSeen, [Next]_vars
    PROVE  SteadyFilesSeen'
<1>1. SUFFICES ASSUME NEW s \in Scanners
               PROVE  SteadyKept(s)'
  BY DEF SteadyFilesSeen, SteadyKept
<1>2. SteadyKept(s) /\ scanner \in [Scanners -> ScannerState]
  BY DEF SteadyFilesSeen, SteadyKept, TypeOK
<1>3. CASE UNCHANGED <<scanner, row, disk, clock>>
  BY <1>2, <1>3 DEF SteadyKept, HandIsFresh, SteadySeen
<1>4. ASSUME Pass(s)
      PROVE  SteadyKept(s)'
  <2>1. CASE Finish(s)
    <3>1. scanner'[s] = Idle /\ disk' = disk
      BY <1>2, <2>1 DEF Finish
    <3>2. QED
      BY <1>2, <3>1, SteadyEnds
  <2>2. QED
    BY <1>2, <1>4, <2>1, SteadyBegins, SteadyVisits, SteadyRefreshed, SteadyImported,
       SteadyWalks DEF Pass
<1>5. ASSUME Trouble(s) \/ Recover(s)
      PROVE  SteadyKept(s)'
  <2>1. CASE FinishFails(s) \/ Crash(s) \/ Recover(s)
    <3>1. scanner'[s] \in {Idle, Down} /\ disk' = disk
      BY <1>2, <2>1 DEF FinishFails, Crash, Recover
    <3>2. QED
      BY <1>2, <3>1, SteadyEnds
  <2>2. CASE RenewLease(s)
    <3>1. CASE scanner' = scanner
      BY <1>3, <2>2, <3>1 DEF RenewLease
    <3>2. CASE scanner' # scanner
      <4>1. scanner'[s] = Idle /\ disk' = disk
        BY <1>2, <2>2, <3>2 DEF RenewLease
      <4>2. QED
        BY <1>2, <4>1, SteadyEnds
    <3>3. QED
      BY <3>1, <3>2
  <2>3. QED
    BY <1>2, <1>5, <2>1, <2>2, SteadyLost, SteadyWalks DEF Trouble
<1>6. CASE \/ UNCHANGED vars
           \/ \E j \in Scans : StartScan(j) \/ LeaseExpires(j) \/ BecomesDue(j)
           \/ \E a \in Admins : Cancel(a)
  BY <1>3, <1>6 DEF vars, StartScan, LeaseExpires, BecomesDue, Cancel, CancelRead,
     CancelWaiting, CancelRunning
<1>7. ASSUME NEW g \in Files, NEW c \in Contents \cup {NoContent}, ChangeFile(g, c)
      PROVE  SteadyKept(s)'
  BY <1>2, <1>7, SteadyChanges
<1>8. QED
  BY <1>4, <1>5, <1>6, <1>7 DEF Next, WritesAlone

\* The account of the steady files is inductive for a worker that writes alone.
THEOREM SteadySeenHolds ==
    ASSUME WritesAlone
    PROVE  Spec => []SteadyFilesSeen
<1>1. Init => SteadyFilesSeen
  <2>1. ASSUME Init, NEW s \in Scanners
        PROVE  scanner[s].pc = "down" /\ scanner[s].steady = {}
    BY <2>1 DEF Init, Down, Idle
  <2>2. QED
    BY <2>1 DEF SteadyFilesSeen, HandIsFresh, SteadySeen, Underway
<1>2. TypeOK /\ SteadyFilesSeen /\ [Next]_vars => SteadyFilesSeen'
  BY SteadyStep
<1>3. QED
  BY <1>1, <1>2, TypeCorrect, PTL DEF Spec

\* With one worker and no playback request, a pass marks vanished files only: a
\* fit file that was there all the time, whatever failed, crashed or was
\* cancelled and tried again before, is not marked missing.
THEOREM PresentKept ==
    ASSUME WritesAlone
    PROVE  Spec => PresentFilesKept
<1>1. ASSUME ScanInv, SteadyFilesSeen, [Next]_vars, NEW s \in Scanners, MarksDone(s),
             NEW f \in scanner[s].steady, row'[f].avail = "missing"
      PROVE  row[f].avail = "missing"
  <2>1. MarkMissing(s)
    BY <1>1, MarkSteps DEF ScanInv
  <2>2. scanner[s] \in ScannerState /\ row \in [Files -> FileRow]
    BY <1>1 DEF ScanInv, TypeOK
  <2>3. f \in Files /\ row[f] \in FileRow
    BY <1>1, <2>2 DEF ScannerState
  <2>4. HandIsFresh(s) /\ SteadySeen(s, f)
    BY <1>1 DEF SteadyFilesSeen
  <2>5. scanner[s].start <= row[f].seen \/ row[f].avail = "none"
    BY <1>1, <2>4 DEF MarksDone, HandIsFresh, SteadySeen, Underway
  <2>6. scanner[s].start \in Nat /\ row[f].seen \in Nat
    BY <2>2, <2>3 DEF ScannerState, FileRow
  <2>7. row'[f] = row[f]
    BY <2>1, <2>3, <2>5, <2>6 DEF MarkMissing
  <2>8. QED
    BY <1>1, <2>7
<1>2. ScanInv /\ SteadyFilesSeen /\ [Next]_vars =>
        [\A s \in Scanners : MarksDone(s) =>
            \A f \in scanner[s].steady :
                row'[f].avail = "missing" => row[f].avail = "missing"]_vars
  BY <1>1
<1>3. QED
  BY <1>2, ScanInvHolds, SteadySeenHolds, PTL DEF Spec, PresentFilesKept
=============================================================================
