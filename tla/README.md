# A verification project for music-online

TLA+ models of the Go backend and of the web client of this repository, TLC
runs that check them on small instances, and TLAPS proofs of the properties
that matter most for every instance. Paths are relative to the root of the
repository; `AR` is `internal/repository/music_analysis_repository.go`, `AS` is
`internal/service/music_analysis_service.go`; `RR`, `SS` and `SV` are
`internal/repository/media_library_repository.go`,
`internal/service/media_library_scanner.go` and
`internal/service/media_library_service.go`; `US` is
`internal/service/user_service.go`.

## The system

The backend is one or more processes over one SQL database (SQLite with a
single connection by default, PostgreSQL with several processes optionally)
and a directory of media files. Everything durable is a row or a file; a
component acts through repository methods, most of which are one SQL
statement. Whatever a caller keeps between two statements is a copy that may be
stale. The web client keeps a token, a queue and an audio element in each tab.

| component | state it keeps | operations | what is hard | what makes it correct |
|---|---|---|---|---|
| Music analysis queue | rows of `music_analysis_jobs`; a local copy per worker | enqueue (plain, forced), claim, heartbeat, complete, recover, cancel, supersede, delete | leases that expire under a live worker, cancellation races, statements without a transaction, crashes, retries | one attempt at a time settles a job; a cancellation sticks; no job is lost or retried for ever; the limit is overrun only by what does not look at it |
| Media library scanner | rows of scan jobs and files | create, claim, heartbeat, scan files, finish, cancel, recover | lease loss in the middle of a scan, statements that are not guarded by the lease | no present file is marked missing; one active scan per root |
| Media library roots and health | rows of roots and of their health | create, change, delete, probe | a mutex of one process, probes that end late, storage that comes and goes | roots do not overlap; health is that of the newest check |
| Analysis content and classification | contents (file hash), jobs by key, artifacts, classifications | upload, schedule, back-fill, store, apply, delete | an analysis that ends after the content changed, keys that come back | audio evidence is of the content the track has |
| Preset classification | genres, labels, features, manual choice | classify by rules, by audio, by hand | sources that add up, rounding, thresholds | a conflict is reviewed and not decided |
| Sessions | sessions with a refresh hash, cookies | login, refresh, logout, change of password, disabling, deletion | two tabs refresh at once, revocation between two statements | a revoked session never refreshes; a benign race does not revoke |
| User accounts | rows of users | change of role, state, profile, second factor; deletion, bootstrap | checks and writes in separate statements, saves of whole rows | an administrator remains; the second factor was confirmed |
| Music files and rows | rows of tracks, files on disk | stage, apply, save, commit, roll back, delete | failures and crashes between file and row | row and files agree |
| Track metadata | metadata, its revision | normalize, update, complete, suggest | lists and scalars derived from each other | what is stored is normal and accepted again |
| Playlists and likes | items with a position, likes | add, remove, reorder; deletion of tracks and users | overlapping transactions | positions 1..n, order kept |
| Browse and library views | rows of credits, albums, genre facets | save, delete; artist, album and filter queries | rows derived from metadata, several queries | views agree with the tracks |
| Schema migrations | history of versions, old rows | load, apply, serve | several processes and binaries start at once, failures | changes once, in order; rows keep their meaning |
| Web client | access token, one refresh at a time; player | requests and replays, the guard; play, next, reload | late 401 answers, several tabs, answers awaited while the user goes on | a live session is kept; what is heard is what is shown |
| HTTP analyzer client, metadata readers, HTTP surface, configuration and tools | - | - | - | not modelled, see below |

How they interact: an upload (`internal/service/music_upload.go`) saves a track
and calls `ScheduleContentAnalysis`, which marks the superseded audio jobs and
enqueues a new one; workers run jobs and write artifacts and classifications;
saving a track replaces its browse rows; deleting it deletes its jobs,
artifacts, playlist items and browse rows in one transaction; the scanner
creates and updates tracks under the roots; disabling or deleting a user
revokes the sessions; the web client refreshes against them and plays what the
library offers.

## Modules

| component | module | what it is |
|---|---|---|
| queue | `AnalysisQueue` | the queue, statement by statement |
| | `AnalysisJob` | what the queue promises the one who submits a job |
| | `AnalysisQueueProofs` | the inductive invariant; fencing tokens, action properties, how far the limit is overrun, the refinement |
| | `EnqueueTransaction` | the statements of `Enqueue` in concurrent transactions |
| scanner | `MediaScan` | scans of one media root, the rows of its files, playback requests |
| | `MediaScanProofs` | the two inductive invariants of the scanner and what follows from them |
| roots | `MediaRoots`, `MediaProbe` | administration and health of roots; one probe |
| | `StorageProofs` | roots and health for any processes, scans and probers; the probe |
| content | `AnalysisContent` | contents, jobs, artifacts and classifications |
| | `AnalysisProofs` | the inductive invariant of the content; the race and the limit of `EnqueueTransaction` |
| presets | `PresetClassification` | scores and decision |
| sessions | `Sessions` | sessions and cookies |
| | `SessionsProofs` | who holds which token, and how long after an exchange; the one tab of `WebRefresh` |
| accounts | `Accounts` | rows of users |
| | `AccountsProofs` | administrators and second factors one request at a time; saves of whole rows with any number at once |
| files | `Uploads` | files and rows of a track |
| | `UploadsProofs` | where the audio of a row is and which files there are, call by call |
| metadata | `TrackMetadata` | normal form, updates, completion |
| playlists | `Playlists` | playlists and likes |
| browse | `Browse` | derived rows and the queries over them |
| migrations | `Migrations`, `MigrationsProofs` | the history and its invariant |
| | `LegacyUpgrade` | what versions 2, 3 and 5 do to old rows |
| web client | `WebRefresh`, `WebPlayer` | refreshes; the player |

`MCAnalysisQueue`, `MCMediaScan` and `MCSessions` are the instances of one
module. `MCUsers`, `MCRecords`, `MCSettles` and `MCAnalysis` check several that
share no state: a variable `part` says of which one a behaviour is, and the
variables of the others stay as they are. The modules with theorems are
extended, so that a run checks the very definition that a theorem names:
`MCUsers` extends `Sessions`, `Accounts` and `WebRefresh`, `MCRecords`
`MediaRoots`, `MediaProbe` and `Uploads`, `MCSettles` `Migrations`, `MCAnalysis`
`AnalysisContent` and `EnqueueTransaction`. The others are instantiated with the constants of their
instances, and a property about one is an implication (`part = ... => ...`),
which means what it means of that part.

### AnalysisQueue and the code

A row of `jobs` is named by its idempotency key (a unique index). Its fields:
`id` primary key, `status`, `cancel` = `cancel_requested`, `attempt`, `owner` =
`lease_owner`, `gen` = `lease_generation`; the two times are reduced to what the
statements compare: `due` (`available_at` is null or past) and `live`
(`lease_expires_at` is in the future). A key without a row is `"absent"`.
Worker goroutines, `RequestCancellation` calls and `MarkSupersededAudio` calls
have variables of their own for what they read and have not used yet.

| actions | code |
|---|---|
| `Enqueue`, `EnqueueCounts`, `EnqueueGivesUp`, `EnqueueForced` | `Enqueue` (AR 121-200): an existing row is returned unchanged unless forced, and the forced branch resets a settled one; the count of active jobs (169-176) and the insertion (182) are one step, or, for the calls in `Enqueuers`, two |
| `ClaimNext` | AR 202-247: lowest due id, `FOR UPDATE SKIP LOCKED` on PostgreSQL (`SkipLocked`) |
| `HeartbeatUpdate`, `HeartbeatRead`, `HeartbeatError` | AR 308-330 and the goroutine of `runJob` (AS 381-411) |
| `AttemptEnds` | the precedence of outcomes in `runJob` (AS 413-434) and the status `finishAttempt` derives (AS 566-595) |
| `Complete`, `Diagnose`, `CompleteError` | AR 332-373 and AS 597-613: the guarded update, the read that tells a cancelled job from a lost lease, the second `Complete` |
| `RecoverCancelled`, `RecoverExhausted`, `RecoverRetryable`, `RecoverError` | the three statements of `RecoverExpired` (AR 404-430), run when a process starts (AS 290-314) and by the workers' loop (AS 345-350) |
| `CancelRead`, `CancelPending`, `CancelRunning` | `RequestCancellation` (AR 375-402) |
| `SupersedeRunning`, `SupersedeOthers` | `MarkSupersededAudio` (AR 432-453) |
| `DeleteMusic` | `deleteMusicAnalysisState` (AR 530-551) |
| `LeaseExpires`, `BecomesDue`, `Crash` | time and process failures |

Abstractions. What an attempt computes is a choice of outcomes
(`AttemptOutcomes`): success, stale content, a retryable or a permanent failure,
restricted by what the heartbeat reported. An orderly `Shutdown` is a crash, or
an attempt that ends as retryable first. A worker slot that restarts keeps its
name; the code draws a random owner per process, so the model lets an old lease
look like the new process' own, which the local copy (lost in the crash) and the
generation make harmless. `SupersedeRunning` takes any set of audio keys of a
track for those whose file hash is not the current one. `Enqueuers` are the
calls of other processes that PostgreSQL may let in between their count and
their insertion (`counted` is the key such a call is about to insert); with
SQLite's one connection the set is empty. The statements before and after, and
who wins a key, are those of `EnqueueTransaction`. A failing `RecoverExpired` at
start is the same as one in the loop.

`AnalysisJob` knows only a phase and a number of tries per key. The refinement
maps a running row to `"trying"` or, when flagged, to `"stopping"`, and
`attempt` to `tries`.

### MediaScan and the code

One external root. A scan is a row of `media_scan_jobs` (`scan`), with `cancel`,
`attempt`, `owner`, `gen`, and `due` and `live` for its times as in
`AnalysisQueue`. A source key has at most one row of `media_files` (`row`):
`hash` is `file_hash`, `stamp` the recorded size and modification time (which,
in the model, tell contents apart), `avail` the availability, `seen`
`last_seen_at`. `disk` is what the file holds now. Each process has one scanner,
whose record holds what `runScanJob` and `processScanFile` keep in local
variables, the copy of the file's row among them.

| actions | code |
|---|---|
| `StartScan` | `CreateScanJob` (RR 263-287) |
| `Claim`, `Probe` | `ClaimNextScanJob` (RR 289-343) and the start of `runScanJob` (SS 137-148) |
| `CheckCancellation` | the look at the flag in the callback of the walk (SS 160-171): at the first call, then once a second |
| `WalkBreaks`, `SkipDirectory`, `MissFile` | errors of the walk (SS 172-189, 223-238) and of a file's information (SS 271-277) |
| `VisitFile` | the file is looked at and its row is read (SS 190-300) |
| `RefreshFile`, `RefreshLost` | a known source: the branches of `processScanFile` up to SS 417, and their save, which may fail |
| `ImportFile` | an unknown source (SS 419-503) |
| `RenewLease` | `renewScanLease` and the flush of progress (SS 200-210, 543-549); a scanner that lost its lease stops |
| `EndWalk`, `MarkMissing`, `MarkFails` | the end of the pass (SS 239-266) and `MarkRootFilesMissingBefore` (RR 161-166) |
| `Finish`, `FinishFails` | `finishScanJob`, `retryOrFinishScan` and `UpdateScanJob` (SS 551-594, RR 373-415) |
| `Recover` | `RecoverExpiredScanJobs` (RR 461-475), when a process starts and from the worker's loop |
| `CancelRead`, `CancelWaiting`, `CancelRunning` | the statements of `RequestScanCancellation` (RR 417-445) |
| `ReadSource`, `ServeSource`, `LoseSource` | `ResolveMusicPath` (SV 317-386), which saves the row it read |
| `ChangeFile`, `LeaseExpires`, `BecomesDue`, `Crash` | the surroundings |

Abstractions. `last_seen_at` is only ever compared with the start of a pass, so
`clock` counts the claims. Looking at a file and reading its row are one step:
nothing but the row depends on which came first. Whether a file is too young,
unreadable or busy, whether it is due for hashing again, and what a probe of the
root finds, are choices. `steady`, `gone` and `flagged` are history variables
for the properties. Left out are the counters (except whether anything failed),
the issues, `observed_file_hash` and `content_revision`, covers, the scheduling
of analysis after an import, several sources of one track (a playback request
looks at one), uploads into the managed root (they are not under a scanned root),
and the deletion of tracks. The administration of roots is `MediaRoots`: here a
root that is disabled or offline is an outcome of `Probe` and `LoseSource`.

### EnqueueTransaction

A call is the chain of statements of `Enqueue` (AR 121-200): look the key up,
count, insert or find the winner's row, or lock a settled row and reset it. A
statement reads what is committed when it begins; the last one of a branch
commits, and the row or key it writes is locked until then. With `OneWriter`
the chain is one transaction at a time, which is what `AnalysisQueue` without
`Enqueuers` assumes.
Claims, completions, cancellations and deletions of the surroundings change
rows between the statements.

### MediaRoots and MediaProbe

`MediaRoots` has a mutex (`rootMu`) per server process: `call` is what the
administrator's call of that process holds between its checks and its writes
(`CreateRoot`, `UpdateRoot`, `DeleteRoot`, `StartScan`; SV 134-300, SS 59-74).
Scans are started, resolve the root, index files under the path they resolved,
and end. A probe resolves the root, notes the time, looks, and writes its
record; `Upsert` is `UpsertRootState` (RR 94-115), which keeps the record of
the newer check. A path is the sequence of its elements. The spelling of paths,
symbolic links and the mount options are left out.

`MediaProbe` is one call of `mediafs.Probe`: its looks (Lstat of the root, the
mount table, the sentinel, reading the target) are steps between which storage
comes and goes; a look may fail with any class of `classifyError`.

### Sessions and Accounts

In `Sessions` a request is a process and each database statement a step; so is
the arrival of its answer, which sets, clears or keeps the cookie that the
tabs of a browser share. A token is a session and a serial, the number of
rotations, in place of its hash. `Login`, `Refresh` (US 213-391, with
`RotateIfMatch` and the grace window), `Logout`, `LogoutAll`, `ChangePassword`,
`UpdateStatus` and `DeleteUser` are chains of statements. A request may be lost
after any of them. `Delay` bounds how long a request is in flight.

`Delay` and `Grace` meet in one assumption, `Prompt`: a request is answered
within half the grace window. It is a premise of two properties and no guard.

`Accounts` has the rows of users and, per request (`Calls`, since `Requests` are
those of `Sessions`), the copy it works on.
Changes of role and state write one column after counting administrators;
profile, password, verification and bootstrap save every column of the row
they read. `verified` is a history variable.

### Uploads, TrackMetadata, Playlists, Browse

`Uploads`: each call to the file system or the database in `UploadFiles` and
`Delete` is a step that may fail, and the process may stop between any two.
`Fold` is the identity or a file system that ignores case. Staging writes
temporary files (`Stage`), applying moves what is in the way to a backup and the
new file into its place (`BackupExisting`, `Place`), then the row is saved (`Persist`)
and backups and the previous file are removed; a failure before that undoes
what was applied (`Commit`, `Rollback`). A request keeps the row as it read it (`read`), as it will
save it (`copy`), and of which kinds of file it has something to do (`todo`), a
temporary file (`staged`), a file in place (`applied`) and a backup (`backed`).
A restored backup and the removal of a file do not fail in the model; in the
code a removal that fails is logged and leaves a file behind, and a failed
restoration is reported and leaves the audio in its backup.

`TrackMetadata`: a text is a sequence of words, so that joining a list is
concatenation and `Display` (`normalizeDisplayValues`) acts on words. `Update`
is a partial update with the normal form, `Check` and `Enrich` the completion
of a track from an upload of the same file. A request is accepted or refused as
a whole (`Accepts`); the year is looked at as the request has it, before one is
taken from the release date. White space is in the model: a word in `Loose`
has some that `Display` tidies. Titles, comments and other merely copied scalars
are one field.

`Playlists`: a request is one transaction on PostgreSQL (READ COMMITTED): a
statement sees what is committed when it starts and waits for rows that
another transaction wrote. With one request it is SQLite. Positions, revisions
and likes are as in the tables; what reads them changes nothing.

`Browse`: `Save` replaces the rows of a track (`replaceMusicBrowseProjection`)
from its metadata; artists, albums, counts, pages and filter options are the
queries over those rows. `Fold` and `Alias` are the normal forms of names and
genres; `Rank` stands for the order of keys. Text search, years and covers are
left out.

### AnalysisContent and PresetClassification

`AnalysisContent` is what the jobs of the queue are about. `Upload` gives a
track another content; a request then goes through the statements of
`ScheduleContentAnalysis` (`Find`, `EnqueueMetadata`, `MarkRunning`,
`MarkOthers`, `EnqueueAudio`), as the administrator's request and the back-fill
do. A request may stop at any of them (`GiveUp`): the queue is full, a statement
fails, the five seconds of `UploadFiles` are over or the process stops; the
upload has been committed then and goes on without its job. `lost` is a history
variable: the tracks whose upload was left so, until another upload or a request
for the track has made up for it. A worker claims a job,
reads the track, analyzes, stores the artifact (`StoreAnalysis`), writes the
classification (`Apply`, `ApplyWrite`), and settles the job; its lease may be
lost at any time. Artifacts belong to contents and are shared by tracks.
`Serial` says that transactions do not interleave (one connection). How jobs
are leased, retried and cancelled is `AnalysisQueue`'s. The run is one with
`Serial`; `ApplyWrite`, the write of a transaction that read before another one
committed, is a step of the theorems only, whose `ContentInv` TLC confirms on
the same instance with `Serial = FALSE`.

`PresetClassification` has the tables of rules of
`internal/domain/preset_classification.go`, with scores in 1/10000, the four
digits to which the code rounds: contributions of genres, labels and features
are scaled, merged (`1 - (1-a)(1-b)`), weighted and compared with the
threshold and the review margin. Products in between are rounded, too, which
changes a score by less than three units: the model may decide otherwise than
the code only that close to the threshold or the margin.
Retagging, an analysis and the manual choice are its actions.

### Migrations and LegacyUpgrade

In `Migrations` a binary is the highest version it knows. A process loads the
history once (`LoadHistory`), applies each missing version in a transaction of
its own with its record, and serves; whatever fails ends the process, and a
supervisor starts it again. `OneWriter` is SQLite. `LegacyUpgrade` is what
versions 2 (hashes), 3 (tags into tracks) and 5 (physical sources, scans) do to
the rows of about 1900 old databases; other versions add tables, columns and
indexes.

### WebRefresh and WebPlayer

`WebRefresh`: `Send`, `Accepted`, `Denied` and the refresh that the requests of
a tab share (`refreshPromise`) are `web/src/utils/request.ts`; `Guard`,
`Restored` and `RestoreFails` are the router's guard and `refreshSession`. The
server is what the client sees of it: the rotation of the cookie and its
answers, in any order. Two assumptions: a token does not expire again while the
replay of its request is on its way, and a tab that went to the login page
drops its requests. Its requests are `Fetches` and its cookie is `jar`, since
`Requests` and `cookie` are those of `Sessions`.

`WebPlayer`: the store of `web/src/store/player.ts`, the audio element with its
events, and `localStorage`. Code that awaits nothing runs to its end in one
step; what awaits a renewed URL is a flight, answered at any time. `Patient`
says that the user does nothing while a flight is open.

### Mutations

Operators whose comment begins with "Mutation:" are not part of the
specification: each is a copy of the definition that follows with one plausible
mistake, and shows that a property can fail.

## Runs

| run | instance | shows |
|---|---|---|
| `queue_one_key` | 1 key, 2 workers, 1 administrator, 2 attempts, 1 forced re-enqueue, 2 inserted rows | the inductive invariant, fencing tokens, cancellation, leases, results |
| `queue_two_keys` | 2 keys of one track (one audio), 1 worker, 1 superseding call, 1 call overtaken between count and insertion, limit 1, SKIP LOCKED, fair | how far the limit is overrun, the refinement of `AnalysisJob`, every job is settled |
| `scan_jobs` | 2 scanners, 1 administrator, 2 scans, 2 attempts, 2 incidents, no files, fair | the inductive invariant `ScanInv`, live leases, the cancellation flag, every scan is settled |
| `scan_files` | 1 scanner, 1 administrator, 1 file with 2 fit contents and 1 unfit one, 2 scans, 1 incident | a pass marks vanished files and only those; a scan flagged before its claim touches nothing |
| `scan_shared` | 2 scanners, 1 playback request, 1 file, 2 contents, 1 scan, 2 incidents | a scanner without its lease beside its successor and a reader: `FilesInv`, identity |
| `sessions_all` | 2 browsers, 2 requests of any kind, 2 sessions, no grace period, 1 lost request | an ended session stays ended, a token is exchanged once, a browser keeps the current one (with the inductive invariant `SessionsInv`) |
| `users` | 3 tabs of one browser with a grace period; 3 administrators one at a time; 1 tab of `WebRefresh` with 3 requests; a public and a private player | tabs do not end each other's session (with the inductive invariant `GraceInv`), an administrator remains, a live session is kept, what is heard is what is shown |
| `records` | uploads with a fault and a crash; playlists one at a time and two at once; metadata of one track; 3 tracks of `Browse`; old databases; 2 roots; 2 probes; one probe of any root | files and rows agree, positions and orders, stored metadata normal and accepted again, views, upgraded rows, roots and health |
| `settles` | 3 processes of 2 binaries; 2 probers; 2 tabs with 3 requests, fair | migrations are committed once and in order, the newest binary serves, health becomes true, requests end |
| `analysis` | the preset rules; 1 track with 2 contents, one that comes back, 2 tracks with one content; 3 calls of `Enqueue` | audio against the genre is reviewed unless it confirms the genre "instrumental"; evidence is current; what was uploaded is analyzed unless its request stopped early; the race for a key |
| `scan_present_missing` | 1 scanner, 1 playback request, 1 file, 2 scans | a playback request makes the pass mark a file missing that is there |
| `queue_cancel_lost` | 1 key, 1 worker, 1 administrator | a cancellation may be lost |

Bounds. In the queue `MaxForce` and `MaxJobs` bound the two counters that would
grow for ever; one forced re-enqueue and two rows of a key are enough for a
worker from before a reset, or from a deleted row, to meet the new run.
`MaxAttempts` = 2 has one retry and one exhausted attempt. Two workers are
enough for a lost lease and its successor; the theorems have no bounds.
`MaxIncidents` bounds what may go wrong in a scan and costs an attempt or
a write: crashes, leases lost alive, failed writes; two of them let a scanner
lose its lease while its successor fails as well. Two scans give a row a history
before the pass that is looked at. Files do not interact except through the scan
that walks them, so one is enough in each run; the theorems hold for any set.
Two sessions and two requests are a rotation with any other request beside it;
a third tab makes one that lost the race and one that comes late. In `Uploads`
three requests are an upload, its replacement and a deletion, each with the
fault or the crash. Playlists need three tracks for an order with a gap, and a
fourth to add. `MaxClock`, `MaxFlips`, `MaxEdits`, `MaxUploads`, `MaxExpiries`
and `MaxRequests` count what the surroundings do, and each is as large as the
longest story of its part needs: a change and a return of storage with a probe
on either side, a content that comes back, a token that expires again.
In `analysis` a request may stop early in every part; a manual choice is there
until the second change of a track's content or metadata, and no part combines
it with contents that come back or are shared, since it is a column no step but
`SetManual` writes. The preset rules take the tag sets in `AllTags`: none, the
weakest genre of several presets, two spellings of one, two that conflict,
"instrumental" alone and beside a genre that agrees or conflicts with it.
Browse has three tracks, two that share an artist and one that leaves it, and
pages of one artist. The old databases have two or three rows each, since
the migrations compare at most two candidates.

`CHECK_DEADLOCK` is on for queue and scanner, which never stop, since processes
can always crash, claim or recover. It is off in `sessions_all`, `users`,
`records`, `settles` and `analysis`, where requests, faults and expiries are
bounded and a behaviour ends when they are used up.

Fairness. `queue_two_keys`: the workers' loop comes round (strong fairness of
the claim and of each recovery statement, since a process may crash between two
of them, but is started again and does not crash for ever at the same place);
attempts end because their context has a timeout; statements return; leases
nobody renews and retry delays run out. Nothing is assumed of administrators,
of database errors (they may happen for ever) or of crashes.
`scan_jobs`: the loop of a scanner comes round and a pass goes on (weak fairness
of the steps of a pass and of recovery), a lease nobody renews runs out and a
retry delay passes. Crashes, leases lost alive and failed final writes stop at
`MaxIncidents`: recovery has no attempt limit, so a scan that kills its worker
in every pass is retried for ever, and only that premise makes `ScansSettle`
true. `settles`: a process that ended is started again (`restart:
unless-stopped`, `compose.yaml:12`) and its statements return; `healthWorker`
ticks for ever and comes to every enabled root (strong fairness of the choice
of a root, since another prober may be at it), and a probe ends; what the web
client sent is answered or fails by its timeout, and answers are handled.

## What is proved

The queue, for every set of keys, workers and callers and every limit
(`QueueConstants` in `AnalysisQueue` is the only assumption):

* `QueueInvariant`. `QueueInv` is inductive. `WaitingIsClaimable` alone is not:
  a retry is written by a worker from its local copy, so the copy must agree
  with the row (`HolderKnowsAttempt`) and the status it is about to write must
  fit it (`ResultsAreSound`); a forced re-enqueue must not leave an owner behind
  (`LeaseIsTheRun`). `RowSteps` says what any step may do to one row, and the
  later proofs start from it.
* `FencingInvariant`. A copy's primary key was handed out and its generation is
  not ahead of its row (`CopiesTrailRows`); a claim gives a generation that is
  new, so tokens are unique.
* `CancellationsStick`, `LiveLeasesRespected`, `ResultsMatchAttempts`: action
  properties, one case for each way a row changes.
* `QueueOverrunBounded`: by the cardinality of the active keys and of the calls
  that have counted. A call that inserts was counted before or found room; only
  a forced re-enqueue adds a job without either. With no `Enqueuers`, as on
  SQLite, what is left is the forced re-enqueues.
* `QueueImplementsAnalysisJob`: initial states and steps map to those of
  `AnalysisJob`, under `QueueInv`.

The scanner, for every set of files, contents, scanners, administrators and
playback requests and every limit (`ScanConstants` in `MediaScan`):

* `ScanInvHolds`. `ScanInv` is inductive. That a root has one active scan and
  that attempts are bounded needs more: a retry is written from the scanner's
  copy, so a scanner whose guard matches must hold the row's current attempt
  (`ScannersAreSound`), a lease must be exactly a run (`LeaseIsTheScan`), and,
  because recovery looks at no limit, a scan that nobody alive works on must
  have an attempt to spare, paid for by the incident that took its worker away
  (`AttemptsArePaid`). `OneScan`, `SettledFinal`, `LiveRespected`,
  `CancellationsKept` and `FlaggedTouchesNothing` follow, action by action.
* `FilesInvHolds`. `FilesInv` is inductive together with `ScanInv`. Rows are
  overwritten by stale copies, so what a row keeps must hold of every copy of
  it: its hash (`CopiesKnowRows`) and, for a file that was gone during a pass,
  a `last_seen_at` before that pass (`GoneFilesUnseen`). `IdentitiesKept` and
  `VanishedMarked` follow.
* `PresentKept`, when one scanner writes alone (`WritesAlone`: no other scanner
  and no playback request; with one it is false, see below). `SteadyFilesSeen`
  says that what the scanner has in hand is the row and the file as they are,
  and that a file which was there all the time and was visited has a
  `last_seen_at` of this pass; a crash or a failed save ends the pass before it
  marks anything.

Migrations, for any processes, binaries and number of faults
(`MigrationConstants` in `Migrations`):

* `MigrationInvHolds`. That changes are committed once (`MigrationsCommitOnce`)
  and in order, and that a process serves only what has all of its versions
  (`MigrationsInOrder`), is inductive with `AppliedRecorded`: a process skips
  only versions that it found recorded or recorded itself.

Sessions, for any browsers, requests, operations, grace window and bounds
(`SessionConstants` in `Sessions`):

* `TokensFollowRows`. `SessionsInv` is inductive. That a browser ends with the
  current token (`BrowsersKeepUp`) is a claim about answers still under way, so
  it needs where every token is: no holder is ahead of a live row
  (`TokensIssued`), a session is one browser's (`OneBrowserEach`), an answer
  that brings a token brings the newest, and everybody else has an older one
  (`NewestHeldOnce`), and a browser that is behind is about to get it
  (`AnswerUnderWay`, as long as no request is lost). `EndedNeverReturn` and
  `ExchangedOnce` follow from what a step may do to one row (`TableSteps`).
* `RacesAreForgiven`, `TabsKeepTheirSession`. `GraceInv` adds time: a request is
  in flight for at most `Delay`, and who holds an exchanged token sent it before
  the answer to the exchange arrived, so at most `Delay` after the exchange; it
  loses the race at most `Delay` later, so within `2 * Delay <= Grace`. The
  step that needs the argument is the arrival of an answer: until then the
  cookie is the old one, and nobody sends it afterwards. The first theorem
  holds beside any other operation. The second says that logins and refreshes
  alone revoke nothing.

The web client, for any number of requests (`RefreshConstants` in `WebRefresh`):

* `OneTabStaysLoggedIn`, when the browser has one tab, which restores its page
  at most once (`OneTabOpens`; with two tabs or two restorations it is false,
  see below). `RefreshInv` is inductive: as long as the session lives and no
  answer is lost, there is one refresh at most and it has the serial of the
  server (`RefreshesAreSound`, `OneRefreshEach`), so none is refused, and what
  is replayed has a token that has not expired (`ReplaysAreFresh`), so none is
  denied twice.

Files, for any extensions, contents and number of requests, faults and crashes
(`UploadConstants` in `Uploads`):

* `UploadInvInductive`, `FilesAreKept`, when requests come one at a time
  (`OneAtATime`) and the file system tells extensions apart (`CaseSensitive`);
  without either it is false, see below. That audio is never lost is a claim
  about every point at which a call may fail or the process stop, so the
  invariant says where a request can be (`Progress`), what it holds
  (`CopyHolds`), where the audio of the row is then (`AudioAt`: in its place, in
  the backup or among what a stopped process left), that the new file is the one
  the copy names (`NewFiles`), and, until a crash, which files exist at all
  (`FilesOfKind`).

Accounts, for any finite set of users:

* `AdministratorsRemain`, when requests come one at a time (`OneAtATime`: `Calls`
  has one element, as when one administrator waits for each answer).
  `AccountsKept` is inductive: while a call is under way its copy is the row
  (`CopyCurrent`), and what it counted still holds (`GuardsHold`); the step from
  the count to the write is by cardinality. With two calls it fails, see below.
* `SavesTheirOwnFields`, with any number of calls at once. A save of a profile
  or a password writes role, state and second factor back as its request read
  them (`SaveTakesBack`): if another request wrote the row in between, that is
  undone, and otherwise they stay. Which requests were `overtaken` so is a
  history variable, which the specification of the theorem adds
  (`OvertakenSpec`); `CopiesHold` says that the others hold the row as it is.

Analysis content, for any tracks, hashes, extensions, workers and requests:

* `ContentHolds`. `ContentInv` is inductive, in layers with what each one needs:
  that a succeeded job has its artifact and a worker its job, always; that
  evidence is current, with `Serial` (transactions do not interleave); that old
  content is marked, or about to be, or owed because the request stopped early
  (`OldContentMarked`, `Owed`), when requests come one at a time; and that every
  key of a job was reached by an upload (`KeysReached`) and the current one is
  scheduled or owed (`CurrentScheduled`), when the path of the managed file
  stays as well.
* `AnalysisIsOfTheContent`: with `Serial`, evidence is of the content a track
  has. With requests one at a time, and for the tracks that are not `lost`: when
  all is done no result of an old content is left, and, with one path, the
  current one was analyzed, or its analysis failed or was cancelled. Of a track
  whose request after the upload stopped early nothing is claimed but the
  evidence, until another upload or a request makes up for it.

`EnqueueTransaction`, for any keys, calls and limits: `LosersGetTheJob`, on
either database, by what a conflict leaves behind (`ConflictsLeaveRows`);
`OneWriterHoldsLimit`, the queue limit over one connection without forced calls
and for a finite set of keys, which is where the code keeps its promise.

Roots and probes, for any roots, paths, kinds, filesystems and probers:

* `RootsKeepTheirFiles`. `RootsSound` is inductive for one process: what a call
  found (`FoundHolds`: no overlap, no scan, no tracks) still holds when it
  writes, because every writer of these needs the mutex; a scan indexes under
  the path it resolved, which an active scan keeps.
* `NewerChecksStay`: for any number of processes and probers.
* `ProbeReportsWhatItSaw`: `ProbeSound` is inductive with what each look leaves
  known (`MountSeen`).

Only model-checked:

* Liveness: `JobsSettle`, `ScansSettle`, `NewestServed`, `HealthSettles`,
  `EveryRequestEnds`. Liveness under fairness is outside what the prover handles.
* `ListsSound`, `OrderKept`, `MetadataStable`, `ViewsAgree`, `RowsUpgraded`,
  `PresetsSound`: what they say is computed by sorting, by folds over tags and
  sums of rows, and what such a definition yields for every input needs
  induction over data. In `RowsUpgraded` even the part about sources depends on
  it, since the tags are folded into the rows before. Their instances are the
  data: the metadata of a track in two words, the tag sets of `AllTags`, about
  1900 old databases.
* `PlayerFollowsQueue`: the queue of the player is a sequence that the code
  filters and searches, of which the same is true.

Where a theorem has a premise on the instance (one tab, one request, one
scanner, one process), its property is false without it; the next section says
how.

## Where code and documents disagree

Two runs show it:

* `queue_cancel_lost`: the comment in `Complete` says a cancellation wins over a
  racing retry. When the retry is written between the read and the update of
  `RequestCancellation`, the update matches no row and the job is tried again.
* `scan_present_missing`, which the premise of `PresentKept` excludes: a pass is
  said to mark vanished sources. A playback request that read the row of a
  source before the scanner saw it, and saves the whole row afterwards, puts
  `last_seen_at` back; the pass then marks the source missing, and playback
  passes over it until the next scan.

The others are stated in the modules, where the comment says that the property
fails; TLC shows it when the instance is as large as given here.

* `AnalysisQueue!QueueBounded`, any instance with a forced re-enqueue; and
  `EnqueueTransaction!QueueBounded` with two keys and `OneWriter = FALSE`:
  `Readme-EN.md:355` calls `queue_limit` the limit for `pending + running` jobs;
  a forced re-enqueue does not look at it, and two transactions on PostgreSQL
  both count before either inserts.
* `MediaScan!ChangedStaysChanged`, one scanner, two contents, three scans: a
  replaced file is said to wait for an administrator
  (`internal/domain/media_library.go:102`). The pass that notices it records the
  new size and time, so the next pass takes it for unchanged and puts it online,
  with the old `file_hash`.
* `MediaRoots!NoOverlap` and `IndexedPathKept` with two `Servers`: the checks
  are serialised by a mutex of one process (SV 27-28). `HealthOfCurrentPath`
  with one prober and one edit: a probe that resolved the root before its path
  changed records the old path's health after the reset (SV 245).
* `Sessions!DisabledSessionsEnded` with two requests of `{"login", "status"}`,
  `OldPasswordSessionsEnded` with `{"login", "password"}`: a login that checked
  the row before creates its session after the revocation
  (`internal/service/user_service_admin.go:26`, US 601).
* `Accounts!AdminRemains` with two `Calls`: the administrators are counted before
  the write (`internal/handler/admin_handler.go:283`). And "the fields that may
  be changed" (US 509) are not the only ones a save of a profile writes: by
  `SavesTheirOwnFields` it undoes what others changed since it read the row.
* `Playlists!PositionsDense`, `KeepsOrder` and `LikesExist` with two `Requests`,
  one of which deletes a track: the deletion compacts positions before it locks
  the playlist (`internal/domain/playlist.go:24`), and a like has no foreign key.
* `Uploads!AudioSurvives` with two uploads of one track: they share the final
  path without a lock. `FilesMatchRow` with `Fold` of a file system that
  ignores case: replacing `audio.mp3` by `audio.MP3` removes the upload.
* `TrackMetadata!RepeatChangesLittle` names the exception to "grows only when the
  normalized metadata really changes" (`Readme.md:575`): an artist with two
  adjacent spaces gets a list that the next update tidies, which counts as a
  change. `StoredIsAccepted` names the other one: a release date before the year
  1000 gives a year that the next update refuses
  (`internal/musicmeta/metadata.go:235,253`).
* `AnalysisContent!UploadIsAnalyzed` with two extensions and three uploads, or
  with two requests: a content that comes back has the key of its first, stale
  job, and the request of an older upload marks the newer one's job stale
  (`Readme.md:392`). `EvidenceIsCurrent` with `Serial = FALSE`: an upload commits
  between the check and the upsert (`Readme.md:458`). `SharedArtifactSurvives`
  with two tracks of one content: deleting one removes an artifact that the
  other's job does not name yet (AR 528). And an upload whose scheduling fails
  has no job at all, which the code logs
  (`internal/service/music_upload.go:163-167`): that is what `lost` excludes.
* `PresetClassification!ConflictsReviewed` has an exception that the comment on
  conflicts (`internal/domain/preset_classification.go:532-534`) has not: with
  the tag instrumental beside a genre that classifies by itself, calm is scored
  three times for one observation and may win, so that the conflict is not
  reviewed.
* `Browse!AlbumArtistResolves` and `ArtistKeysAligned`: the key of several album
  artists is that of no credit (`web/src/views/library/AlbumDetail.vue:73`), and
  keys may come in another order than names (`web/src/views/music/Detail.vue:64`).
* `WebRefresh!StaysLoggedIn` with two tabs, or two tabs restored at once: the
  immediate retry sends the old cookie again (`web/src/utils/request.ts:48`), and
  the guard's refresh has no retry.
* `Migrations!OlderRefuses` with processes of two binaries: the history is read
  once, and a newer binary commits after that (`Readme-EN.md:554`).
* `WebPlayer` with `Private = TRUE`: `PlaysCurrent` and `QueueIsSound` (an answer
  that was awaited is applied to a queue that went on), `SessionLeavesNothing`
  (`Readme.md:537`), `HandedFresh` (a restored queue is attached without
  renewal); `KnowsDuration` in any library (starting the same track again).

## Plan

Queue, scanner, roots, content, presets, sessions, accounts, files, metadata,
playlists, views, migrations and the two parts of the web client are modelled.
What is left, in this order:

1. Proofs: `Playlists` for one request, with the order of a list as a function
   that a request reads instead of a sort; the sources of `LegacyUpgrade` for
   databases whose tags are merged already.
2. The numbers that the metadata readers compute from frames and boxes, as pure
   operators against a reference.
3. The lists of the web client's pages, whose answers may come out of order; the
   start and shutdown of processes with their workers.

## Not modelled

* HTTP analyzer client: one request to an external program and the validation
  of its answer; its outcomes are choices of `AttemptOutcomes`.
* Metadata readers (`internal/mediametadata`): parsing, without state.
* HTTP surface: routing, parsing, rendering, rate limits; its calls are actions
  of the models.
* Configuration and tools: code that runs once or offline; configured limits are
  constants.
* Of the scanner: several sources of one track, issues and counters. Of the web
  client: pages, forms, lists, volume and theme.
