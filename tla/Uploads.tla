------------------------------- MODULE Uploads -------------------------------
(***************************************************************************)
(* The files of one track and its rows, under requests that upload audio   *)
(* and cover, change its metadata or delete it, with failing calls and a   *)
(* process that stops.                                                     *)
(*                                                                         *)
(* An upload is staged in temporary files, moved into place over a backup, *)
(* recorded in the database, and only then are backup and previous file    *)
(* removed.  Each call to the file system or the database is a step.       *)
(***************************************************************************)
EXTENDS Naturals

CONSTANTS
    Exts,     \* extensions of audio files
    Fold,     \* the extension under which the file system knows each one
    Contents, \* of files
    NoFile,
    Requests,
    Ops,      \* the requests of this instance: "stage", "update", "delete"
    MaxRequests, MaxFaults, MaxCrashes \* bounds of the model

ASSUME UploadConstants ==
    /\ Fold \in [Exts -> Exts]
    /\ NoFile \notin Contents
    /\ MaxRequests \in Nat /\ MaxFaults \in Nat /\ MaxCrashes \in Nat

VARIABLES
    disk,  \* content of each path; temporary files and backups belong to requests
    trash, \* contents of temporary files and backups of a stopped process
    row,   \* the track
    media, \* its rows of media_files: the hash for each path
    req, served, faults, crashes

uploadVars == <<disk, trash, row, media, req, served, faults, crashes>>
tallies == <<trash, served, crashes>>

Audio(e) == <<"audio", e>>
Cover == <<"cover", "x">>
Library == <<"library", "x">> \* a file of an administrator's directory
NoPath == <<"none", "x">>
\* Where the file system keeps a path.
OnDisk(p) == IF p[1] = "audio" THEN Audio(Fold[p[2]]) ELSE p
Tmp(r, k) == <<"tmp", r, k>>
Backup(r, k) == <<"backup", r, k>>

FileKinds == {"audio", "cover"}
Of(k) == IF k = "audio" THEN {Audio(e) : e \in Exts} ELSE {Cover}
Managed == Of("audio") \cup Of("cover")
Temporary == {Tmp(r, k) : r \in Requests, k \in FileKinds}
             \cup {Backup(r, k) : r \in Requests, k \in FileKinds}

\* Audio is staged, applied and committed before the cover.
FirstKind(ks) == IF "audio" \in ks THEN "audio" ELSE "cover"
LastKind(ks) == IF "cover" \in ks THEN "cover" ELSE "audio"

NoRow == [path |-> NoPath, hash |-> NoFile, img |-> NoPath]
NameOf(x, k) == IF k = "audio" THEN x.path ELSE x.img

\* read: the row as it was read; copy: as it will be saved.  The files that are
\* to be worked on, that are staged, that are in place, that have a backup.
Idle == [pc |-> "idle", read |-> NoRow, copy |-> NoRow, todo |-> {},
         staged |-> {}, applied |-> {}, backed |-> {}]

Becomes(r, new) == req' = [req EXCEPT ![r] = new]
\* Renames one path to another, and removes paths.
Moved(from, to) == [disk EXCEPT ![to] = disk[from], ![from] = NoFile]
Without(d, ps) == [p \in DOMAIN d |-> IF p \in ps THEN NoFile ELSE d[p]]

CallFails == faults < MaxFaults /\ faults' = faults + 1
CallWorks == UNCHANGED faults

-----------------------------------------------------------------------------
(* A request reads the track and is checked; then it uploads, or saves or  *)
(* deletes the row.                                                        *)

Begin(r, pc, kinds) ==
    /\ req[r].pc = "idle" /\ row # NoRow /\ pc \in Ops
    /\ served < MaxRequests /\ served' = served + 1
    /\ Becomes(r, [Idle EXCEPT !.pc = pc, !.read = row, !.copy = row, !.todo = kinds])
    /\ UNCHANGED <<disk, trash, row, media, faults, crashes>>

BeginUpload(r) == \E kinds \in (SUBSET FileKinds) \ {{}} : Begin(r, "stage", kinds)

\* The path a file of the request goes to.
Final(r, k) == OnDisk(NameOf(req[r].copy, k))

\* The row with another file.
Naming(x, k, p, c) ==
    IF k = "audio" THEN [x EXCEPT !.path = p, !.hash = c] ELSE [x EXCEPT !.img = p]

\* saveUploadedMediaFile: the temporary file, and the path and hash to record.
Stage(r) ==
    LET t == req[r]  k == FirstKind(t.todo)  all == t.staged \cup {k} IN
    /\ t.pc = "stage"
    /\ \/ /\ CallWorks
          /\ \E c \in Contents, p \in Of(k) :
               /\ disk' = [disk EXCEPT ![Tmp(r, k)] = c]
               /\ Becomes(r, [t EXCEPT
                    !.staged = all, !.copy = Naming(@, k, p, c),
                    !.todo = IF t.todo = {k} THEN all ELSE @ \ {k},
                    !.pc = IF t.todo = {k} THEN "backup" ELSE "stage"])
       \/ /\ CallFails
          /\ disk' = Without(disk, {Tmp(r, q) : q \in FileKinds})
          /\ Becomes(r, Idle)
    /\ UNCHANGED <<row, media, tallies>>

RollsBack(r, t) == Becomes(r, [t EXCEPT !.pc = "rollback", !.todo = t.staged])

\* apply, first part: what is in place becomes the backup.
BackupExisting(r) ==
    LET t == req[r]  k == FirstKind(t.todo)  f == Final(r, k) IN
    /\ t.pc = "backup"
    /\ \/ /\ CallWorks /\ disk[f] # NoFile
          /\ disk' = Moved(f, Backup(r, k))
          /\ Becomes(r, [t EXCEPT !.pc = "place", !.backed = @ \cup {k}])
       \/ /\ CallWorks /\ disk[f] = NoFile
          /\ Becomes(r, [t EXCEPT !.pc = "place"]) /\ UNCHANGED disk
       \/ CallFails /\ RollsBack(r, t) /\ UNCHANGED disk
    /\ UNCHANGED <<row, media, tallies>>

\* apply, second part; when it fails the backup is restored at once.
Place(r) ==
    LET t == req[r]  k == FirstKind(t.todo)  f == Final(r, k) IN
    /\ t.pc = "place"
    /\ \/ /\ CallWorks /\ disk[Tmp(r, k)] # NoFile
          /\ disk' = Moved(Tmp(r, k), f)
          /\ Becomes(r, [t EXCEPT !.applied = @ \cup {k}, !.todo = @ \ {k},
                      !.pc = IF t.todo = {k} THEN "persist" ELSE "backup"])
       \/ /\ IF disk[Tmp(r, k)] = NoFile THEN CallWorks ELSE CallFails
          /\ disk' = IF k \in t.backed /\ disk[Backup(r, k)] # NoFile
                     THEN Moved(Backup(r, k), f) ELSE disk
          /\ RollsBack(r, [t EXCEPT !.backed = @ \ {k}])
    /\ UNCHANGED <<row, media, tallies>>

HasAudio(t) == "audio" \in t.staged

\* Mutation: the rows of the source with another extension stay.
PersistsBeside(r) ==
    LET t == req[r] IN
    /\ t.pc = "persist"
    /\ CallWorks /\ row' = t.copy
    /\ media' = IF HasAudio(t) THEN [media EXCEPT ![t.copy.path] = t.copy.hash] ELSE media
    /\ Becomes(r, [t EXCEPT !.pc = "commit", !.todo = t.staged])
    /\ UNCHANGED <<disk, tallies>>

\* PersistManagedMusicSource or Update saves all of the row as it was read,
\* and inserts it if it is gone; a failure rolls the files back.
Persist(r) ==
    LET t == req[r] IN
    /\ t.pc = "persist"
    /\ \/ /\ CallWorks /\ (HasAudio(t) => disk[OnDisk(t.copy.path)] # NoFile)
          /\ row' = t.copy
          /\ media' = IF HasAudio(t)
                      THEN [p \in DOMAIN media |-> IF p = t.copy.path THEN t.copy.hash ELSE NoFile]
                      ELSE media
          /\ Becomes(r, [t EXCEPT !.pc = "commit", !.todo = t.staged])
       \/ /\ IF HasAudio(t) /\ disk[OnDisk(t.copy.path)] = NoFile THEN CallWorks ELSE CallFails
          /\ RollsBack(r, t) /\ UNCHANGED <<row, media>>
    /\ UNCHANGED <<disk, tallies>>

\* The request is done with one of its files.
Finishes(r, k) ==
    Becomes(r, IF req[r].todo = {k} THEN Idle ELSE [req[r] EXCEPT !.todo = @ \ {k}])

\* commit of one file: the backup goes, and a managed previous file elsewhere.
Commit(r) ==
    LET t == req[r]  k == FirstKind(t.todo)  old == NameOf(t.read, k)
        previous == IF old \in Managed /\ old # NameOf(t.copy, k) THEN {OnDisk(old)} ELSE {}
    IN
    /\ t.pc = "commit"
    /\ disk' = Without(disk, {Backup(r, k)} \cup previous)
    /\ Finishes(r, k)
    /\ UNCHANGED <<row, media, faults, tallies>>

\* rollback of one file.
Rollback(r) ==
    LET t == req[r]  k == LastKind(t.todo)  f == Final(r, k)
        removed == Without(disk, {Tmp(r, k)} \cup IF k \in t.applied THEN {f} ELSE {})
    IN
    /\ t.pc = "rollback"
    /\ disk' = IF k \in t.backed /\ disk[Backup(r, k)] # NoFile
               THEN [removed EXCEPT ![f] = disk[Backup(r, k)], ![Backup(r, k)] = NoFile]
               ELSE removed
    /\ Finishes(r, k)
    /\ UNCHANGED <<row, media, faults, tallies>>

-----------------------------------------------------------------------------
(* Update of the metadata, and Delete.                                     *)

SaveMetadata(r) ==
    /\ req[r].pc = "update"
    /\ row' = req[r].copy
    /\ Becomes(r, Idle)
    /\ UNCHANGED <<disk, media, faults, tallies>>

DeleteRow(r) ==
    /\ req[r].pc = "delete"
    /\ IF row = NoRow THEN Becomes(r, Idle) ELSE Becomes(r, [req[r] EXCEPT !.pc = "clean"])
    /\ row' = NoRow /\ media' = Without(media, DOMAIN media)
    /\ UNCHANGED <<disk, faults, tallies>>

\* cleanupMusicUploadDirectoryAt: everything in the directory of the track.
CleanDirectory(r) ==
    /\ req[r].pc = "clean"
    /\ disk' = Without(disk, Managed \cup Temporary)
    /\ Becomes(r, Idle)
    /\ UNCHANGED <<row, media, faults, tallies>>

\* The process stops; nothing looks for temporary files when it starts again.
Crash ==
    /\ crashes < MaxCrashes /\ crashes' = crashes + 1
    /\ \E r \in Requests : req[r] # Idle
    /\ trash' = trash \cup ({disk[p] : p \in Temporary} \ {NoFile})
    /\ disk' = Without(disk, Temporary)
    /\ req' = [r \in Requests |-> Idle]
    /\ UNCHANGED <<row, media, served, faults>>

-----------------------------------------------------------------------------
UploadInit ==
    \E c \in Contents, p \in {Library} \cup Of("audio"), i \in {NoPath, Cover} :
      /\ row = [path |-> p, hash |-> c, img |-> i]
      /\ disk = [q \in Managed \cup Temporary \cup {Library} |->
                   IF q \in {OnDisk(p), i, Library} THEN c ELSE NoFile]
      /\ media = [q \in Of("audio") |-> IF q = p THEN c ELSE NoFile]
      /\ trash = {} /\ req = [r \in Requests |-> Idle]
      /\ served = 0 /\ faults = 0 /\ crashes = 0

UploadNext ==
    \/ \E r \in Requests :
         \/ BeginUpload(r) \/ Begin(r, "update", {}) \/ Begin(r, "delete", {})
         \/ Stage(r) \/ BackupExisting(r) \/ Place(r) \/ Persist(r) \/ Commit(r)
         \/ Rollback(r) \/ SaveMetadata(r) \/ DeleteRow(r) \/ CleanDirectory(r)
    \/ Crash

UploadSpec == UploadInit /\ [][UploadNext]_uploadVars

-----------------------------------------------------------------------------
Held == Contents \cup {NoFile}

Row == [path : Of("audio") \cup {Library, NoPath}, hash : Held, img : {Cover, NoPath}]

Request ==
    [pc : {"idle", "stage", "backup", "place", "persist", "commit", "rollback",
           "update", "delete", "clean"},
     read : Row, copy : Row, todo : SUBSET FileKinds, staged : SUBSET FileKinds,
     applied : SUBSET FileKinds, backed : SUBSET FileKinds]

\* Every variable has its type.
UploadTypes ==
    /\ disk \in [Managed \cup Temporary \cup {Library} -> Held]
    /\ trash \subseteq Contents
    /\ row \in Row
    /\ media \in [Of("audio") -> Held]
    /\ req \in [Requests -> Request]
    /\ served \in 0..MaxRequests /\ faults \in 0..MaxFaults /\ crashes \in 0..MaxCrashes

\* After requests that succeeded or failed, the files of the directory are
\* those that the rows name, with the hash they name, and the administrator's
\* file is there (UploadFiles, Delete; TestUploadFilesRestoresExistingFiles...).
FilesMatchRow ==
    (crashes = 0 /\ \A r \in Requests : req[r] = Idle) =>
       /\ \A p \in Managed \cup Temporary : disk[p] # NoFile <=> p \in {OnDisk(row.path), row.img}
       /\ row.path \in Managed => disk[OnDisk(row.path)] = row.hash
       /\ \A p \in Of("audio") : media[p] = IF p = row.path THEN row.hash ELSE NoFile
       /\ disk[Library] # NoFile

\* The audio that the row names by its hash is on the disk, in place or in a
\* backup, at whatever call a request fails or the process stops.
AudioSurvives ==
    row # NoRow => row.hash \in trash \cup {disk[p] : p \in DOMAIN disk}

\* What the requests on one track promise, one at a time.
FilesKept == UploadTypes /\ AudioSurvives /\ FilesMatchRow

-----------------------------------------------------------------------------
(* Why they keep it: one request at a time, on a file system that tells    *)
(* extensions apart.                                                       *)

OneAtATime == \E r : Requests = {r}
CaseSensitive == \A e \in Exts : Fold[e] = e

Saving == {"stage", "backup", "place", "persist", "rollback"}

\* Which files a request still has to work on: none once it has begun, those
\* that are staged, those in a backup.
Progress(t) ==
    /\ t.pc \in {"stage", "backup", "place", "commit", "rollback"} => t.todo # {}
    /\ t.pc \in {"idle", "update", "delete", "clean"} => t.staged = {}
    /\ t.pc = "stage" => t.todo \cap t.staged = {} /\ t.applied = {} /\ t.backed = {}
    /\ t.pc \in {"backup", "place", "commit", "rollback"} => t.todo \subseteq t.staged
    /\ t.pc \in {"backup", "place"} => t.applied = t.staged \ t.todo
    /\ t.pc = "backup" => t.backed \subseteq t.applied
    /\ t.pc = "place" => t.backed \subseteq t.applied \cup {FirstKind(t.todo)}
    /\ t.pc = "persist" => t.staged # {} /\ t.applied = t.staged

\* The row is the one that was read until it is saved, and names what has not
\* been staged as before.
CopyHolds(t) ==
    /\ t.pc \in Saving \cup {"update"} => row = t.read
    /\ t.pc \in Saving \cup {"update", "commit"} =>
        /\ \A k \in t.staged : NameOf(t.copy, k) \in Of(k)
        /\ \A k \in FileKinds \ t.staged : NameOf(t.copy, k) = NameOf(t.read, k)
        /\ "audio" \notin t.staged => t.copy.hash = t.read.hash
        /\ t.copy.path # NoPath /\ t.copy.hash # NoFile
    /\ t.pc = "commit" => row = t.copy
    /\ t.pc = "clean" => row = NoRow

\* Has the request staged a file of this kind, and not given it up?
Live(t, k) == k \in t.staged /\ (t.pc = "rollback" => k \in t.todo)

\* The new audio is where the next call expects it; the path of a file that is
\* placed next is free.
NewFiles(r) ==
    LET t == req[r] IN
    /\ t.pc \in Saving \ {"rollback"} /\ "audio" \in t.staged =>
        IF "audio" \in t.applied THEN disk[t.copy.path] = t.copy.hash
        ELSE disk[Tmp(r, "audio")] = t.copy.hash
    /\ t.pc = "place" => disk[NameOf(t.copy, FirstKind(t.todo))] = NoFile

\* The audio of the row: lost in a crash, in the backup, or in its place.
AudioAt(r) ==
    LET t == req[r]
        overwrites == t.pc \in Saving /\ Live(t, "audio") /\ t.copy.path = row.path IN
    row # NoRow =>
      \/ row.hash \in trash
      \/ overwrites /\ "audio" \in t.backed /\ disk[Backup(r, "audio")] = row.hash
      \/ ~(overwrites /\ "audio" \in t.applied \cup t.backed) /\ disk[row.path] = row.hash

\* Which files of a kind there are, if the process has not stopped: those that
\* the row names, but for the ones a request has under way.
FilesOfKind(r, k) ==
    LET t == req[r]  new == NameOf(t.copy, k)  home == NameOf(row, k) IN
    /\ t.pc \notin {"commit", "clean"} =>
        /\ disk[Tmp(r, k)] # NoFile <=> (Live(t, k) /\ k \notin t.applied)
        /\ disk[Backup(r, k)] # NoFile <=> (Live(t, k) /\ k \in t.backed)
        /\ \A p \in Of(k) :
             disk[p] # NoFile <=> (IF Live(t, k) /\ p = new /\ k \in t.applied \cup t.backed
                                 THEN k \in t.applied ELSE p = home)
        /\ Live(t, k) /\ k \in t.backed => new = home
        /\ Live(t, k) /\ k \in t.applied \ t.backed => new # home
    /\ t.pc = "commit" =>
        /\ disk[Tmp(r, k)] = NoFile
        /\ disk[Backup(r, k)] # NoFile => k \in t.todo
        /\ \A p \in Of(k) :
             /\ p = home => disk[p] # NoFile
             /\ disk[p] # NoFile => p = home \/ (k \in t.todo /\ p = NameOf(t.read, k))

\* The rows of media_files are those of the track.
MediaOfRow ==
    \A p \in Of("audio") : media[p] = IF p = row.path THEN row.hash ELSE NoFile

UploadInv ==
    /\ UploadTypes
    /\ row = NoRow <=> row.path = NoPath
    /\ row # NoRow => row.hash # NoFile
    /\ MediaOfRow
    /\ disk[Library] # NoFile
    /\ crashes = 0 => trash = {}
    /\ \A r \in Requests :
        /\ req[r].pc = "idle" => req[r] = Idle
        /\ Progress(req[r])
        /\ CopyHolds(req[r])
        /\ NewFiles(r)
        /\ AudioAt(r)
        /\ crashes = 0 => \A k \in FileKinds : FilesOfKind(r, k)
=============================================================================
