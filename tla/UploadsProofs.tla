---------------------------- MODULE UploadsProofs ----------------------------
(***************************************************************************)
(* The files of a track are those its rows name: proofs for any contents,  *)
(* extensions, faults and crashes, for requests one at a time on a file    *)
(* system that tells extensions apart.                                     *)
(***************************************************************************)
EXTENDS Uploads, TLAPS

Paths == Managed \cup Temporary \cup {Library}

\* The paths of different files differ.
LEMMA PathsDiffer ==
    /\ \A r, k : Tmp(r, k) \notin Managed /\ Tmp(r, k) # Library
    /\ \A r, k : Backup(r, k) \notin Managed /\ Backup(r, k) # Library
    /\ \A r, k, q, j : Tmp(r, k) # Backup(q, j)
    /\ \A r, k, j : Tmp(r, k) = Tmp(r, j) => k = j
    /\ \A r, k, j : Backup(r, k) = Backup(r, j) => k = j
    /\ Library \notin Managed
    /\ NoPath \notin Paths
    /\ \A p : p \in Of("audio") => p # Cover
<1>1. \A r, k : Tmp(r, k)[1] = "tmp" /\ Tmp(r, k)[3] = k
  BY DEF Tmp
<1>2. \A r, k : Backup(r, k)[1] = "backup" /\ Backup(r, k)[3] = k
  BY DEF Backup
<1>3. \A p \in Of("audio") : p[1] = "audio"
  BY DEF Of, Audio
<1>4. Cover[1] = "cover" /\ Library[1] = "library" /\ NoPath[1] = "none"
  BY DEF Cover, Library, NoPath
<1>5. \A p \in Managed : p[1] \in {"audio", "cover"}
  BY <1>3, <1>4 DEF Managed, Of
<1>6. \A p \in Temporary : p[1] \in {"tmp", "backup"}
  BY <1>1, <1>2 DEF Temporary
<1>7. \A p \in Paths : p[1] # "none"
  BY <1>4, <1>5, <1>6 DEF Paths
<1>8. \A r, k : Tmp(r, k) \notin Managed /\ Tmp(r, k) # Library
  BY <1>1, <1>4, <1>5
<1>9. \A r, k : Backup(r, k) \notin Managed /\ Backup(r, k) # Library
  BY <1>2, <1>4, <1>5
<1>10. \A r, k, q, j : Tmp(r, k) # Backup(q, j)
  BY <1>1, <1>2
<1>11. \A r, k, j : Tmp(r, k) = Tmp(r, j) => k = j
  BY <1>1
<1>12. \A r, k, j : Backup(r, k) = Backup(r, j) => k = j
  BY <1>2
<1>13. Library \notin Managed /\ NoPath \notin Paths
  BY <1>4, <1>5, <1>7
<1>14. \A p : p \in Of("audio") => p # Cover
  BY <1>3, <1>4
<1>15. QED
  BY <1>8, <1>9, <1>10, <1>11, <1>12, <1>13, <1>14

\* Where the file system keeps a path, when it tells extensions apart.
LEMMA OnDiskSame ==
    ASSUME CaseSensitive
    PROVE  \A p \in Managed \cup {Library, NoPath} : OnDisk(p) = p
<1>1. ASSUME NEW e \in Exts
      PROVE  OnDisk(Audio(e)) = Audio(e)
  BY <1>1 DEF OnDisk, Audio, CaseSensitive
<1>2. OnDisk(Cover) = Cover /\ OnDisk(Library) = Library /\ OnDisk(NoPath) = NoPath
  BY DEF OnDisk, Cover, Library, NoPath
<1>3. QED
  BY <1>1, <1>2 DEF Managed, Of

\* A renaming and a removal, path by path.
LEMMA Renamings ==
    ASSUME UploadTypes, NEW a \in Paths, NEW b \in Paths, a # b, disk' = Moved(a, b)
    PROVE  /\ disk' \in [Paths -> Held]
           /\ disk'[b] = disk[a]
           /\ disk'[a] = NoFile
           /\ \A p \in Paths \ {a, b} : disk'[p] = disk[p]
BY DEF UploadTypes, Moved, Paths, Held

LEMMA Removals ==
    ASSUME UploadTypes, NEW ps
    PROVE  /\ Without(disk, ps) \in [Paths -> Held]
           /\ \A p \in Paths : Without(disk, ps)[p] = IF p \in ps THEN NoFile ELSE disk[p]
BY DEF UploadTypes, Without, Paths, Held

\* The paths a request works on.
LEMMA PathsOfRequest ==
    ASSUME NEW r \in Requests, NEW k \in FileKinds
    PROVE  /\ Tmp(r, k) \in Paths /\ Backup(r, k) \in Paths
           /\ Of(k) \subseteq Paths /\ Of(k) \subseteq Managed
           /\ Library \in Paths
  BY DEF Paths, Temporary, Managed, FileKinds, Of

\* The next kind is one of those there are.
LEMMA NextKinds ==
    ASSUME NEW ks \in SUBSET FileKinds, ks # {}
    PROVE  /\ FirstKind(ks) \in ks
           /\ LastKind(ks) \in ks
           /\ FirstKind(ks) \in FileKinds
           /\ LastKind(ks) \in FileKinds
  BY DEF FileKinds, FirstKind, LastKind

-----------------------------------------------------------------------------
(* Types.                                                                  *)

LEMMA Rows ==
    /\ NoRow \in Row
    /\ Idle \in Request
    /\ \A x \in Row, k \in FileKinds, c \in Contents : \A p \in Of(k) :
         /\ Naming(x, k, p, c) \in Row
         /\ NameOf(Naming(x, k, p, c), k) = p
         /\ \A j \in FileKinds \ {k} : NameOf(Naming(x, k, p, c), j) = NameOf(x, j)
         /\ Naming(x, k, p, c).hash = IF k = "audio" THEN c ELSE x.hash
    /\ \A x \in Row, y \in Row :
         x.path = y.path /\ x.img = y.img /\ x.hash = y.hash => x = y
<1>1. NoRow \in Row
  BY DEF NoRow, Row, Held
<1>2. Idle \in Request
  BY <1>1 DEF Idle, Request
<1>3. ASSUME NEW x \in Row, NEW k \in FileKinds, NEW c \in Contents, NEW p \in Of(k)
      PROVE  /\ Naming(x, k, p, c) \in Row
             /\ NameOf(Naming(x, k, p, c), k) = p
             /\ \A j \in FileKinds \ {k} : NameOf(Naming(x, k, p, c), j) = NameOf(x, j)
             /\ Naming(x, k, p, c).hash = IF k = "audio" THEN c ELSE x.hash
  <2>1. CASE k = "audio"
    <3>1. Naming(x, k, p, c) = [x EXCEPT !.path = p, !.hash = c]
      BY <2>1 DEF Naming
    <3>2. p \in Of("audio") /\ c \in Held
      BY <2>1 DEF Held
    <3>3. QED
      BY <2>1, <3>1, <3>2 DEF Row, NameOf, FileKinds
  <2>2. CASE k = "cover"
    <3>1. Naming(x, k, p, c) = [x EXCEPT !.img = p]
      BY <2>2 DEF Naming
    <3>2. p = Cover
      BY <2>2 DEF Of
    <3>3. QED
      BY <2>2, <3>1, <3>2 DEF Row, NameOf, FileKinds
  <2>3. QED
    BY <2>1, <2>2 DEF FileKinds
<1>4. \A x \in Row, y \in Row :
        x.path = y.path /\ x.img = y.img /\ x.hash = y.hash => x = y
  BY DEF Row
<1>5. QED
  BY <1>1, <1>2, <1>3, <1>4

-----------------------------------------------------------------------------
(* What each step keeps.  There is one request, r.                         *)

\* What is kept of one request.
RequestKept(r) ==
    /\ req[r].pc = "idle" => req[r] = Idle
    /\ Progress(req[r])
    /\ CopyHolds(req[r])
    /\ NewFiles(r)
    /\ AudioAt(r)
    /\ crashes = 0 => \A k \in FileKinds : FilesOfKind(r, k)

\* What is kept of the row.
RowKept ==
    /\ row = NoRow <=> row.path = NoPath
    /\ row # NoRow => row.hash # NoFile
    /\ MediaOfRow

\* The parts of the invariant.
LEMMA InvParts ==
    ASSUME NEW r, Requests = {r}
    PROVE  /\ UploadInv <=> /\ UploadTypes /\ RowKept /\ disk[Library] # NoFile
                            /\ crashes = 0 => trash = {}
                            /\ RequestKept(r)
           /\ UploadInv' <=> /\ UploadTypes' /\ RowKept' /\ disk'[Library] # NoFile
                             /\ crashes' = 0 => trash' = {}
                             /\ RequestKept(r)'
  BY DEF UploadInv, RowKept, RequestKept

\* A step of the request that leaves the disk alone.
LEMMA IdleFiles ==
    ASSUME NEW r, Requests = {r}, UploadTypes, UploadTypes',
           UNCHANGED <<disk, row, trash, crashes>>,
           RequestKept(r), req[r].pc \in {"idle", "stage", "update", "delete"}, req[r].staged = {},
           req'[r].staged = {}, req'[r].pc \in {"idle", "stage", "update", "delete"}
    PROVE  /\ AudioAt(r)'
           /\ NewFiles(r)'
           /\ (crashes = 0 => \A k \in FileKinds : FilesOfKind(r, k))'
<1>1. \A k : ~Live(req[r], k) /\ ~Live(req'[r], k)
  BY DEF Live
<1>2. AudioAt(r)'
  BY <1>1 DEF AudioAt, RequestKept
<1>3. NewFiles(r)'
  BY DEF NewFiles
<1>4. ASSUME crashes' = 0, NEW k \in FileKinds
      PROVE  FilesOfKind(r, k)'
  <2>1. FilesOfKind(r, k)
    BY <1>4 DEF RequestKept
  <2>2. QED
    BY <1>1, <2>1 DEF FilesOfKind
<1>5. QED
  BY <1>2, <1>3, <1>4

LEMMA BeginKeeps ==
    ASSUME NEW r, Requests = {r}, UploadInv, NEW pc \in {"stage", "update", "delete"},
           NEW kinds \in SUBSET FileKinds, pc = "stage" => kinds # {}, Begin(r, pc, kinds)
    PROVE  UploadInv'
<1> DEFINE t == req[r]
           u == req'[r]
<1>0. /\ UploadTypes /\ RowKept /\ disk[Library] # NoFile
      /\ crashes = 0 => trash = {}
      /\ RequestKept(r)
  BY InvParts
<1>1. /\ row \in Row
      /\ req \in [Requests -> Request]
      /\ r \in Requests
      /\ served \in 0..MaxRequests
  BY <1>0 DEF UploadTypes
<1>2. /\ t.pc = "idle"
      /\ row # NoRow
      /\ served < MaxRequests /\ served' = served + 1
      /\ u = [Idle EXCEPT !.pc = pc, !.read = row, !.copy = row, !.todo = kinds]
      /\ req' = [req EXCEPT ![r] = u]
      /\ UNCHANGED <<disk, trash, row, media, faults, crashes>>
  BY <1>1 DEF Begin, Becomes
<1>3. u \in Request
  BY <1>1, <1>2 DEF Idle, Request
<1>4. /\ u.pc = pc /\ u.read = row /\ u.copy = row /\ u.todo = kinds
      /\ u.staged = {} /\ u.applied = {} /\ u.backed = {}
  BY <1>2 DEF Idle
<1>5. t.staged = {}
  BY <1>0, <1>2 DEF RequestKept, Idle
<1>6. UploadTypes'
  <2>1. req' \in [Requests -> Request]
    BY <1>1, <1>2, <1>3
  <2>2. served' \in 0..MaxRequests
    BY <1>1, <1>2, UploadConstants
  <2>3. QED
    BY <1>0, <1>2, <2>1, <2>2 DEF UploadTypes
<1>7. RowKept'
  BY <1>0, <1>2 DEF RowKept, MediaOfRow
<1>8. Progress(u) /\ CopyHolds(req[r])'
  BY <1>0, <1>2, <1>4 DEF Progress, CopyHolds, Saving, RowKept
<1>9. /\ AudioAt(r)'
      /\ NewFiles(r)'
      /\ (crashes = 0 => \A k \in FileKinds : FilesOfKind(r, k))'
  BY <1>0, <1>2, <1>4, <1>5, <1>6, IdleFiles
<1>10. RequestKept(r)'
  BY <1>4, <1>8, <1>9 DEF RequestKept
<1>11. QED
  BY <1>0, <1>2, <1>6, <1>7, <1>10, InvParts

\* Where the audio of a row is: not at a temporary path.
LEMMA AudioPaths ==
    ASSUME NEW x \in Row, x.path # NoPath
    PROVE  /\ x.path \in Paths
           /\ x.path \in Of("audio") \cup {Library}
           /\ \A r, k : x.path # Tmp(r, k) /\ x.path # Backup(r, k)
           /\ x.path # Cover
<1>1. x.path \in Of("audio") \cup {Library}
  BY DEF Row
<1>2. Of("audio") \subseteq Managed /\ Cover \in Managed
  BY DEF Managed, Of
<1>3. QED
  BY <1>1, <1>2, PathsDiffer DEF Paths

\* Files of one kind are not those of the other.
LEMMA KindsApart ==
    ASSUME NEW r, NEW j \in FileKinds, NEW k \in FileKinds, j # k
    PROVE  /\ Tmp(r, j) # Tmp(r, k) /\ Backup(r, j) # Backup(r, k)
           /\ Of(j) \cap Of(k) = {}
<1>1. Tmp(r, j) # Tmp(r, k) /\ Backup(r, j) # Backup(r, k)
  BY PathsDiffer
<1>2. Of(j) \cap Of(k) = {}
  BY PathsDiffer DEF FileKinds, Of
<1>3. QED
  BY <1>1, <1>2

\* A kind whose files and records a step leaves alone.
LEMMA OtherKind ==
    ASSUME NEW r, NEW j \in FileKinds, FilesOfKind(r, j),
           req[r].pc \notin {"commit", "clean"}, req'[r].pc \notin {"commit", "clean"},
           \A p \in Of(j) \cup {Tmp(r, j), Backup(r, j)} : disk'[p] = disk[p],
           NameOf(req'[r].copy, j) = NameOf(req[r].copy, j),
           NameOf(row', j) = NameOf(row, j),
           Live(req'[r], j) <=> Live(req[r], j),
           j \in req'[r].applied <=> j \in req[r].applied,
           j \in req'[r].backed <=> j \in req[r].backed
    PROVE  FilesOfKind(r, j)'
  BY DEF FilesOfKind

\* A file has been staged.
LEMMA StagedKeeps ==
    ASSUME NEW r, Requests = {r}, UploadInv, req[r].pc = "stage",
           NEW k \in req[r].todo, k = FirstKind(req[r].todo),
           NEW c \in Contents, NEW p \in Of(k),
           disk' = [disk EXCEPT ![Tmp(r, k)] = c],
           req' = [req EXCEPT ![r] = [req[r] EXCEPT
             !.staged = req[r].staged \cup {k}, !.copy = Naming(@, k, p, c),
             !.todo = IF req[r].todo = {k} THEN req[r].staged \cup {k} ELSE @ \ {k},
             !.pc = IF req[r].todo = {k} THEN "backup" ELSE "stage"]],
           UNCHANGED <<row, media, faults, tallies>>
    PROVE  UploadInv'
<1> DEFINE t == req[r]
           u == req'[r]
<1>0. /\ UploadTypes /\ RowKept /\ disk[Library] # NoFile
      /\ crashes = 0 => trash = {}
      /\ RequestKept(r)
  BY InvParts
<1>1. /\ row \in Row
      /\ req \in [Requests -> Request]
      /\ t \in Request
      /\ r \in Requests
      /\ disk \in [Paths -> Held]
      /\ k \in FileKinds
  BY <1>0 DEF UploadTypes, Paths, Request
<1>2. /\ u.pc = IF t.todo = {k} THEN "backup" ELSE "stage"
      /\ u.read = t.read
      /\ u.copy = Naming(t.copy, k, p, c)
      /\ u.todo = IF t.todo = {k} THEN t.staged \cup {k} ELSE t.todo \ {k}
      /\ u.staged = t.staged \cup {k}
      /\ u.applied = t.applied /\ u.backed = t.backed
  BY <1>1 DEF Request
<1>3. /\ disk'[Tmp(r, k)] = c
      /\ \A q \in Paths \ {Tmp(r, k)} : disk'[q] = disk[q]
      /\ disk' \in [Paths -> Held]
  BY <1>1, PathsOfRequest DEF Held
<1>4. /\ Progress(t) /\ CopyHolds(t) /\ NewFiles(r) /\ AudioAt(r)
      /\ crashes = 0 => \A j \in FileKinds : FilesOfKind(r, j)
      /\ UNCHANGED <<row, media, faults, trash, served, crashes>>
  BY <1>0 DEF RequestKept, tallies
<1>5. /\ t.todo # {} /\ k \notin t.staged /\ t.applied = {} /\ t.backed = {}
      /\ t.todo \cap t.staged = {} /\ t.todo \subseteq FileKinds /\ t.staged \subseteq FileKinds
  BY <1>1, <1>4 DEF Progress, Request
<1>6. /\ u.copy \in Row
      /\ NameOf(u.copy, k) = p
      /\ \A j \in FileKinds \ {k} : NameOf(u.copy, j) = NameOf(t.copy, j)
      /\ u.copy.hash = IF k = "audio" THEN c ELSE t.copy.hash
  <2>1. t.copy \in Row
    BY <1>1 DEF Request
  <2>2. QED
    BY <1>1, <1>2, <2>1, Rows
<1>7. UploadTypes'
  <2>1. u \in Request
    <3>1. u = [t EXCEPT !.staged = u.staged, !.copy = u.copy, !.todo = u.todo, !.pc = u.pc]
      BY <1>1, <1>2
    <3>2. u.staged \in SUBSET FileKinds /\ u.todo \in SUBSET FileKinds /\ u.pc \in {"stage", "backup"}
      BY <1>1, <1>2, <1>5
    <3>3. QED
      BY <1>1, <1>6, <3>1, <3>2 DEF Request
  <2>2. req' \in [Requests -> Request]
    BY <1>1, <2>1
  <2>3. QED
    BY <1>0, <1>3, <1>4, <2>2 DEF UploadTypes, Paths
<1>8. RowKept'
  BY <1>0, <1>4 DEF RowKept, MediaOfRow
<1>9. disk'[Library] # NoFile
  BY <1>0, <1>1, <1>3, PathsDiffer, PathsOfRequest
<1>10. Progress(u)
  BY <1>2, <1>5 DEF Progress
<1>11. CopyHolds(req[r])'
  <2>1. /\ row = t.read
        /\ \A j \in t.staged : NameOf(t.copy, j) \in Of(j)
        /\ \A j \in FileKinds \ t.staged : NameOf(t.copy, j) = NameOf(t.read, j)
        /\ "audio" \notin t.staged => t.copy.hash = t.read.hash
        /\ t.copy.path # NoPath /\ t.copy.hash # NoFile
    BY <1>4 DEF CopyHolds, Saving
  <2>2. u.copy.path # NoPath /\ u.copy.hash # NoFile
    <3>1. CASE k = "audio"
      <4>1. p \in Paths
        BY <1>1, PathsOfRequest
      <4>2. QED
        BY <1>6, <3>1, <4>1, PathsDiffer, UploadConstants DEF NameOf
    <3>2. CASE k # "audio"
      BY <1>6, <2>1, <3>2 DEF NameOf, FileKinds
    <3>3. QED
      BY <3>1, <3>2
  <2>3. \A j \in u.staged : NameOf(u.copy, j) \in Of(j)
    BY <1>2, <1>5, <1>6, <2>1
  <2>4. \A j \in FileKinds \ u.staged : NameOf(u.copy, j) = NameOf(u.read, j)
    BY <1>2, <1>6, <2>1
  <2>5. "audio" \notin u.staged => u.copy.hash = u.read.hash
    BY <1>2, <1>6, <2>1
  <2>6. u.pc \in {"stage", "backup"}
    BY <1>2
  <2>7. QED
    BY <1>2, <1>4, <2>1, <2>2, <2>3, <2>4, <2>5, <2>6 DEF CopyHolds, Saving
<1>12. NewFiles(r)'
  <2>1. CASE k = "audio"
    BY <1>2, <1>3, <1>5, <1>6, <2>1 DEF NewFiles
  <2>2. CASE k # "audio"
    <3>1. "audio" \in t.staged => disk[Tmp(r, "audio")] = t.copy.hash
      BY <1>4, <1>5 DEF NewFiles, Saving
    <3>2. disk'[Tmp(r, "audio")] = disk[Tmp(r, "audio")]
      BY <1>1, <1>3, <2>2, KindsApart, PathsOfRequest DEF FileKinds
    <3>3. QED
      BY <1>2, <1>5, <1>6, <2>2, <3>1, <3>2 DEF NewFiles
  <2>3. QED
    BY <2>1, <2>2
<1>13. AudioAt(r)'
  <2>1. row # NoRow => disk'[row.path] = disk[row.path]
    BY <1>0, <1>1, <1>3, AudioPaths DEF RowKept
  <2>2. QED
    BY <1>2, <1>4, <1>5, <2>1 DEF AudioAt
<1>14. ASSUME crashes' = 0, NEW j \in FileKinds
       PROVE  FilesOfKind(r, j)'
  <2>1. FilesOfKind(r, j)
    BY <1>4, <1>14
  <2>2. Live(t, j) <=> j \in t.staged
    BY DEF Live
  <2>3. Live(u, j) <=> j \in t.staged \cup {k}
    BY <1>2 DEF Live
  <2>4. /\ \A q \in Of(j) : disk'[q] = disk[q]
        /\ disk'[Backup(r, j)] = disk[Backup(r, j)]
    BY <1>1, <1>3, PathsDiffer, PathsOfRequest
  <2>5. disk'[Tmp(r, j)] = IF j = k THEN c ELSE disk[Tmp(r, j)]
    BY <1>1, <1>3, PathsOfRequest, KindsApart
  <2>6. u.pc \notin {"commit", "clean"} /\ c # NoFile
    BY <1>2, UploadConstants
  <2>7. CASE j = k
    BY <1>2, <1>4, <1>5, <2>1, <2>2, <2>3, <2>4, <2>5, <2>6, <2>7 DEF FilesOfKind
  <2>8. CASE j # k
    BY <1>2, <1>4, <1>6, <2>1, <2>2, <2>3, <2>4, <2>5, <2>6, <2>8, OtherKind
  <2>9. QED
    BY <2>7, <2>8
<1>15. RequestKept(r)'
  BY <1>2, <1>10, <1>11, <1>12, <1>13, <1>14 DEF RequestKept
<1>16. QED
  BY <1>0, <1>4, <1>7, <1>8, <1>9, <1>15, InvParts

-----------------------------------------------------------------------------
(* Steps that change the files and the request, and leave the row alone.   *)

\* What is known before a step.
LEMMA Before ==
    ASSUME NEW r, Requests = {r}, UploadInv
    PROVE  /\ UploadTypes /\ RowKept /\ disk[Library] # NoFile
           /\ crashes = 0 => trash = {}
           /\ row \in Row /\ disk \in [Paths -> Held]
           /\ req \in [Requests -> Request] /\ req[r] \in Request /\ r \in Requests
           /\ Progress(req[r]) /\ CopyHolds(req[r]) /\ NewFiles(r) /\ AudioAt(r)
           /\ crashes = 0 => \A k \in FileKinds : FilesOfKind(r, k)
           /\ req[r].copy \in Row /\ req[r].read \in Row
           /\ req[r].todo \subseteq FileKinds /\ req[r].staged \subseteq FileKinds
           /\ req[r].applied \subseteq FileKinds /\ req[r].backed \subseteq FileKinds
  BY InvParts DEF UploadTypes, RequestKept, Paths, Request

\* What is to be shown of it.
LEMMA FileSteps ==
    ASSUME NEW r, Requests = {r}, UploadInv, NEW u \in Request, Becomes(r, u),
           u.pc = "idle" => u = Idle, CallFails \/ CallWorks,
           UNCHANGED <<row, media, tallies>>,
           disk' \in [Paths -> Held], disk'[Library] # NoFile,
           Progress(u), CopyHolds(u), NewFiles(r)', AudioAt(r)',
           \A k \in FileKinds : crashes = 0 => FilesOfKind(r, k)'
    PROVE  UploadInv'
<1>1. req'[r] = u
  BY Before DEF Becomes
<1>2. faults' \in 0..MaxFaults
  BY Before, UploadConstants DEF CallFails, CallWorks, UploadTypes
<1>3. req' \in [Requests -> Request]
  BY Before DEF Becomes
<1>4. UploadTypes'
  BY Before, <1>2, <1>3 DEF UploadTypes, Paths, tallies
<1>5. RowKept'
  BY Before DEF RowKept, MediaOfRow
<1>6. CopyHolds(req[r])'
  BY <1>1 DEF CopyHolds
<1>7. RequestKept(r)'
  BY <1>1, <1>6 DEF RequestKept, tallies
<1>8. QED
  BY Before, <1>4, <1>5, <1>7, InvParts DEF tallies

\* And of one that ends the request.
LEMMA LastSteps ==
    ASSUME NEW r, Requests = {r}, UploadInv, Becomes(r, Idle), CallFails \/ CallWorks,
           UNCHANGED <<row, media, tallies>>,
           disk' \in [Paths -> Held], disk'[Library] # NoFile,
           row # NoRow => row.hash \in trash \/ disk'[row.path] = row.hash,
           \A k \in FileKinds : crashes = 0 =>
             /\ disk'[Tmp(r, k)] = NoFile /\ disk'[Backup(r, k)] = NoFile
             /\ \A p \in Of(k) : disk'[p] # NoFile <=> p = NameOf(row, k)
    PROVE  UploadInv'
<1>1. req'[r] = Idle
  BY Before DEF Becomes
<1>2. \A k : ~Live(Idle, k)
  BY DEF Live, Idle
<1>3. Progress(Idle) /\ CopyHolds(Idle) /\ NewFiles(r)'
  BY <1>1 DEF Progress, CopyHolds, NewFiles, Idle, Saving
<1>4. AudioAt(r)'
  BY <1>1, <1>2 DEF AudioAt, tallies
<1>5. \A k \in FileKinds : crashes = 0 => FilesOfKind(r, k)'
  <2>1. Idle.pc = "idle"
    BY DEF Idle
  <2>2. QED
    BY <1>1, <1>2, <2>1 DEF FilesOfKind
<1>6. QED
  BY <1>3, <1>4, <1>5, Rows, FileSteps

\* The path of a file that a request has staged.
LEMMA FinalPath ==
    ASSUME NEW r, Requests = {r}, UploadInv, CaseSensitive, NEW k \in req[r].staged,
           req[r].pc \in Saving \cup {"commit"}
    PROVE  /\ Final(r, k) = NameOf(req[r].copy, k)
           /\ Final(r, k) \in Of(k)
           /\ Final(r, k) \in Paths /\ Final(r, k) # Library
           /\ \A j : Final(r, k) # Tmp(r, j) /\ Final(r, k) # Backup(r, j)
           /\ \A j \in FileKinds \ {k} : Final(r, k) \notin Of(j)
<1>1. NameOf(req[r].copy, k) \in Of(k)
  BY Before DEF CopyHolds
<1>2. k \in FileKinds
  BY Before
<1>3. NameOf(req[r].copy, k) \in Managed /\ NameOf(req[r].copy, k) \in Paths
  BY <1>1, <1>2, PathsOfRequest, Before
<1>4. Final(r, k) = NameOf(req[r].copy, k)
  BY <1>3, OnDiskSame DEF Final
<1>5. QED
  BY <1>1, <1>2, <1>3, <1>4, PathsDiffer, KindsApart

\* Staging fails: the temporary files go.
LEMMA StageFailsKeeps ==
    ASSUME NEW r, Requests = {r}, UploadInv, req[r].pc = "stage", CallFails,
           disk' = Without(disk, {Tmp(r, q) : q \in FileKinds}), Becomes(r, Idle),
           UNCHANGED <<row, media, tallies>>
    PROVE  UploadInv'
<1>1. /\ disk' \in [Paths -> Held]
      /\ \A p \in Paths :
           disk'[p] = IF p \in {Tmp(r, q) : q \in FileKinds} THEN NoFile ELSE disk[p]
  BY Before, Removals
<1>2. disk'[Library] # NoFile
  BY <1>1, Before, PathsDiffer, PathsOfRequest
<1>3. req[r].applied = {} /\ req[r].backed = {}
  BY Before DEF Progress
<1>4. row # NoRow => row.hash \in trash \/ disk'[row.path] = row.hash
  <2>1. row # NoRow => row.hash \in trash \/ disk[row.path] = row.hash
    BY Before, <1>3 DEF AudioAt
  <2>2. row # NoRow => disk'[row.path] = disk[row.path]
    BY <1>1, Before, AudioPaths DEF RowKept
  <2>3. QED
    BY <2>1, <2>2
<1>5. ASSUME NEW k \in FileKinds, crashes = 0
      PROVE  /\ disk'[Tmp(r, k)] = NoFile /\ disk'[Backup(r, k)] = NoFile
             /\ \A p \in Of(k) : disk'[p] # NoFile <=> p = NameOf(row, k)
  <2>1. FilesOfKind(r, k)
    BY <1>5, Before
  <2>2. /\ disk[Backup(r, k)] = NoFile
        /\ \A p \in Of(k) : disk[p] # NoFile <=> p = NameOf(row, k)
    BY <1>3, <2>1 DEF FilesOfKind
  <2>3. disk'[Tmp(r, k)] = NoFile
    BY <1>1, <1>5, Before, PathsOfRequest
  <2>4. \A p \in Of(k) \cup {Backup(r, k)} : disk'[p] = disk[p]
    BY <1>1, <1>5, Before, PathsOfRequest, PathsDiffer
  <2>5. QED
    BY <2>2, <2>3, <2>4
<1>6. QED
  BY <1>1, <1>2, <1>4, <1>5, LastSteps

\* What is in place has become the backup.
LEMMA BackupMoves ==
    ASSUME NEW r, Requests = {r}, UploadInv, CaseSensitive, req[r].pc = "backup", CallWorks,
           NEW k, k = FirstKind(req[r].todo), disk[Final(r, k)] # NoFile,
           disk' = Moved(Final(r, k), Backup(r, k)),
           NEW u, u = [req[r] EXCEPT !.pc = "place", !.backed = @ \cup {k}], Becomes(r, u),
           UNCHANGED <<row, media, tallies>>
    PROVE  UploadInv'
<1> DEFINE t == req[r]
           f == Final(r, k)
<1>1. /\ k \in t.todo /\ k \in t.staged /\ k \in FileKinds /\ k \notin t.applied /\ k \notin t.backed
      /\ t.applied = t.staged \ t.todo /\ t.backed \subseteq t.applied /\ t.todo # {}
      /\ t.todo \subseteq t.staged
  BY Before, NextKinds DEF Progress
<1>2. /\ u \in Request /\ u.pc = "place" /\ u.read = t.read /\ u.copy = t.copy /\ u.todo = t.todo
      /\ u.staged = t.staged /\ u.applied = t.applied /\ u.backed = t.backed \cup {k}
      /\ req'[r] = u
  BY <1>1, Before DEF Request, Becomes
<1>3. /\ f = NameOf(t.copy, k) /\ f \in Of(k) /\ f \in Paths /\ f # Library
      /\ \A j : f # Tmp(r, j) /\ f # Backup(r, j)
      /\ \A j \in FileKinds \ {k} : f \notin Of(j)
  BY <1>1, FinalPath DEF Saving
<1>4. /\ disk' \in [Paths -> Held]
      /\ disk'[Backup(r, k)] = disk[f]
      /\ disk'[f] = NoFile
      /\ \A p \in Paths \ {f, Backup(r, k)} : disk'[p] = disk[p]
  BY <1>1, <1>3, Before, PathsOfRequest, Renamings
<1>5. disk'[Library] # NoFile
  <2>1. Library \in Paths \ {f, Backup(r, k)} /\ disk[Library] # NoFile
    BY <1>1, <1>3, Before, PathsDiffer, PathsOfRequest
  <2>2. QED
    BY <1>4, <2>1
<1>6. Progress(u)
  BY <1>1, <1>2 DEF Progress
<1>7. CopyHolds(u)
  BY <1>2, Before DEF CopyHolds, Saving
<1>8. \A j \in FileKinds : disk'[Tmp(r, j)] = disk[Tmp(r, j)]
  BY <1>3, <1>4, PathsDiffer, PathsOfRequest
<1>9. k = "cover" => /\ \A p \in Of("audio") \cup {Library} : disk'[p] = disk[p]
                     /\ disk'[Backup(r, "audio")] = disk[Backup(r, "audio")]
  BY <1>3, <1>4, KindsApart, PathsOfRequest, PathsDiffer, Before DEF FileKinds
<1>10. NewFiles(r)'
  <2>1. "audio" \in t.staged =>
          IF "audio" \in t.applied THEN disk[t.copy.path] = t.copy.hash
          ELSE disk[Tmp(r, "audio")] = t.copy.hash
    BY Before DEF NewFiles, Saving
  <2>2. ASSUME "audio" \in t.applied
        PROVE  disk'[t.copy.path] = disk[t.copy.path]
    <3>1. k = "cover" /\ "audio" \in t.staged
      BY <1>1, <2>2 DEF FileKinds
    <3>2. t.copy.path \in Of("audio")
      BY <3>1, Before DEF CopyHolds, Saving, NameOf
    <3>3. QED
      BY <1>9, <3>1, <3>2
  <2>3. disk'[NameOf(t.copy, FirstKind(t.todo))] = NoFile
    BY <1>3, <1>4
  <2>4. QED
    BY <1>2, <1>8, <2>1, <2>2, <2>3 DEF NewFiles, FileKinds
<1>11. AudioAt(r)'
  <2>1. CASE k = "audio"
    <3>1. row # NoRow => row.hash \in trash \/ disk[row.path] = row.hash
      BY <1>1, <2>1, Before DEF AudioAt
    <3>2. row # NoRow /\ row.path # f => disk'[row.path] = disk[row.path]
      BY <1>4, Before, AudioPaths DEF RowKept
    <3>3. f = t.copy.path
      BY <1>3, <2>1 DEF NameOf
    <3>4. Live(u, "audio")
      BY <1>1, <1>2, <2>1 DEF Live
    <3>5. QED
      BY <1>2, <1>4, <2>1, <3>1, <3>2, <3>3, <3>4 DEF AudioAt, tallies, Saving
  <2>2. CASE k = "cover"
    <3>1. row # NoRow => disk'[row.path] = disk[row.path]
      BY <1>9, <2>2, Before, AudioPaths DEF RowKept
    <3>2. Live(u, "audio") <=> Live(t, "audio")
      BY <1>2, Before DEF Live
    <3>3. "audio" \in u.backed <=> "audio" \in t.backed
      BY <1>2, <2>2
    <3>4. QED
      BY <1>2, <1>9, <2>2, <3>1, <3>2, <3>3, Before DEF AudioAt, tallies, Saving
  <2>3. QED
    BY <1>1, <2>1, <2>2 DEF FileKinds
<1>12. ASSUME NEW j \in FileKinds, crashes = 0
       PROVE  FilesOfKind(r, j)'
  <2>1. FilesOfKind(r, j)
    BY <1>12, Before
  <2>2. Live(u, j) <=> Live(t, j)
    BY <1>2 DEF Live
  <2>3. CASE j = k
    <3>1. Live(t, k)
      BY <1>1 DEF Live
    <3>2. \A p \in Of(k) \ {f} : disk'[p] = disk[p]
      BY <1>1, <1>4, PathsDiffer, PathsOfRequest
    <3>3. f = NameOf(row, k)
      BY <1>1, <1>3, <2>1, <2>3 DEF FilesOfKind
    <3>4. /\ disk[Tmp(r, k)] # NoFile
          /\ \A p \in Of(k) : disk[p] # NoFile <=> p = NameOf(row, k)
      BY <1>1, <2>1, <2>3, <3>1 DEF FilesOfKind
    <3>5. /\ disk'[Tmp(r, k)] # NoFile
          /\ disk'[Backup(r, k)] # NoFile
          /\ \A p \in Of(k) :
               disk'[p] # NoFile <=> (IF p = NameOf(t.copy, k) THEN FALSE ELSE p = NameOf(row, k))
      BY <1>1, <1>3, <1>4, <1>8, <3>2, <3>4
    <3>6. /\ u.pc = "place" /\ Live(u, k) /\ k \notin u.applied /\ k \in u.backed
          /\ u.copy = t.copy /\ NameOf(t.copy, k) = NameOf(row, k) /\ row' = row
      BY <1>1, <1>2, <1>3, <2>2, <2>3, <3>1, <3>3
    <3>7. QED
      BY <1>2, <2>3, <3>5, <3>6 DEF FilesOfKind
  <2>4. CASE j # k
    <3>1. \A p \in Of(j) \cup {Tmp(r, j), Backup(r, j)} : disk'[p] = disk[p]
      BY <1>1, <1>3, <1>4, <1>8, <2>4, PathsOfRequest, PathsDiffer, KindsApart
    <3>2. QED
      BY <1>2, <2>1, <2>2, <2>4, <3>1, OtherKind
  <2>5. QED
    BY <2>3, <2>4
<1>13. QED
  BY <1>2, <1>4, <1>5, <1>6, <1>7, <1>10, <1>11, <1>12, FileSteps

\* Nothing was in place.
LEMMA BackupNothing ==
    ASSUME NEW r, Requests = {r}, UploadInv, CaseSensitive, req[r].pc = "backup", CallWorks,
           disk[Final(r, FirstKind(req[r].todo))] = NoFile,
           NEW u, u = [req[r] EXCEPT !.pc = "place"], Becomes(r, u),
           UNCHANGED <<disk, row, media, tallies>>
    PROVE  UploadInv'
<1> DEFINE t == req[r]
           k == FirstKind(t.todo)
<1>1. /\ k \in t.staged /\ k \in FileKinds
      /\ t.applied = t.staged \ t.todo /\ t.backed \subseteq t.applied /\ t.todo # {}
      /\ t.todo \subseteq t.staged
  BY Before, NextKinds DEF Progress
<1>2. /\ u \in Request /\ u.pc = "place" /\ u.read = t.read /\ u.copy = t.copy /\ u.todo = t.todo
      /\ u.staged = t.staged /\ u.applied = t.applied /\ u.backed = t.backed
      /\ req'[r] = u
  BY <1>1, Before DEF Request, Becomes
<1>3. Final(r, k) = NameOf(t.copy, k)
  BY <1>1, FinalPath DEF Saving
<1>4. \A j : Live(u, j) <=> Live(t, j)
  BY <1>2 DEF Live
<1>5. disk' = disk /\ row' = row /\ trash' = trash
  BY DEF tallies
<1>6. Progress(u)
  BY <1>1, <1>2 DEF Progress
<1>7. CopyHolds(u)
  BY <1>2, Before DEF CopyHolds, Saving
<1>8. NewFiles(r)'
  BY <1>2, <1>3, <1>5, Before DEF NewFiles, Saving
<1>9. AudioAt(r)'
  BY <1>2, <1>4, <1>5, Before DEF AudioAt, Saving
<1>10. ASSUME NEW j \in FileKinds, crashes = 0
       PROVE  FilesOfKind(r, j)'
  <2>1. FilesOfKind(r, j)
    BY <1>10, Before
  <2>2. QED
    BY <1>2, <1>4, <1>5, <2>1, OtherKind
<1>11. QED
  BY <1>2, <1>5, <1>6, <1>7, <1>8, <1>9, <1>10, Before, FileSteps

\* The record of a request that undoes its files.
LEMMA Undoing ==
    ASSUME NEW r \in Requests, req \in [Requests -> Request], NEW v \in Request,
           v.staged \subseteq FileKinds, RollsBack(r, v)
    PROVE  /\ req'[r] \in Request /\ Becomes(r, req'[r])
           /\ req'[r].pc = "rollback" /\ req'[r].todo = v.staged
           /\ req'[r].read = v.read /\ req'[r].copy = v.copy /\ req'[r].staged = v.staged
           /\ req'[r].applied = v.applied /\ req'[r].backed = v.backed
<1>1. req'[r] = [v EXCEPT !.pc = "rollback", !.todo = v.staged] /\ Becomes(r, req'[r])
  BY DEF RollsBack, Becomes
<1>2. QED
  BY <1>1 DEF Request

\* A call has failed, and what is done so far is to be undone.
LEMMA RollsBackKeeps ==
    ASSUME NEW r, Requests = {r}, UploadInv, req[r].pc \in {"backup", "place", "persist"},
           CallFails \/ CallWorks, RollsBack(r, req[r]),
           UNCHANGED <<disk, row, media, tallies>>
    PROVE  UploadInv'
<1> DEFINE t == req[r]
           u == req'[r]
<1>1. t.staged # {} /\ t.staged \subseteq FileKinds
  BY Before DEF Progress
<1>2. /\ u \in Request /\ u.pc = "rollback" /\ u.read = t.read /\ u.copy = t.copy
      /\ u.todo = t.staged /\ u.staged = t.staged /\ u.applied = t.applied /\ u.backed = t.backed
      /\ Becomes(r, u)
  BY Before, Undoing
<1>3. \A j : Live(u, j) <=> Live(t, j)
  BY <1>2 DEF Live
<1>4. disk' = disk /\ row' = row /\ trash' = trash
  BY DEF tallies
<1>5. Progress(u)
  BY <1>1, <1>2 DEF Progress
<1>6. CopyHolds(u)
  BY <1>2, Before DEF CopyHolds, Saving
<1>7. NewFiles(r)'
  BY <1>2 DEF NewFiles
<1>8. AudioAt(r)'
  BY <1>2, <1>3, <1>4, Before DEF AudioAt, Saving
<1>9. ASSUME NEW j \in FileKinds, crashes = 0
      PROVE  FilesOfKind(r, j)'
  <2>1. FilesOfKind(r, j)
    BY <1>9, Before
  <2>2. QED
    BY <1>2, <1>3, <1>4, <2>1, OtherKind
<1>10. u.pc = "idle" => u = Idle
  BY <1>2
<1>11. disk' \in [Paths -> Held] /\ disk'[Library] # NoFile
  BY <1>4, Before
<1>12. QED
  BY <1>2, <1>5, <1>6, <1>7, <1>8, <1>9, <1>10, <1>11, FileSteps

\* The new file is in its place.
LEMMA PlaceKeeps ==
    ASSUME NEW r, Requests = {r}, UploadInv, CaseSensitive, req[r].pc = "place", CallWorks,
           NEW k, k = FirstKind(req[r].todo), disk[Tmp(r, k)] # NoFile,
           disk' = Moved(Tmp(r, k), Final(r, k)),
           NEW u, u = [req[r] EXCEPT !.applied = @ \cup {k}, !.todo = @ \ {k},
                         !.pc = IF req[r].todo = {k} THEN "persist" ELSE "backup"],
           Becomes(r, u), UNCHANGED <<row, media, tallies>>
    PROVE  UploadInv'
<1> DEFINE t == req[r]
           f == Final(r, k)
<1>1. /\ k \in t.todo /\ k \in t.staged /\ k \in FileKinds /\ k \notin t.applied
      /\ t.applied = t.staged \ t.todo /\ t.backed \subseteq t.applied \cup {k} /\ t.todo # {}
      /\ t.todo \subseteq t.staged
  BY Before, NextKinds DEF Progress
<1>2. /\ u \in Request /\ u.pc = (IF t.todo = {k} THEN "persist" ELSE "backup")
      /\ u.read = t.read /\ u.copy = t.copy /\ u.todo = t.todo \ {k}
      /\ u.staged = t.staged /\ u.applied = t.applied \cup {k} /\ u.backed = t.backed
      /\ req'[r] = u
  <2>1. t \in Request /\ t.applied \cup {k} \in SUBSET FileKinds
    BY <1>1, Before
  <2>2. u \in Request
    BY <2>1 DEF Request
  <2>3. /\ u.pc = (IF t.todo = {k} THEN "persist" ELSE "backup")
        /\ u.read = t.read /\ u.copy = t.copy /\ u.todo = t.todo \ {k}
        /\ u.staged = t.staged /\ u.applied = t.applied \cup {k} /\ u.backed = t.backed
    BY <2>1 DEF Request
  <2>4. req'[r] = u
    BY Before DEF Becomes
  <2>5. QED
    BY <2>2, <2>3, <2>4
<1>3. /\ f = NameOf(t.copy, k) /\ f \in Of(k) /\ f \in Paths /\ f # Library
      /\ \A j : f # Tmp(r, j) /\ f # Backup(r, j)
      /\ \A j \in FileKinds \ {k} : f \notin Of(j)
  BY <1>1, FinalPath DEF Saving
<1>4. /\ disk' \in [Paths -> Held]
      /\ disk'[f] = disk[Tmp(r, k)]
      /\ disk'[Tmp(r, k)] = NoFile
      /\ \A p \in Paths \ {f, Tmp(r, k)} : disk'[p] = disk[p]
  BY <1>1, <1>3, Before, PathsOfRequest, Renamings
<1>5. disk'[Library] # NoFile
  <2>1. Library \in Paths \ {f, Tmp(r, k)} /\ disk[Library] # NoFile
    BY <1>1, <1>3, Before, PathsDiffer, PathsOfRequest
  <2>2. QED
    BY <1>4, <2>1
<1>6. Progress(u)
  BY <1>1, <1>2 DEF Progress
<1>7. CopyHolds(u)
  BY <1>2, Before DEF CopyHolds, Saving
<1>8. \A j \in FileKinds : disk'[Backup(r, j)] = disk[Backup(r, j)]
  BY <1>3, <1>4, PathsDiffer, PathsOfRequest
<1>9. k = "cover" => /\ \A p \in Of("audio") \cup {Library} : disk'[p] = disk[p]
                     /\ disk'[Tmp(r, "audio")] = disk[Tmp(r, "audio")]
  BY <1>3, <1>4, KindsApart, PathsOfRequest, PathsDiffer, Before DEF FileKinds
<1>10. disk[f] = NoFile
  BY <1>3, Before DEF NewFiles
<1>11. NewFiles(r)'
  <2>1. "audio" \in t.staged =>
          IF "audio" \in t.applied THEN disk[t.copy.path] = t.copy.hash
          ELSE disk[Tmp(r, "audio")] = t.copy.hash
    BY Before DEF NewFiles, Saving
  <2>2. CASE k = "audio"
    <3>1. disk'[t.copy.path] = t.copy.hash
      BY <1>1, <1>3, <1>4, <2>1, <2>2 DEF NameOf
    <3>2. QED
      BY <1>2, <2>2, <3>1 DEF NewFiles
  <2>3. CASE k = "cover"
    <3>1. "audio" \in t.staged => t.copy.path \in Of("audio")
      BY Before DEF CopyHolds, Saving, NameOf
    <3>2. QED
      BY <1>2, <1>9, <2>1, <2>3, <3>1 DEF NewFiles
  <2>4. QED
    BY <1>1, <2>2, <2>3 DEF FileKinds
<1>12. AudioAt(r)'
  <2>1. Live(u, "audio") <=> Live(t, "audio")
    BY <1>2 DEF Live
  <2>2. CASE k = "audio"
    <3>1. f = t.copy.path /\ Live(t, "audio") /\ "audio" \notin t.applied
      BY <1>1, <1>3, <2>2 DEF NameOf, Live
    <3>2. row # NoRow => \/ row.hash \in trash
                         \/ t.copy.path = row.path /\ "audio" \in t.backed
                              /\ disk[Backup(r, "audio")] = row.hash
                         \/ disk[row.path] = row.hash
      BY Before DEF AudioAt
    <3>3. row # NoRow => row.hash # NoFile
      BY Before DEF RowKept
    <3>4. row # NoRow /\ row.path # f => disk'[row.path] = disk[row.path]
      BY <1>4, Before, AudioPaths DEF RowKept
    <3>5. row' = row /\ trash' = trash /\ "audio" \in FileKinds
      BY DEF tallies, FileKinds
    <3>6. QED
      BY <1>2, <1>8, <1>10, <2>1, <3>1, <3>2, <3>3, <3>4, <3>5 DEF AudioAt, Saving
  <2>3. CASE k = "cover"
    <3>1. row # NoRow => disk'[row.path] = disk[row.path]
      BY <1>9, <2>3, Before, AudioPaths DEF RowKept
    <3>2. disk'[Backup(r, "audio")] = disk[Backup(r, "audio")]
      BY <1>8 DEF FileKinds
    <3>3. "audio" \in u.applied <=> "audio" \in t.applied
      BY <1>2, <2>3
    <3>4. QED
      BY <1>2, <2>1, <3>1, <3>2, <3>3, Before DEF AudioAt, tallies, Saving
  <2>4. QED
    BY <1>1, <2>2, <2>3 DEF FileKinds
<1>13. ASSUME NEW j \in FileKinds, crashes = 0
       PROVE  FilesOfKind(r, j)'
  <2>1. FilesOfKind(r, j)
    BY <1>13, Before
  <2>2. Live(u, j) <=> Live(t, j)
    BY <1>2 DEF Live
  <2>3. CASE j = k
    <3>1. Live(t, k)
      BY <1>1 DEF Live
    <3>2. \A p \in Of(k) \ {f} : disk'[p] = disk[p]
      BY <1>1, <1>4, PathsDiffer, PathsOfRequest
    <3>3. /\ disk[Backup(r, k)] # NoFile <=> k \in t.backed
          /\ \A p \in Of(k) \ {f} : disk[p] # NoFile <=> p = NameOf(row, k)
          /\ k \in t.backed => f = NameOf(row, k)
          /\ k \notin t.backed => f # NameOf(row, k)
      BY <1>1, <1>3, <1>10, <2>1, <2>3, <3>1 DEF FilesOfKind
    <3>4. /\ disk'[Tmp(r, k)] = NoFile
          /\ disk'[Backup(r, k)] # NoFile <=> k \in t.backed
          /\ \A p \in Of(k) :
               disk'[p] # NoFile <=> (IF p = NameOf(t.copy, k) THEN TRUE ELSE p = NameOf(row, k))
      BY <1>1, <1>3, <1>4, <1>8, <3>2, <3>3
    <3>5. /\ u.pc \notin {"commit", "clean"} /\ Live(u, k) /\ k \in u.applied
          /\ u.backed = t.backed /\ u.copy = t.copy /\ row' = row
          /\ k \in t.backed => NameOf(t.copy, k) = NameOf(row, k)
          /\ k \notin t.backed => NameOf(t.copy, k) # NameOf(row, k)
      BY <1>2, <1>3, <2>2, <2>3, <3>1, <3>3
    <3>6. QED
      BY <1>2, <2>3, <3>4, <3>5 DEF FilesOfKind
  <2>4. CASE j # k
    <3>1. \A p \in Of(j) \cup {Tmp(r, j), Backup(r, j)} : disk'[p] = disk[p]
      BY <1>1, <1>3, <1>4, <1>8, <2>4, PathsOfRequest, PathsDiffer, KindsApart
    <3>2. QED
      BY <1>2, <2>1, <2>2, <2>4, <3>1, OtherKind
  <2>5. QED
    BY <2>3, <2>4
<1>14. u.pc = "idle" => u = Idle
  BY <1>2
<1>15. QED
  BY <1>2, <1>4, <1>5, <1>6, <1>7, <1>11, <1>12, <1>13, <1>14, FileSteps

\* Placing has failed: the backup is restored, and what is done is to be undone.
LEMMA PlaceFailsKeeps ==
    ASSUME NEW r, Requests = {r}, UploadInv, CaseSensitive, req[r].pc = "place",
           CallFails \/ CallWorks, NEW k, k = FirstKind(req[r].todo),
           disk' = IF k \in req[r].backed /\ disk[Backup(r, k)] # NoFile
                   THEN Moved(Backup(r, k), Final(r, k)) ELSE disk,
           RollsBack(r, [req[r] EXCEPT !.backed = @ \ {k}]),
           UNCHANGED <<row, media, tallies>>
    PROVE  UploadInv'
<1> DEFINE t == req[r]
           u == req'[r]
           f == Final(r, k)
<1>1. /\ k \in t.todo /\ k \in t.staged /\ k \in FileKinds /\ k \notin t.applied
      /\ t.applied = t.staged \ t.todo /\ t.todo # {}
      /\ t.todo \subseteq t.staged
  BY Before, NextKinds DEF Progress
<1>2. /\ u \in Request /\ u.pc = "rollback" /\ Becomes(r, u)
      /\ u.read = t.read /\ u.copy = t.copy /\ u.todo = t.staged
      /\ u.staged = t.staged /\ u.applied = t.applied /\ u.backed = t.backed \ {k}
  <2>1. PICK v \in Request : v = [t EXCEPT !.backed = @ \ {k}]
    BY Before DEF Request
  <2>2. RollsBack(r, v)
    BY <2>1
  <2>3. /\ v.read = t.read /\ v.copy = t.copy /\ v.staged = t.staged
        /\ v.applied = t.applied /\ v.backed = t.backed \ {k}
    BY <2>1, Before DEF Request
  <2>4. QED
    BY <2>2, <2>3, Before, Undoing
<1>3. /\ f = NameOf(t.copy, k) /\ f \in Of(k) /\ f \in Paths /\ f # Library
      /\ \A j : f # Tmp(r, j) /\ f # Backup(r, j)
      /\ \A j \in FileKinds \ {k} : f \notin Of(j)
  BY <1>1, FinalPath DEF Saving
<1>4. \A j : Live(u, j) <=> Live(t, j)
  BY <1>2 DEF Live
<1>5. Progress(u)
  BY <1>1, <1>2, Before DEF Progress
<1>6. CopyHolds(u)
  BY <1>2, Before DEF CopyHolds, Saving
<1>7. NewFiles(r)'
  BY <1>2 DEF NewFiles
<1>8. u.pc = "idle" => u = Idle
  BY <1>2
<1>9. row' = row /\ trash' = trash
  BY DEF tallies
<1>10. disk[Library] # NoFile /\ disk \in [Paths -> Held]
  BY Before
<1>11. CASE k \in t.backed /\ disk[Backup(r, k)] # NoFile
  <2>1. /\ disk' \in [Paths -> Held]
        /\ disk'[f] = disk[Backup(r, k)]
        /\ disk'[Backup(r, k)] = NoFile
        /\ \A p \in Paths \ {f, Backup(r, k)} : disk'[p] = disk[p]
    BY <1>1, <1>3, <1>11, Before, PathsOfRequest, Renamings
  <2>2. disk'[Library] # NoFile
    <3>1. Library \in Paths \ {f, Backup(r, k)}
      BY <1>1, <1>3, PathsDiffer, PathsOfRequest
    <3>2. QED
      BY <1>10, <2>1, <3>1
  <2>3. AudioAt(r)'
    <3>1. CASE k = "audio"
      <4>1. f = t.copy.path /\ Live(t, "audio") /\ "audio" \notin t.applied
        BY <1>1, <1>2, <1>3, <3>1, Before DEF NameOf, Live
      <4>2. row # NoRow => \/ row.hash \in trash
                           \/ t.copy.path = row.path /\ disk[Backup(r, "audio")] = row.hash
                           \/ t.copy.path # row.path /\ disk[row.path] = row.hash
        BY <1>11, <3>1, <4>1, Before DEF AudioAt, Saving
      <4>3. row # NoRow /\ row.path # f => disk'[row.path] = disk[row.path]
        BY <2>1, Before, AudioPaths DEF RowKept
      <4>4. "audio" \notin u.backed /\ "audio" \notin u.applied
        BY <1>2, <3>1, <4>1
      <4>5. QED
        BY <1>9, <2>1, <3>1, <4>1, <4>2, <4>3, <4>4 DEF AudioAt
    <3>2. CASE k = "cover"
      <4>1. /\ \A p \in Of("audio") \cup {Library} : disk'[p] = disk[p]
            /\ disk'[Backup(r, "audio")] = disk[Backup(r, "audio")]
        BY <1>3, <2>1, <3>2, KindsApart, PathsOfRequest, PathsDiffer, Before DEF FileKinds
      <4>2. row # NoRow => disk'[row.path] = disk[row.path]
        BY <4>1, Before, AudioPaths DEF RowKept
      <4>3. "audio" \in u.backed <=> "audio" \in t.backed
        BY <1>2, <3>2
      <4>4. QED
        BY <1>2, <1>4, <1>9, <4>1, <4>2, <4>3, Before DEF AudioAt, Saving
    <3>3. QED
      BY <1>1, <3>1, <3>2 DEF FileKinds
  <2>4. ASSUME NEW j \in FileKinds, crashes = 0
        PROVE  FilesOfKind(r, j)'
    <3>1. FilesOfKind(r, j)
      BY <2>4, Before
    <3>2. CASE j = k
      <4>1. Live(t, k)
        BY <1>1, <3>2, Before DEF Live
      <4>2. /\ disk[Tmp(r, k)] # NoFile
            /\ \A p \in Of(k) \ {f} : disk[p] # NoFile <=> p = NameOf(row, k)
            /\ f = NameOf(row, k)
        BY <1>1, <1>3, <1>11, <3>1, <3>2, <4>1 DEF FilesOfKind
      <4>3. /\ disk'[Tmp(r, k)] = disk[Tmp(r, k)]
            /\ \A p \in Of(k) \ {f} : disk'[p] = disk[p]
        BY <1>1, <1>3, <2>1, PathsDiffer, PathsOfRequest
      <4>4. /\ disk'[Tmp(r, k)] # NoFile
            /\ \A p \in Of(k) : disk'[p] # NoFile <=> p = NameOf(row, k)
        BY <1>11, <2>1, <4>2, <4>3
      <4>5. u.pc \notin {"commit", "clean"} /\ Live(u, k) /\ k \notin u.applied /\ k \notin u.backed
        BY <1>1, <1>2, <1>4, <4>1
      <4>6. QED
        BY <1>9, <2>1, <3>2, <4>4, <4>5 DEF FilesOfKind
    <3>3. CASE j # k
      <4>1. \A p \in Of(j) \cup {Tmp(r, j), Backup(r, j)} : disk'[p] = disk[p]
        BY <1>1, <1>3, <2>1, <3>3, PathsOfRequest, PathsDiffer, KindsApart
      <4>2. QED
        BY <1>2, <1>4, <1>9, <3>1, <3>3, <4>1, OtherKind
    <3>4. QED
      BY <3>2, <3>3
  <2>5. QED
    BY <1>2, <1>5, <1>6, <1>7, <1>8, <2>1, <2>2, <2>3, <2>4, FileSteps
<1>12. CASE ~(k \in t.backed /\ disk[Backup(r, k)] # NoFile)
  <2>1. disk' = disk
    BY <1>12
  <2>2. AudioAt(r)'
    <3>1. row # NoRow => row.hash # NoFile
      BY Before DEF RowKept
    <3>2. k = "audio" => "audio" \notin t.applied
      BY <1>1
    <3>3. QED
      BY <1>2, <1>4, <1>9, <1>12, <2>1, <3>1, <3>2, Before DEF AudioAt, Saving
  <2>3. ASSUME NEW j \in FileKinds, crashes = 0
        PROVE  FilesOfKind(r, j)'
    <3>1. FilesOfKind(r, j) /\ FilesOfKind(r, k)
      BY <1>1, <2>3, Before
    <3>2. k \notin t.backed
      BY <1>1, <1>12, <3>1 DEF FilesOfKind, Live
    <3>3. QED
      BY <1>2, <1>4, <1>9, <2>1, <3>1, <3>2, OtherKind
  <2>4. QED
    BY <1>2, <1>5, <1>6, <1>7, <1>8, <1>10, <2>1, <2>2, <2>3, FileSteps
<1>13. QED
  BY <1>11, <1>12

\* The row has been saved.
LEMMA PersistKeeps ==
    ASSUME NEW r, Requests = {r}, UploadInv, req[r].pc = "persist",
           row' = req[r].copy,
           media' = IF HasAudio(req[r])
                    THEN [p \in DOMAIN media |->
                            IF p = req[r].copy.path THEN req[r].copy.hash ELSE NoFile]
                    ELSE media,
           NEW u, u = [req[r] EXCEPT !.pc = "commit", !.todo = req[r].staged], Becomes(r, u),
           UNCHANGED <<disk, faults, trash, served, crashes>>
    PROVE  UploadInv'
<1> DEFINE t == req[r]
<1>1. t.staged # {} /\ t.applied = t.staged /\ t.staged \subseteq FileKinds
  BY Before DEF Progress
<1>2. /\ u \in Request /\ u.pc = "commit" /\ u.read = t.read /\ u.copy = t.copy /\ u.todo = t.staged
      /\ u.staged = t.staged /\ u.applied = t.applied /\ u.backed = t.backed
      /\ req'[r] = u /\ req' \in [Requests -> Request]
  <2>1. t \in Request /\ t.staged \in SUBSET FileKinds
    BY <1>1, Before
  <2>2. u \in Request
    BY <2>1 DEF Request
  <2>3. /\ u.pc = "commit" /\ u.read = t.read /\ u.copy = t.copy /\ u.todo = t.staged
        /\ u.staged = t.staged /\ u.applied = t.applied /\ u.backed = t.backed
    BY <2>1 DEF Request
  <2>4. req'[r] = u /\ req' \in [Requests -> Request]
    BY <2>2, Before DEF Becomes
  <2>5. QED
    BY <2>2, <2>3, <2>4
<1>3. /\ row = t.read
      /\ \A k \in t.staged : NameOf(t.copy, k) \in Of(k)
      /\ \A k \in FileKinds \ t.staged : NameOf(t.copy, k) = NameOf(t.read, k)
      /\ "audio" \notin t.staged => t.copy.hash = t.read.hash
      /\ t.copy.path # NoPath /\ t.copy.hash # NoFile
  BY Before DEF CopyHolds, Saving
<1>4. "audio" \notin t.staged => t.copy.path = row.path /\ t.copy.hash = row.hash
  BY <1>3 DEF NameOf, FileKinds
<1>5. UploadTypes'
  <2>1. media \in [Of("audio") -> Held] /\ t.copy \in Row /\ t.copy.hash \in Held
    BY Before DEF UploadTypes, Row
  <2>2. media' \in [Of("audio") -> Held]
    BY <2>1 DEF Held
  <2>3. QED
    BY <1>2, <2>1, <2>2, Before DEF UploadTypes
<1>6. RowKept'
  <2>1. row'.path # NoPath /\ row'.hash # NoFile /\ row' # NoRow
    BY <1>3 DEF NoRow
  <2>2. MediaOfRow'
    <3>1. media \in [Of("audio") -> Held] /\ MediaOfRow
      BY Before DEF UploadTypes, RowKept
    <3>2. CASE HasAudio(t)
      BY <3>1, <3>2 DEF MediaOfRow
    <3>3. CASE ~HasAudio(t)
      BY <1>4, <3>1, <3>3 DEF MediaOfRow, HasAudio
    <3>4. QED
      BY <3>2, <3>3
  <2>3. QED
    BY <2>1, <2>2 DEF RowKept
<1>7. Progress(u) /\ CopyHolds(u)'
  BY <1>1, <1>2, <1>3 DEF Progress, CopyHolds, Saving
<1>8. NewFiles(r)'
  BY <1>2 DEF NewFiles, Saving
<1>9. AudioAt(r)'
  <2>1. CASE "audio" \in t.staged
    <3>1. disk[t.copy.path] = t.copy.hash
      BY <1>1, <2>1, Before DEF NewFiles, Saving
    <3>2. QED
      BY <1>2, <3>1 DEF AudioAt, Saving
  <2>2. CASE "audio" \notin t.staged
    <3>1. row # NoRow => row.hash \in trash \/ disk[row.path] = row.hash
      BY <2>2, Before DEF AudioAt, Live
    <3>2. row # NoRow
      BY <1>3, <1>4, <2>2, Before DEF RowKept
    <3>3. QED
      BY <1>2, <1>4, <2>2, <3>1, <3>2 DEF AudioAt, Saving
  <2>3. QED
    BY <2>1, <2>2
<1>10. ASSUME NEW k \in FileKinds, crashes = 0
       PROVE  FilesOfKind(r, k)'
  <2>1. FilesOfKind(r, k)
    BY <1>10, Before
  <2>2. Live(t, k) <=> k \in t.staged
    BY DEF Live
  <2>3. /\ disk[Tmp(r, k)] = NoFile
        /\ disk[Backup(r, k)] # NoFile => k \in t.staged
    BY <1>1, <2>1, <2>2 DEF FilesOfKind
  <2>4. ASSUME NEW p \in Of(k)
        PROVE  /\ p = NameOf(t.copy, k) => disk[p] # NoFile
               /\ disk[p] # NoFile =>
                    p = NameOf(t.copy, k) \/ (k \in t.staged /\ p = NameOf(t.read, k))
    <3>1. disk[p] # NoFile <=> (IF k \in t.staged /\ p = NameOf(t.copy, k)
                              THEN TRUE ELSE p = NameOf(row, k))
      BY <1>1, <2>1, <2>2, <2>4 DEF FilesOfKind
    <3>2. QED
      BY <1>3, <3>1
  <2>5. QED
    BY <1>2, <2>3, <2>4 DEF FilesOfKind
<1>11. RequestKept(r)'
  <2>1. u.pc = "idle" => u = Idle
    BY <1>2
  <2>2. QED
    BY <1>2, <1>7, <1>8, <1>9, <1>10, <2>1 DEF RequestKept
<1>12. QED
  BY <1>5, <1>6, <1>11, Before, InvParts

\* The record of a request that is done with one of its files.
LEMMA Finishing ==
    ASSUME NEW r, Requests = {r}, UploadInv, NEW k \in req[r].todo, Finishes(r, k),
           req[r].pc \in {"commit", "rollback"}
    PROVE  /\ req'[r] \in Request /\ Becomes(r, req'[r])
           /\ req'[r].pc = "idle" => req'[r] = Idle
           /\ req[r].todo = {k} => req'[r] = Idle
           /\ req[r].todo # {k} =>
                /\ req'[r].pc = req[r].pc /\ req'[r].todo = req[r].todo \ {k}
                /\ req'[r].todo # {}
                /\ req'[r].read = req[r].read /\ req'[r].copy = req[r].copy
                /\ req'[r].staged = req[r].staged
                /\ req'[r].applied = req[r].applied /\ req'[r].backed = req[r].backed
           /\ Progress(req'[r]) /\ CopyHolds(req'[r])
<1> DEFINE t == req[r]
           u == req'[r]
<1>1. CASE t.todo = {k}
  <2>1. u = Idle /\ Becomes(r, u)
    BY <1>1, Before DEF Finishes, Becomes
  <2>2. Progress(Idle) /\ CopyHolds(Idle)
    BY DEF Progress, CopyHolds, Idle, Saving
  <2>3. QED
    BY <1>1, <2>1, <2>2, Rows
<1>2. CASE t.todo # {k}
  <2>1. u = [t EXCEPT !.todo = t.todo \ {k}] /\ Becomes(r, u)
    BY <1>2, Before DEF Finishes, Becomes
  <2>2. /\ u \in Request /\ u.pc = t.pc /\ u.todo = t.todo \ {k}
        /\ u.read = t.read /\ u.copy = t.copy /\ u.staged = t.staged
        /\ u.applied = t.applied /\ u.backed = t.backed
    BY <2>1, Before DEF Request
  <2>3. u.todo # {}
    BY <1>2, <2>2
  <2>4. Progress(u)
    BY <2>2, <2>3, Before DEF Progress
  <2>5. CopyHolds(u)
    BY <2>2, Before DEF CopyHolds, Saving
  <2>6. QED
    BY <1>2, <2>1, <2>2, <2>3, <2>4, <2>5
<1>3. QED
  BY <1>1, <1>2

\* The backup and the previous file of a row that is saved have gone.
LEMMA CommitKeeps ==
    ASSUME NEW r, Requests = {r}, UploadInv, CaseSensitive, Commit(r)
    PROVE  UploadInv'
<1> DEFINE t == req[r]
           u == req'[r]
           k == FirstKind(t.todo)
           old == NameOf(t.read, k)
           gone == {Backup(r, k)} \cup
                   IF old \in Managed /\ old # NameOf(t.copy, k) THEN {OnDisk(old)} ELSE {}
<1>1. /\ t.pc = "commit" /\ disk' = Without(disk, gone) /\ Finishes(r, k)
      /\ UNCHANGED <<row, media, faults, tallies>>
  BY DEF Commit
<1>2. k \in t.todo /\ k \in FileKinds
  BY <1>1, Before, NextKinds DEF Progress
<1>3. /\ u \in Request /\ Becomes(r, u)
      /\ u.pc = "idle" => u = Idle
      /\ t.todo = {k} => u = Idle
      /\ t.todo # {k} => u.pc = "commit" /\ u.todo = t.todo \ {k} /\ u.read = t.read
                         /\ u.copy = t.copy
      /\ Progress(u) /\ CopyHolds(u)
  BY <1>1, <1>2, Finishing
<1>4. row = t.copy /\ row' = row /\ trash' = trash
  BY <1>1, Before DEF CopyHolds, tallies
<1>5. old \in Managed => old \in Of(k) /\ OnDisk(old) = old
  <2>1. old \in Managed => OnDisk(old) = old
    BY OnDiskSame
  <2>2. CASE k = "audio"
    <3>1. old \in Of("audio") \cup {Library, NoPath}
      BY <2>2, Before DEF NameOf, Row
    <3>2. NoPath \notin Managed /\ Library \notin Managed
      BY PathsDiffer DEF Paths
    <3>3. QED
      BY <2>1, <2>2, <3>1, <3>2
  <2>3. CASE k = "cover"
    <3>1. old \in {Cover, NoPath}
      BY <2>3, Before DEF NameOf, Row
    <3>2. NoPath \notin Managed
      BY PathsDiffer DEF Paths
    <3>3. QED
      BY <2>1, <2>3, <3>1, <3>2 DEF Of
  <2>4. QED
    BY <1>2, <2>2, <2>3 DEF FileKinds
<1>6. \A p : p \in gone <=> \/ p = Backup(r, k)
                            \/ p \in Of(k) /\ p = old /\ p # NameOf(row, k)
  <2>1. Of(k) \subseteq Managed
    BY <1>2, PathsOfRequest, Before
  <2>2. QED
    BY <1>4, <1>5, <2>1
<1>7. /\ disk' \in [Paths -> Held]
      /\ \A p \in Paths : disk'[p] = IF p \in gone THEN NoFile ELSE disk[p]
  BY <1>1, Before, Removals
<1>8. Library \notin gone /\ Library \in Paths
  BY <1>2, <1>6, PathsDiffer, PathsOfRequest, Before
<1>9. disk'[Library] # NoFile
  BY <1>7, <1>8, Before
<1>10. row # NoRow => disk'[row.path] = disk[row.path]
  <2>1. ASSUME row # NoRow
        PROVE  row.path \in Paths \ gone
    <3>1. /\ row.path \in Paths /\ row.path \in Of("audio") \cup {Library} /\ row.path # Cover
          /\ row.path # Backup(r, k)
      BY <2>1, Before, AudioPaths DEF RowKept
    <3>2. k = "audio" => row.path = NameOf(row, k)
      BY DEF NameOf
    <3>3. k = "cover" => row.path \notin Of(k)
      BY <3>1 DEF Of
    <3>4. QED
      BY <1>2, <1>6, <3>1, <3>2, <3>3 DEF FileKinds
  <2>2. QED
    BY <1>7, <2>1
<1>11. row # NoRow => row.hash \in trash \/ disk'[row.path] = row.hash
  BY <1>1, <1>10, Before DEF AudioAt, Saving
<1>12. AudioAt(r)'
  <2>1. u.pc \notin Saving
    BY <1>3 DEF Saving, Idle
  <2>2. QED
    BY <1>4, <1>11, <2>1 DEF AudioAt
<1>13. NewFiles(r)'
  BY <1>3 DEF NewFiles, Saving, Idle
<1>14. ASSUME NEW j \in FileKinds, crashes = 0
       PROVE  FilesOfKind(r, j)'
  <2>1. FilesOfKind(r, j)
    BY <1>14, Before
  <2>2. /\ disk[Tmp(r, j)] = NoFile
        /\ disk[Backup(r, j)] # NoFile => j \in t.todo
        /\ \A p \in Of(j) :
             /\ p = NameOf(row, j) => disk[p] # NoFile
             /\ disk[p] # NoFile => p = NameOf(row, j) \/ (j \in t.todo /\ p = NameOf(t.read, j))
    BY <1>1, <2>1 DEF FilesOfKind
  <2>3. disk'[Tmp(r, j)] = NoFile
    BY <1>2, <1>6, <1>7, <2>2, PathsOfRequest, PathsDiffer, Before
  <2>4. CASE j = k
    <3>1. disk'[Backup(r, k)] = NoFile
      BY <1>2, <1>6, <1>7, PathsOfRequest, Before
    <3>2. \A p \in Of(k) : disk'[p] = IF p = old /\ p # NameOf(row, k) THEN NoFile ELSE disk[p]
      BY <1>2, <1>6, <1>7, PathsOfRequest, PathsDiffer, Before
    <3>3. \A p \in Of(k) : disk'[p] # NoFile <=> p = NameOf(row, k)
      BY <2>2, <2>4, <3>2
    <3>4. ~Live(Idle, k) /\ Idle.pc = "idle"
      BY DEF Live, Idle
    <3>5. t.todo = {k} => FilesOfKind(r, j)'
      BY <1>3, <1>4, <2>3, <2>4, <3>1, <3>3, <3>4 DEF FilesOfKind
    <3>6. t.todo # {k} => FilesOfKind(r, j)'
      BY <1>3, <1>4, <2>3, <2>4, <3>1, <3>3 DEF FilesOfKind
    <3>7. QED
      BY <3>5, <3>6
  <2>5. CASE j # k
    <3>1. \A p \in Of(j) \cup {Backup(r, j)} : disk'[p] = disk[p]
      BY <1>2, <1>6, <1>7, <2>5, PathsOfRequest, PathsDiffer, KindsApart, Before
    <3>2. ~Live(Idle, j) /\ Idle.pc = "idle"
      BY DEF Live, Idle
    <3>3. t.todo = {k} => FilesOfKind(r, j)'
      <4>1. t.todo = {k} => j \notin t.todo
        BY <2>5
      <4>2. QED
        BY <1>3, <1>4, <2>2, <2>3, <3>1, <3>2, <4>1 DEF FilesOfKind
    <3>4. t.todo # {k} => FilesOfKind(r, j)'
      BY <1>3, <1>4, <2>2, <2>3, <2>5, <3>1 DEF FilesOfKind
    <3>5. QED
      BY <3>3, <3>4
  <2>6. QED
    BY <2>4, <2>5
<1>15. QED
  BY <1>1, <1>3, <1>7, <1>9, <1>12, <1>13, <1>14, FileSteps DEF CallWorks

\* One file has been undone.
LEMMA RollbackKeeps ==
    ASSUME NEW r, Requests = {r}, UploadInv, CaseSensitive, Rollback(r)
    PROVE  UploadInv'
<1> DEFINE t == req[r]
           u == req'[r]
           k == LastKind(t.todo)
           f == Final(r, k)
           removed == Without(disk, {Tmp(r, k)} \cup IF k \in t.applied THEN {f} ELSE {})
           restored == k \in t.backed /\ disk[Backup(r, k)] # NoFile
<1>1. /\ t.pc = "rollback" /\ Finishes(r, k)
      /\ disk' = IF restored
                 THEN [removed EXCEPT ![f] = disk[Backup(r, k)], ![Backup(r, k)] = NoFile]
                 ELSE removed
      /\ UNCHANGED <<row, media, faults, tallies>>
  BY DEF Rollback
<1>2. k \in t.todo /\ k \in FileKinds /\ k \in t.staged /\ Live(t, k)
  BY <1>1, Before, NextKinds DEF Progress, Live
<1>3. /\ u \in Request /\ Becomes(r, u)
      /\ u.pc = "idle" => u = Idle
      /\ t.todo = {k} => u = Idle
      /\ t.todo # {k} => u.pc = "rollback" /\ u.todo = t.todo \ {k} /\ u.copy = t.copy
                         /\ u.staged = t.staged /\ u.applied = t.applied /\ u.backed = t.backed
      /\ Progress(u) /\ CopyHolds(u)
  BY <1>1, <1>2, Finishing
<1>4. row' = row /\ trash' = trash /\ crashes' = crashes
  BY <1>1 DEF tallies
<1>5. /\ f = NameOf(t.copy, k) /\ f \in Of(k) /\ f \in Paths /\ f # Library
      /\ \A j : f # Tmp(r, j) /\ f # Backup(r, j)
      /\ \A j \in FileKinds \ {k} : f \notin Of(j)
  BY <1>1, <1>2, FinalPath DEF Saving
<1>6. /\ removed \in [Paths -> Held]
      /\ \A p \in Paths : removed[p] = IF p = Tmp(r, k) \/ (k \in t.applied /\ p = f)
                                       THEN NoFile ELSE disk[p]
  BY Before, Removals
<1>7. /\ disk' \in [Paths -> Held]
      /\ disk'[Tmp(r, k)] = NoFile
      /\ disk'[f] = IF restored THEN disk[Backup(r, k)]
                    ELSE IF k \in t.applied THEN NoFile ELSE disk[f]
      /\ disk'[Backup(r, k)] = IF restored THEN NoFile ELSE disk[Backup(r, k)]
      /\ \A p \in Paths \ {f, Tmp(r, k), Backup(r, k)} : disk'[p] = disk[p]
  <2>1. /\ Tmp(r, k) \in Paths /\ Backup(r, k) \in Paths /\ Tmp(r, k) # Backup(r, k)
        /\ disk[Backup(r, k)] \in Held /\ NoFile \in Held
    BY <1>2, Before, PathsOfRequest, PathsDiffer DEF Held
  <2>2. CASE restored
    BY <1>1, <1>5, <1>6, <2>1, <2>2
  <2>3. CASE ~restored
    BY <1>1, <1>5, <1>6, <2>1, <2>3
  <2>4. QED
    BY <2>2, <2>3
<1>8. disk'[Library] # NoFile
  <2>1. Library \in Paths \ {f, Tmp(r, k), Backup(r, k)}
    BY <1>2, <1>5, PathsDiffer, PathsOfRequest, Before
  <2>2. QED
    BY <1>7, <2>1, Before
<1>9. ~Live(u, k) /\ \A j \in FileKinds \ {k} : Live(u, j) <=> Live(t, j)
  <2>1. CASE t.todo = {k}
    <3>1. \A j : ~Live(Idle, j)
      BY DEF Live, Idle
    <3>2. QED
      BY <1>1, <1>3, <2>1, <3>1 DEF Live
  <2>2. CASE t.todo # {k}
    BY <1>1, <1>3, <2>2 DEF Live
  <2>3. QED
    BY <2>1, <2>2
<1>10. \A j : Live(u, j) => /\ u.copy = t.copy /\ u.applied = t.applied /\ u.backed = t.backed
                            /\ u.pc = "rollback"
  <2>1. \A j : ~Live(Idle, j)
    BY DEF Live, Idle
  <2>2. QED
    BY <1>3, <2>1
<1>11. AudioAt(r)'
  <2>1. CASE k = "audio"
    <3>1. row # NoRow => row.hash # NoFile
      BY Before DEF RowKept
    <3>2. f = t.copy.path
      BY <1>5, <2>1 DEF NameOf
    <3>3. row # NoRow =>
            \/ row.hash \in trash
            \/ f = row.path /\ "audio" \in t.backed /\ disk[Backup(r, "audio")] = row.hash
            \/ ~(f = row.path /\ "audio" \in t.applied \cup t.backed) /\ disk[row.path] = row.hash
      BY <1>1, <1>2, <2>1, <3>2, Before DEF AudioAt, Saving
    <3>4. row # NoRow /\ row.path # f => disk'[row.path] = disk[row.path]
      BY <1>7, Before, AudioPaths DEF RowKept
    <3>5. row # NoRow => row.hash \in trash \/ disk'[row.path] = row.hash
      BY <1>7, <2>1, <3>1, <3>3, <3>4
    <3>6. QED
      BY <1>4, <1>9, <2>1, <3>5 DEF AudioAt
  <2>2. CASE k = "cover"
    <3>1. /\ \A p \in Of("audio") \cup {Library} : disk'[p] = disk[p]
          /\ disk'[Backup(r, "audio")] = disk[Backup(r, "audio")]
      BY <1>5, <1>7, <2>2, KindsApart, PathsOfRequest, PathsDiffer, Before DEF FileKinds
    <3>2. row # NoRow => disk'[row.path] = disk[row.path]
      BY <3>1, Before, AudioPaths DEF RowKept
    <3>3. Live(u, "audio") <=> Live(t, "audio")
      BY <1>9, <2>2 DEF FileKinds
    <3>4. QED
      BY <1>1, <1>4, <1>10, <3>1, <3>2, <3>3, Before DEF AudioAt, Saving
  <2>3. QED
    BY <1>2, <2>1, <2>2 DEF FileKinds
<1>12. NewFiles(r)'
  BY <1>3 DEF NewFiles, Saving, Idle
<1>13. ASSUME NEW j \in FileKinds, crashes = 0
       PROVE  FilesOfKind(r, j)'
  <2>1. FilesOfKind(r, j)
    BY <1>13, Before
  <2>2. u.pc \notin {"commit", "clean"}
    BY <1>3 DEF Idle
  <2>3. CASE j = k
    <3>1. /\ disk[Backup(r, k)] # NoFile <=> k \in t.backed
          /\ \A p \in Of(k) : disk[p] # NoFile <=>
               (IF p = f /\ k \in t.applied \cup t.backed THEN k \in t.applied
                ELSE p = NameOf(row, k))
          /\ k \in t.backed => f = NameOf(row, k)
          /\ k \in t.applied \ t.backed => f # NameOf(row, k)
      BY <1>1, <1>2, <1>5, <2>1, <2>3 DEF FilesOfKind
    <3>2. \A p \in Of(k) \ {f} : disk'[p] = disk[p]
      BY <1>2, <1>7, PathsOfRequest, PathsDiffer, Before
    <3>3. \A p \in Of(k) \ {f} : disk'[p] # NoFile <=> p = NameOf(row, k)
      BY <3>1, <3>2
    <3>4. disk'[f] # NoFile <=> f = NameOf(row, k)
      BY <1>5, <1>7, <3>1
    <3>5. disk'[Backup(r, k)] = NoFile
      BY <1>7, <3>1
    <3>6. \A p \in Of(k) : disk'[p] # NoFile <=> p = NameOf(row, k)
      BY <3>3, <3>4
    <3>7. disk'[Tmp(r, k)] = NoFile
      BY <1>7
    <3>8. QED
      BY <1>4, <1>9, <2>2, <2>3, <3>5, <3>6, <3>7 DEF FilesOfKind
  <2>4. CASE j # k
    <3>1. \A p \in Of(j) \cup {Tmp(r, j), Backup(r, j)} : disk'[p] = disk[p]
      BY <1>2, <1>5, <1>7, <2>4, PathsOfRequest, PathsDiffer, KindsApart, Before
    <3>2. Live(u, j) <=> Live(t, j)
      BY <1>9, <2>4
    <3>3. CASE Live(t, j)
      BY <1>1, <1>4, <1>10, <2>1, <2>2, <3>1, <3>2, <3>3, OtherKind
    <3>4. CASE ~Live(t, j)
      <4>1. /\ disk[Tmp(r, j)] = NoFile /\ disk[Backup(r, j)] = NoFile
            /\ \A p \in Of(j) : disk[p] # NoFile <=> p = NameOf(row, j)
        BY <1>1, <2>1, <3>4 DEF FilesOfKind
      <4>2. /\ disk'[Tmp(r, j)] = NoFile /\ disk'[Backup(r, j)] = NoFile
            /\ \A p \in Of(j) : disk'[p] # NoFile <=> p = NameOf(row, j)
        BY <3>1, <4>1
      <4>3. QED
        BY <1>4, <2>2, <3>2, <3>4, <4>2 DEF FilesOfKind
    <3>5. QED
      BY <3>3, <3>4
  <2>5. QED
    BY <2>3, <2>4
<1>14. QED
  BY <1>1, <1>3, <1>7, <1>8, <1>11, <1>12, <1>13, FileSteps DEF CallWorks

-----------------------------------------------------------------------------
(* Saving the metadata, deleting the track, and a process that stops.      *)

\* The metadata is saved in the row that was read.
LEMMA MetadataKeeps ==
    ASSUME NEW r, Requests = {r}, UploadInv, SaveMetadata(r)
    PROVE  UploadInv'
<1> DEFINE t == req[r]
<1>1. /\ t.pc = "update" /\ row' = t.copy /\ Becomes(r, Idle) /\ disk' = disk /\ media' = media
      /\ faults' = faults /\ UNCHANGED tallies
  BY DEF SaveMetadata
<1>2. t.staged = {}
  BY <1>1, Before DEF Progress
<1>3. t.copy = row
  <2>1. /\ row = t.read /\ t.copy.hash = t.read.hash
        /\ \A k \in FileKinds : NameOf(t.copy, k) = NameOf(t.read, k)
    BY <1>1, <1>2, Before DEF CopyHolds
  <2>2. t.copy.path = t.read.path /\ t.copy.img = t.read.img
    BY <2>1 DEF NameOf, FileKinds
  <2>3. QED
    BY <2>1, <2>2, Before, Rows
<1>4. UNCHANGED <<row, media, tallies>> /\ row' = row
  BY <1>1, <1>3
<1>5. row # NoRow => row.hash \in trash \/ disk'[row.path] = row.hash
  BY <1>1, <1>2, Before DEF AudioAt, Live
<1>6. ASSUME NEW k \in FileKinds, crashes = 0
      PROVE  /\ disk'[Tmp(r, k)] = NoFile /\ disk'[Backup(r, k)] = NoFile
             /\ \A p \in Of(k) : disk'[p] # NoFile <=> p = NameOf(row, k)
  <2>1. FilesOfKind(r, k)
    BY <1>6, Before
  <2>2. ~Live(t, k)
    BY <1>2 DEF Live
  <2>3. QED
    BY <1>1, <2>1, <2>2 DEF FilesOfKind
<1>7. disk' \in [Paths -> Held] /\ disk'[Library] # NoFile
  BY <1>1, Before
<1>8. QED
  BY <1>1, <1>4, <1>5, <1>6, <1>7, LastSteps DEF CallWorks

\* The row and its rows of media_files are deleted.
LEMMA DeleteKeeps ==
    ASSUME NEW r, Requests = {r}, UploadInv, DeleteRow(r)
    PROVE  UploadInv'
<1> DEFINE t == req[r]
           u == req'[r]
<1>1. /\ t.pc = "delete" /\ row' = NoRow /\ media' = Without(media, DOMAIN media)
      /\ UNCHANGED <<disk, faults, tallies>>
      /\ IF row = NoRow THEN Becomes(r, Idle) ELSE Becomes(r, [t EXCEPT !.pc = "clean"])
  BY DEF DeleteRow
<1>2. t.staged = {}
  BY <1>1, Before DEF Progress
<1>3. /\ u \in Request /\ Becomes(r, u) /\ u.pc \in {"idle", "clean"} /\ u.staged = {}
      /\ u.pc = "idle" => u = Idle /\ row = NoRow
  <2>1. CASE row = NoRow
    <3>1. u = Idle /\ Becomes(r, u)
      BY <1>1, <2>1, Before DEF Becomes
    <3>2. QED
      BY <2>1, <3>1, Rows DEF Idle
  <2>2. CASE row # NoRow
    <3>1. u = [t EXCEPT !.pc = "clean"] /\ Becomes(r, u)
      BY <1>1, <2>2, Before DEF Becomes
    <3>2. QED
      BY <1>2, <2>2, <3>1, Before DEF Request
  <2>3. QED
    BY <2>1, <2>2
<1>4. media' = [p \in Of("audio") |-> NoFile]
  BY <1>1, Before DEF Without, UploadTypes
<1>5. UploadTypes'
  <2>1. media' \in [Of("audio") -> Held]
    BY <1>4 DEF Held
  <2>2. req' \in [Requests -> Request]
    BY <1>3, Before DEF Becomes
  <2>3. QED
    BY <1>1, <2>1, <2>2, Before, Rows DEF UploadTypes, tallies
<1>6. RowKept'
  <2>1. NoRow.path = NoPath
    BY DEF NoRow
  <2>2. NoPath \notin Of("audio")
    BY PathsDiffer DEF Paths, Managed
  <2>3. QED
    BY <1>1, <1>4, <2>1, <2>2 DEF RowKept, MediaOfRow
<1>7. Progress(u) /\ CopyHolds(req[r])'
  BY <1>1, <1>3 DEF Progress, CopyHolds, Saving
<1>8. NewFiles(r)' /\ AudioAt(r)'
  BY <1>1, <1>3 DEF NewFiles, AudioAt, Saving
<1>9. ASSUME NEW k \in FileKinds, crashes = 0
      PROVE  FilesOfKind(r, k)'
  <2>1. FilesOfKind(r, k) /\ ~Live(t, k) /\ ~Live(u, k)
    BY <1>2, <1>3, <1>9, Before DEF Live
  <2>2. CASE u.pc = "clean"
    BY <2>2 DEF FilesOfKind
  <2>3. CASE u.pc = "idle"
    BY <1>1, <1>3, <2>1, <2>3 DEF FilesOfKind
  <2>4. QED
    BY <1>3, <2>2, <2>3
<1>10. RequestKept(r)' /\ disk'[Library] # NoFile /\ (crashes' = 0 => trash' = {})
  BY <1>1, <1>3, <1>7, <1>8, <1>9, Before DEF RequestKept, tallies
<1>11. QED
  BY <1>5, <1>6, <1>10, InvParts

\* The directory of a deleted track has been removed.
LEMMA CleanKeeps ==
    ASSUME NEW r, Requests = {r}, UploadInv, CleanDirectory(r)
    PROVE  UploadInv'
<1>1. /\ req[r].pc = "clean" /\ disk' = Without(disk, Managed \cup Temporary)
      /\ Becomes(r, Idle) /\ UNCHANGED <<row, media, faults, tallies>>
  BY DEF CleanDirectory
<1>2. row = NoRow
  BY <1>1, Before DEF CopyHolds
<1>3. /\ disk' \in [Paths -> Held]
      /\ \A p \in Paths : disk'[p] = IF p \in Managed \cup Temporary THEN NoFile ELSE disk[p]
  BY <1>1, Before, Removals
<1>4. disk'[Library] # NoFile
  <2>1. Library \in Paths /\ Library \notin Managed
    BY PathsDiffer DEF Paths
  <2>2. \A q \in Requests, k \in FileKinds : Tmp(q, k) # Library /\ Backup(q, k) # Library
    BY PathsDiffer
  <2>3. Library \notin Temporary
    BY <2>2 DEF Temporary
  <2>4. QED
    BY <1>3, <2>1, <2>3, Before
<1>5. ASSUME NEW k \in FileKinds
      PROVE  /\ disk'[Tmp(r, k)] = NoFile /\ disk'[Backup(r, k)] = NoFile
             /\ \A p \in Of(k) : disk'[p] # NoFile <=> p = NameOf(row, k)
  <2>1. Tmp(r, k) \in Temporary /\ Backup(r, k) \in Temporary
    BY <1>5, Before DEF Temporary
  <2>2. \A p \in Of(k) \cup {Tmp(r, k), Backup(r, k)} : disk'[p] = NoFile
    BY <1>3, <1>5, <2>1, PathsOfRequest, Before
  <2>3. NameOf(row, k) = NoPath
    BY <1>2 DEF NameOf, NoRow
  <2>4. NoPath \notin Of(k)
    BY <1>5, PathsOfRequest, PathsDiffer, Before
  <2>5. QED
    BY <2>2, <2>3, <2>4
<1>6. QED
  BY <1>1, <1>2, <1>3, <1>4, <1>5, LastSteps DEF CallWorks

\* The process has stopped: what was temporary is in nobody's hands.
LEMMA CrashKeeps ==
    ASSUME NEW r, Requests = {r}, UploadInv, Crash
    PROVE  UploadInv'
<1>1. /\ crashes < MaxCrashes /\ crashes' = crashes + 1
      /\ trash' = trash \cup ({disk[p] : p \in Temporary} \ {NoFile})
      /\ disk' = Without(disk, Temporary)
      /\ req' = [q \in Requests |-> Idle]
      /\ UNCHANGED <<row, media, served, faults>>
  BY DEF Crash
<1>2. /\ disk' \in [Paths -> Held]
      /\ \A p \in Paths : disk'[p] = IF p \in Temporary THEN NoFile ELSE disk[p]
  BY <1>1, Before, Removals
<1>3. req'[r] = Idle
  BY <1>1, Before
<1>4. Temporary \subseteq Paths
  BY DEF Paths
<1>5. crashes \in 0..MaxCrashes /\ crashes' \in 0..MaxCrashes /\ crashes' # 0
  BY <1>1, Before, UploadConstants DEF UploadTypes
<1>6. UploadTypes'
  <2>1. trash' \subseteq Contents
    BY <1>1, <1>4, Before DEF UploadTypes, Held
  <2>2. req' \in [Requests -> Request]
    BY <1>1, Rows
  <2>3. QED
    BY <1>1, <1>2, <1>5, <2>1, <2>2, Before DEF UploadTypes, Paths
<1>7. RowKept'
  BY <1>1, Before DEF RowKept, MediaOfRow
<1>8. \A p \in Managed \cup {Library} : p \notin Temporary
  BY PathsDiffer DEF Temporary
<1>9. disk'[Library] # NoFile
  BY <1>2, <1>8, Before DEF Paths
<1>10. Progress(Idle) /\ CopyHolds(Idle)' /\ NewFiles(r)'
  BY <1>3 DEF Progress, CopyHolds, NewFiles, Idle, Saving
<1>11. AudioAt(r)'
  <2>1. ASSUME row # NoRow
        PROVE  row.hash \in trash' \/ disk'[row.path] = row.hash
    <3>1. row.path \in Paths /\ row.path \notin Temporary /\ row.hash # NoFile
      BY <2>1, Before, AudioPaths DEF RowKept, Temporary
    <3>2. Backup(r, "audio") \in Temporary
      BY Before DEF Temporary, FileKinds
    <3>3. row.hash \in trash \/ disk[Backup(r, "audio")] = row.hash \/ disk[row.path] = row.hash
      BY <2>1, Before DEF AudioAt
    <3>4. QED
      BY <1>1, <1>2, <3>1, <3>2, <3>3
  <2>2. Idle.pc \notin Saving
    BY DEF Idle, Saving
  <2>3. QED
    BY <1>1, <1>3, <2>1, <2>2 DEF AudioAt
<1>12. RequestKept(r)'
  BY <1>3, <1>5, <1>10, <1>11 DEF RequestKept
<1>13. QED
  BY <1>5, <1>6, <1>7, <1>9, <1>12, InvParts

-----------------------------------------------------------------------------
(* The theorems.                                                           *)

\* The first state has one complete file for each path of the row.
LEMMA UploadBegins ==
    ASSUME OneAtATime, CaseSensitive, UploadInit
    PROVE  UploadInv
<1>1. PICK r : Requests = {r}
  BY DEF OneAtATime
<1>2. PICK c \in Contents, p \in {Library} \cup Of("audio"), i \in {NoPath, Cover} :
        /\ row = [path |-> p, hash |-> c, img |-> i]
        /\ disk = [q \in Managed \cup Temporary \cup {Library} |->
                     IF q \in {OnDisk(p), i, Library} THEN c ELSE NoFile]
        /\ media = [q \in Of("audio") |-> IF q = p THEN c ELSE NoFile]
        /\ trash = {} /\ req = [q \in Requests |-> Idle]
        /\ served = 0 /\ faults = 0 /\ crashes = 0
  BY DEF UploadInit
<1>3. c # NoFile /\ c \in Held
  BY UploadConstants DEF Held
<1>4. OnDisk(p) = p /\ p \in Paths /\ p # NoPath /\ p # Cover
  <2>1. Of("audio") \subseteq Managed
    BY DEF Managed
  <2>2. p \in Managed \cup {Library}
    BY <2>1
  <2>3. Library # Cover
    BY DEF Library, Cover
  <2>4. QED
    BY <2>2, <2>3, OnDiskSame, PathsDiffer DEF Paths
<1>5. disk = [q \in Paths |-> IF q \in {p, i, Library} THEN c ELSE NoFile]
  BY <1>2, <1>4 DEF Paths
<1>6. req[r] = Idle /\ \A k : ~Live(Idle, k)
  BY <1>1, <1>2 DEF Live, Idle
<1>7. UploadTypes
  <2>1. disk \in [Paths -> Held]
    BY <1>3, <1>5 DEF Held
  <2>2. row \in Row
    BY <1>2, <1>3 DEF Row
  <2>3. media \in [Of("audio") -> Held]
    BY <1>2, <1>3 DEF Held
  <2>4. req \in [Requests -> Request]
    BY <1>2, Rows
  <2>5. served \in 0..MaxRequests /\ faults \in 0..MaxFaults /\ crashes \in 0..MaxCrashes
    BY <1>2, UploadConstants
  <2>6. QED
    BY <1>2, <2>1, <2>2, <2>3, <2>4, <2>5 DEF UploadTypes, Paths
<1>8. RowKept
  BY <1>2, <1>3, <1>4 DEF RowKept, MediaOfRow, NoRow
<1>9. disk[Library] # NoFile
  BY <1>3, <1>5 DEF Paths
<1>10. disk[p] = c
  BY <1>4, <1>5
<1>11. Progress(Idle) /\ CopyHolds(Idle) /\ NewFiles(r) /\ AudioAt(r)
  BY <1>2, <1>6, <1>10 DEF Progress, CopyHolds, NewFiles, AudioAt, Idle, Saving
<1>12. ASSUME NEW k \in FileKinds
       PROVE  FilesOfKind(r, k)
  <2>1. \A q \in Paths : disk[q] # NoFile <=> q \in {p, i, Library}
    BY <1>3, <1>5
  <2>2. p \in Of("audio") \cup {Library} /\ i \in {NoPath, Cover}
    BY <1>2
  <2>3. /\ disk[Tmp(r, k)] = NoFile /\ disk[Backup(r, k)] = NoFile
    <3>1. Of("audio") \subseteq Managed /\ Cover \in Managed
      BY DEF Managed, Of
    <3>2. r \in Requests /\ Tmp(r, k) \in Paths /\ Backup(r, k) \in Paths
      BY <1>1, <1>12, PathsOfRequest
    <3>3. /\ Tmp(r, k) \notin Managed /\ Tmp(r, k) # Library /\ Tmp(r, k) # NoPath
          /\ Backup(r, k) \notin Managed /\ Backup(r, k) # Library /\ Backup(r, k) # NoPath
      BY <3>2, PathsDiffer
    <3>4. QED
      BY <2>1, <2>2, <3>1, <3>2, <3>3
  <2>4. \A q \in Of(k) : disk[q] # NoFile <=> q = NameOf(row, k)
    <3>1. \A q \in Of(k) : q \in Paths /\ q # Library /\ q # NoPath
      BY <1>1, <1>12, PathsOfRequest, PathsDiffer
    <3>2. CASE k = "audio"
      <4>1. NameOf(row, k) = p /\ \A q \in Of(k) : q # Cover
        BY <1>2, <3>2, PathsDiffer DEF NameOf
      <4>2. QED
        BY <2>1, <2>2, <3>1, <4>1
    <3>3. CASE k = "cover"
      <4>1. NameOf(row, k) = i /\ \A q \in Of(k) : q # p
        BY <1>2, <1>4, <3>3 DEF NameOf, Of
      <4>2. QED
        BY <2>1, <2>2, <3>1, <4>1
    <3>4. QED
      BY <1>12, <3>2, <3>3 DEF FileKinds
  <2>5. Idle.pc = "idle"
    BY DEF Idle
  <2>6. QED
    BY <1>6, <2>3, <2>4, <2>5 DEF FilesOfKind
<1>13. RequestKept(r)
  BY <1>6, <1>11, <1>12 DEF RequestKept
<1>14. QED
  BY <1>1, <1>2, <1>7, <1>8, <1>9, <1>13, InvParts

\* Every step keeps the invariant.
THEOREM UploadInvInductive ==
    ASSUME OneAtATime, CaseSensitive
    PROVE  UploadInv /\ [UploadNext]_uploadVars => UploadInv'
<1> SUFFICES ASSUME UploadInv, [UploadNext]_uploadVars
             PROVE  UploadInv'
  OBVIOUS
<1>1. PICK r : Requests = {r}
  BY DEF OneAtATime
<1>2. CASE UNCHANGED uploadVars
  <2>1. UNCHANGED <<disk, trash, row, media, req, served, faults, crashes>>
    BY <1>2 DEF uploadVars
  <2>2. RequestKept(r)'
    <3>1. RequestKept(r)
      BY <1>1, InvParts
    <3>2. QED
      BY <2>1, <3>1 DEF RequestKept, Progress, CopyHolds, NewFiles, AudioAt, FilesOfKind, Live
  <2>3. UploadTypes' /\ RowKept'
    BY <1>1, <2>1, InvParts DEF UploadTypes, RowKept, MediaOfRow
  <2>4. QED
    BY <1>1, <2>1, <2>2, <2>3, InvParts
<1>3. CASE BeginUpload(r)
  <2>1. PICK kinds \in (SUBSET FileKinds) \ {{}} : Begin(r, "stage", kinds)
    BY <1>3 DEF BeginUpload
  <2>2. kinds \in SUBSET FileKinds /\ kinds # {}
    OBVIOUS
  <2>3. QED
    BY <1>1, <2>1, <2>2, BeginKeeps
<1>4. CASE Begin(r, "update", {}) \/ Begin(r, "delete", {})
  BY <1>1, <1>4, BeginKeeps
<1>5. CASE Stage(r)
  <2> DEFINE k == FirstKind(req[r].todo)
  <2>1. k \in req[r].todo
    BY <1>1, <1>5, Before, NextKinds DEF Stage, Progress
  <2>2. CASE CallFails /\ disk' = Without(disk, {Tmp(r, q) : q \in FileKinds}) /\ Becomes(r, Idle)
    BY <1>1, <1>5, <2>2, StageFailsKeeps DEF Stage
  <2>3. CASE CallWorks /\ \E c \in Contents, p \in Of(k) :
               /\ disk' = [disk EXCEPT ![Tmp(r, k)] = c]
               /\ Becomes(r, [req[r] EXCEPT
                    !.staged = req[r].staged \cup {k}, !.copy = Naming(@, k, p, c),
                    !.todo = IF req[r].todo = {k} THEN req[r].staged \cup {k} ELSE @ \ {k},
                    !.pc = IF req[r].todo = {k} THEN "backup" ELSE "stage"])
    <3>1. PICK c \in Contents, p \in Of(k) :
               /\ disk' = [disk EXCEPT ![Tmp(r, k)] = c]
               /\ Becomes(r, [req[r] EXCEPT
                    !.staged = req[r].staged \cup {k}, !.copy = Naming(@, k, p, c),
                    !.todo = IF req[r].todo = {k} THEN req[r].staged \cup {k} ELSE @ \ {k},
                    !.pc = IF req[r].todo = {k} THEN "backup" ELSE "stage"])
      BY <2>3
    <3>2. req[r].pc = "stage" /\ UNCHANGED <<row, media, faults, tallies>>
      BY <1>5, <2>3 DEF Stage, CallWorks
    <3>3. QED
      BY <1>1, <2>1, <3>1, <3>2, StagedKeeps DEF Becomes
  <2>4. QED
    BY <1>5, <2>2, <2>3 DEF Stage
<1>6. CASE BackupExisting(r)
  <2>1. \/ CallFails /\ RollsBack(r, req[r]) /\ UNCHANGED disk
        \/ CallWorks
    BY <1>6 DEF BackupExisting
  <2>2. CASE CallFails /\ RollsBack(r, req[r]) /\ UNCHANGED disk
    BY <1>1, <1>6, <2>2, RollsBackKeeps DEF BackupExisting
  <2>3. CASE CallWorks /\ disk[Final(r, FirstKind(req[r].todo))] = NoFile
             /\ Becomes(r, [req[r] EXCEPT !.pc = "place"]) /\ UNCHANGED disk
    BY <1>1, <1>6, <2>3, BackupNothing DEF BackupExisting
  <2>4. CASE CallWorks /\ disk[Final(r, FirstKind(req[r].todo))] # NoFile
             /\ disk' = Moved(Final(r, FirstKind(req[r].todo)),
                              Backup(r, FirstKind(req[r].todo)))
             /\ Becomes(r, [req[r] EXCEPT !.pc = "place",
                              !.backed = @ \cup {FirstKind(req[r].todo)}])
    BY <1>1, <1>6, <2>4, BackupMoves DEF BackupExisting
  <2>5. QED
    BY <1>6, <2>2, <2>3, <2>4 DEF BackupExisting
<1>7. CASE Place(r)
  <2> DEFINE k == FirstKind(req[r].todo)
  <2>1. CASE CallWorks /\ disk[Tmp(r, k)] # NoFile /\ disk' = Moved(Tmp(r, k), Final(r, k))
             /\ Becomes(r, [req[r] EXCEPT !.applied = @ \cup {k}, !.todo = @ \ {k},
                  !.pc = IF req[r].todo = {k} THEN "persist" ELSE "backup"])
    BY <1>1, <1>7, <2>1, PlaceKeeps DEF Place
  <2>2. CASE /\ IF disk[Tmp(r, k)] = NoFile THEN CallWorks ELSE CallFails
             /\ disk' = IF k \in req[r].backed /\ disk[Backup(r, k)] # NoFile
                        THEN Moved(Backup(r, k), Final(r, k)) ELSE disk
             /\ RollsBack(r, [req[r] EXCEPT !.backed = @ \ {k}])
    BY <1>1, <1>7, <2>2, PlaceFailsKeeps DEF Place
  <2>3. QED
    BY <1>7, <2>1, <2>2 DEF Place
<1>8. CASE Persist(r)
  <2>1. CASE /\ CallWorks /\ row' = req[r].copy
             /\ media' = IF HasAudio(req[r])
                         THEN [p \in DOMAIN media |->
                                 IF p = req[r].copy.path THEN req[r].copy.hash ELSE NoFile]
                         ELSE media
             /\ Becomes(r, [req[r] EXCEPT !.pc = "commit", !.todo = req[r].staged])
    BY <1>1, <1>8, <2>1, PersistKeeps DEF Persist, CallWorks, tallies
  <2>2. CASE (CallWorks \/ CallFails) /\ RollsBack(r, req[r]) /\ UNCHANGED <<row, media>>
    BY <1>1, <1>8, <2>2, RollsBackKeeps DEF Persist
  <2>3. QED
    BY <1>8, <2>1, <2>2 DEF Persist
<1>9. CASE Commit(r) \/ Rollback(r)
  BY <1>1, <1>9, CommitKeeps, RollbackKeeps
<1>10. CASE SaveMetadata(r) \/ DeleteRow(r) \/ CleanDirectory(r)
  BY <1>1, <1>10, MetadataKeeps, DeleteKeeps, CleanKeeps
<1>11. CASE Crash
  BY <1>1, <1>11, CrashKeeps
<1>12. QED
  BY <1>1, <1>2, <1>3, <1>4, <1>5, <1>6, <1>7, <1>8, <1>9, <1>10, <1>11 DEF UploadNext

\* What is kept of the files is what the invariant says of them when the
\* request is done.
LEMMA InvKeepsFiles ==
    ASSUME OneAtATime, CaseSensitive, UploadInv
    PROVE  FilesKept
<1>1. PICK r : Requests = {r}
  BY DEF OneAtATime
<1>2. AudioSurvives
  <2>1. ASSUME row # NoRow
        PROVE  row.hash \in trash \cup {disk[p] : p \in DOMAIN disk}
    <3>1. row.hash \in trash \/ disk[Backup(r, "audio")] = row.hash \/ disk[row.path] = row.hash
      BY <1>1, <2>1, Before DEF AudioAt
    <3>2. Backup(r, "audio") \in DOMAIN disk
      BY <1>1, Before, PathsOfRequest DEF FileKinds
    <3>3. row.path \in DOMAIN disk
      BY <1>1, <2>1, Before, AudioPaths DEF RowKept
    <3>4. QED
      BY <3>1, <3>2, <3>3
  <2>2. QED
    BY <2>1 DEF AudioSurvives
<1>3. ASSUME crashes = 0, \A q \in Requests : req[q] = Idle
      PROVE  /\ \A p \in Managed \cup Temporary : disk[p] # NoFile <=> p \in {OnDisk(row.path), row.img}
             /\ row.path \in Managed => disk[OnDisk(row.path)] = row.hash
             /\ \A p \in Of("audio") : media[p] = IF p = row.path THEN row.hash ELSE NoFile
             /\ disk[Library] # NoFile
  <2>1. req[r] = Idle /\ Idle.pc = "idle" /\ \A k : ~Live(Idle, k)
    BY <1>1, <1>3 DEF Idle, Live
  <2>2. ASSUME NEW k \in FileKinds
        PROVE  /\ disk[Tmp(r, k)] = NoFile /\ disk[Backup(r, k)] = NoFile
               /\ \A p \in Of(k) : disk[p] # NoFile <=> p = NameOf(row, k)
    <3>1. FilesOfKind(r, k)
      BY <1>1, <1>3, <2>2, Before
    <3>2. QED
      BY <2>1, <3>1 DEF FilesOfKind
  <2>3. row \in Row
    BY <1>1, Before
  <2>4. OnDisk(row.path) = row.path
    <3>1. row.path \in Of("audio") \cup {Library, NoPath}
      BY <2>3 DEF Row
    <3>2. Of("audio") \subseteq Managed
      BY DEF Managed
    <3>3. QED
      BY <3>1, <3>2, OnDiskSame
  <2>5. \A p \in Of("audio") : disk[p] # NoFile <=> p \in {row.path, row.img}
    <3>1. \A p \in Of("audio") : p # Cover /\ p # NoPath
      BY PathsDiffer DEF Paths, Managed
    <3>2. row.img \in {Cover, NoPath}
      BY <2>3 DEF Row
    <3>3. QED
      BY <2>2, <3>1, <3>2 DEF NameOf, FileKinds
  <2>6. disk[Cover] # NoFile <=> Cover \in {row.path, row.img}
    <3>1. row.path # Cover
      <4>1. row.path \in Of("audio") \cup {Library, NoPath}
        BY <2>3 DEF Row
      <4>2. Library # Cover /\ NoPath # Cover
        BY DEF Library, Cover, NoPath
      <4>3. QED
        BY <4>1, <4>2, PathsDiffer
    <3>2. QED
      BY <2>2, <3>1 DEF NameOf, FileKinds, Of
  <2>7. ASSUME NEW p \in Temporary
        PROVE  disk[p] = NoFile /\ p \notin {row.path, row.img}
    <3>1. PICK k \in FileKinds : p = Tmp(r, k) \/ p = Backup(r, k)
      BY <1>1, <2>7 DEF Temporary
    <3>2. p \notin Managed /\ p # Library /\ p # NoPath
      <4>1. p \in Paths
        BY <2>7 DEF Paths
      <4>2. QED
        BY <3>1, <4>1, PathsDiffer
    <3>3. row.path \in Managed \cup {Library, NoPath} /\ row.img \in Managed \cup {NoPath}
      BY <2>3 DEF Row, Managed, Of
    <3>4. QED
      BY <2>2, <3>1, <3>2, <3>3
  <2>8. \A p \in Managed \cup Temporary : disk[p] # NoFile <=> p \in {OnDisk(row.path), row.img}
    BY <2>4, <2>5, <2>6, <2>7 DEF Managed, Of
  <2>9. row.path \in Managed => disk[OnDisk(row.path)] = row.hash
    <3>1. ASSUME row.path \in Managed
          PROVE  row # NoRow
      BY <3>1, PathsDiffer DEF NoRow, Paths
    <3>2. row # NoRow => disk[row.path] = row.hash
      BY <1>1, <1>3, <2>1, Before DEF AudioAt
    <3>3. QED
      BY <2>4, <3>1, <3>2
  <2>10. QED
    BY <1>1, <2>8, <2>9, Before DEF RowKept, MediaOfRow
<1>4. FilesMatchRow
  BY <1>3 DEF FilesMatchRow
<1>5. QED
  BY <1>1, <1>2, <1>4, Before DEF FilesKept

\* Uploads, changes of the metadata and deletes of one track, one at a time and
\* on a file system that tells extensions apart, keep the files that the rows
\* name, whatever call fails and wherever the process stops.
THEOREM FilesAreKept ==
    ASSUME OneAtATime, CaseSensitive
    PROVE  UploadSpec => []FilesKept
<1>1. UploadInit => UploadInv
  BY UploadBegins
<1>2. UploadInv /\ [UploadNext]_uploadVars => UploadInv'
  BY UploadInvInductive
<1>3. UploadInv => FilesKept
  BY InvKeepsFiles
<1>4. QED
  BY <1>1, <1>2, <1>3, PTL DEF UploadSpec

=============================================================================
