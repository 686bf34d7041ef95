----------------------------- MODULE LegacyUpgrade -----------------------------
(***************************************************************************)
(* What the migrations do to the rows of an old installation: the hashes   *)
(* of files (version 2), the merge of the old tags into the tracks (3),    *)
(* and the physical sources and scans (5).  Each is one transaction; how   *)
(* they are ordered and retried is Migrations.                             *)
(*                                                                         *)
(* title stands for title and artist, text for the scalars that are merely *)
(* filled, and letters are of one case.  A path in Managed is below the    *)
(* upload directory; the source of a file is its root and relative path.   *)
(***************************************************************************)
EXTENDS Naturals, FiniteSets, SequencesExt, FiniteSetsExt

CONSTANTS
    Databases, \* old installations: records of version, tracks, tags and scans
    Managed,   \* paths below the upload directory
    Readable,  \* paths whose file can be read
    ValidIDs   \* well-formed MusicBrainz identifiers

VARIABLES
    version, \* highest migration applied
    tracks,  \* rows of vinyl by id
    tags,    \* rows of music_tags by id
    archive, \* rows of legacy_music_tags_v1; no row, no table
    scans,   \* rows of media_scan_jobs by id
    files,   \* rows of media_files by source key
    start    \* the old installation

vars == <<version, tracks, tags, archive, scans, files, start>>

None == ""
NoKey == <<>>
Filled == {"genre", "text", "recording"}
Live == {i \in DOMAIN tracks : ~tracks[i].deleted}

-----------------------------------------------------------------------------
(* Version 2                                                               *)

\* A file that cannot be read is passed over; the content of a file is named
\* by its path.
FileHashes ==
    LET lacks(t) == ~t.deleted /\ t.hash = None /\ t.path \in Readable IN
    /\ version = 1 /\ version' = 2
    /\ tracks' = [i \in DOMAIN tracks |->
                    IF lacks(tracks[i]) THEN [tracks[i] EXCEPT !.hash = tracks[i].path] ELSE tracks[i]]
    /\ UNCHANGED <<tags, archive, scans, files, start>>

-----------------------------------------------------------------------------
(* Version 3                                                               *)

Matches(ts, tag) ==
    {i \in DOMAIN ts : ts[i].title = tag.title /\ tag.album \in {None, ts[i].album}}

\* findUnambiguousLegacyTagTarget, deleted tracks included.
Target(ts, tag) ==
    LET found == Matches(ts, tag) IN IF Cardinality(found) = 1 THEN found ELSE {}

\* mergeLegacyMusicTag: only what is blank.
Merged(track, tag) ==
    [track EXCEPT !.album = IF @ = None THEN tag.album ELSE @,
                  !.genre = IF @ = None THEN tag.genre ELSE @,
                  !.text = IF @ = None THEN tag.text ELSE @,
                  !.recording = IF @ = None /\ tag.recording \in ValidIDs THEN tag.recording ELSE @]

MergeTag(ts, tag) ==
    [i \in DOMAIN ts |-> IF ~tag.deleted /\ i \in Target(ts, tag) THEN Merged(ts[i], tag) ELSE ts[i]]

\* unifyMusicMetadata; the tags come in no particular order.  The table is
\* renamed, or dropped when it is empty.
UnifyMetadata ==
    /\ version = 2 /\ version' = 3
    /\ \E order \in SetToSeqs(DOMAIN tags) :
         tracks' = FoldSeq(LAMBDA k, ts : MergeTag(ts, tags[k]), tracks, order)
    /\ archive' = tags /\ tags' = <<>>
    /\ UNCHANGED <<scans, files, start>>

\* Version 4 adds tables and columns only.
AddMediaLibraries ==
    /\ version = 3 /\ version' = 4
    /\ UNCHANGED <<tracks, tags, archive, scans, files, start>>

-----------------------------------------------------------------------------
(* Version 5                                                               *)

Active == {"pending", "running", "retry_wait"}
ActiveOf(sc, root) == {j \in DOMAIN sc : sc[j].root = root /\ sc[j].status \in Active}

\* The first one in the order of descending ids.
Kept(root) == {j \in ActiveOf(scans, root) : \A i \in ActiveOf(scans, root) : i <= j}

\* retireDuplicateActiveScans
RetireScans ==
    scans' = [j \in DOMAIN scans |->
                IF scans[j].status \in Active /\ j \notin Kept(scans[j].root)
                THEN [scans[j] EXCEPT !.status = "failed"] ELSE scans[j]]

\* The source of a track: what a scan recorded, or a path below the upload
\* directory; others are left to their direct path.
Sourced(t) == ~t.deleted /\ (t.relative # None \/ (t.root = 0 /\ t.path \in Managed))
Relative(t) == IF t.relative # None THEN t.relative ELSE t.path
SourceKey(t) == IF t.key # NoKey THEN t.key ELSE <<t.root, Relative(t)>>

\* Mutation: every track of a file records its provenance.
RecordsAlways(i, owner) == TRUE

\* Only the track whose file it is.
RecordsProvenance(i, owner) == i = owner

\* backfillMediaFiles: the first row with a source owns it, and rows come in
\* no particular order.
BackfillFiles ==
    LET sourced == {i \in Live : Sourced(tracks[i])}
        keyOf == [i \in sourced |-> SourceKey(tracks[i])]
        keys == {keyOf[i] : i \in sourced}
    IN  \E owner \in [keys -> sourced] :
          /\ \A k \in keys : keyOf[owner[k]] = k
          /\ files' = [k \in keys |->
                         [music |-> owner[k], relative |-> Relative(tracks[owner[k]]),
                          hash |-> tracks[owner[k]].hash]]
          /\ tracks' = [i \in DOMAIN tracks |->
                          IF i \in sourced /\ RecordsProvenance(i, owner[keyOf[i]])
                          THEN [tracks[i] EXCEPT !.relative = Relative(tracks[i]), !.key = keyOf[i]]
                          ELSE tracks[i]]

StabilizeStorage ==
    /\ version = 4 /\ version' = 5
    /\ RetireScans /\ BackfillFiles
    /\ UNCHANGED <<tags, archive, start>>

-----------------------------------------------------------------------------
Init ==
    /\ start \in Databases
    /\ version = start.version /\ tracks = start.tracks
    /\ tags = start.tags /\ scans = start.scans
    /\ archive = <<>> /\ files = <<>>

Next == FileHashes \/ UnifyMetadata \/ AddMediaLibraries \/ StabilizeStorage

Spec == Init /\ [][Next]_vars

-----------------------------------------------------------------------------
Old == start.tracks

\* What the tags that belong to this track alone say.
Offers(i, f) ==
    {x \in {start.tags[k][f] : k \in {n \in DOMAIN start.tags :
               ~start.tags[n].deleted /\ Matches(Old, start.tags[n]) = {i}}} :
       x # None /\ (f = "recording" => x \in ValidIDs)}

\* The merge changes no value, and fills a blank exactly when a tag that
\* belongs to this track alone has a value for it, with such a value ("rows
\* that cannot be assigned are neither guessed nor dropped", Readme.md:640).
TagsFillBlanks ==
    version >= 3 /\ start.version < 3 =>
      /\ archive = start.tags
      /\ \A i \in DOMAIN tracks :
           /\ tracks[i].album = Old[i].album
           /\ \A f \in Filled :
                IF Old[i][f] # None \/ Offers(i, f) = {} THEN tracks[i][f] = Old[i][f]
                ELSE tracks[i][f] \in Offers(i, f)

\* Every root that had unfinished scans keeps the newest of them, and no other
\* scan changes (retireDuplicateActiveScans).
NewestScanKept ==
    version = 5 =>
      \A j \in DOMAIN scans :
        LET newer == {i \in ActiveOf(start.scans, scans[j].root) : i > j}
        IN  scans[j].status = IF start.scans[j].status \in Active /\ newer # {}
                              THEN "failed" ELSE start.scans[j].status

\* A track that names a source owns its file; one whose audio has a source
\* shares it at least with the owner; and a file is the audio of its owner
\* (backfillMediaFiles: a row that was valid must not point elsewhere).
SourcesOwned ==
    version = 5 =>
      /\ \A i \in Live : tracks[i].key # NoKey =>
           tracks[i].key \in DOMAIN files /\ files[tracks[i].key].music = i
      /\ \A i \in Live : Sourced(Old[i]) => SourceKey(tracks[i]) \in DOMAIN files
      /\ \A k \in DOMAIN files : LET t == Old[files[k].music] IN
           /\ k = SourceKey(t) /\ files[k].relative = Relative(t)
           /\ files[k].hash \in {t.hash, t.path}
===============================================================================
