------------------------------ MODULE MCRecords ------------------------------
(***************************************************************************)
(* What is stored, on small instances: the records of tracks (Uploads,     *)
(* Playlists, TrackMetadata, Browse), their upgrade (LegacyUpgrade), and   *)
(* the roots of the media library (MediaRoots, MediaProbe).  The models    *)
(* share no state, so every behaviour is one of one of them: "part" says   *)
(* of which one; the variables of the others stay "off", and those of the  *)
(* modules that this one extends stay as they are in one initial state.    *)
(* Each property includes the type invariant of its model, if it has one.  *)
(***************************************************************************)
EXTENDS MediaRoots, MediaProbe, Uploads, TLC

CONSTANTS mp3, flac, c1, c2, c3, r1, r2, m1, m2, m3

VARIABLES
    part,
    users, musics, revision, items, likes, tx, asked,      \* Playlists
    metadata, edition, incoming,                           \* TrackMetadata
    vinyl, credits, albums, facets,                        \* Browse
    version, tracks, tags, archive, passes, copies, start  \* LegacyUpgrade

-----------------------------------------------------------------------------
\* Uploads: requests one at a time, a call that fails and a crash.
CaseKept == [e \in {mp3, flac} |-> e]

\* Tracks 1 and 2 and list 11 belong to user 1, track 3 and list 12 to user 2.
Belongs(x) == IF x \in {3, 12} THEN 2 ELSE 1
AllOps == {"create", "rename", "add", "remove", "reorder", "delete", "music", "user", "like"}

\* SQLite: one request at a time.
Serial == INSTANCE Playlists WITH
    Lists <- {11, 12}, Users <- 1..2, Musics <- 1..3, Owner <- [x \in {11, 12, 1, 2, 3} |-> Belongs(x)],
    Requests <- {r1}, MaxPlaylistItems <- 2, Ops <- AllOps, MaxRequests <- 4, served <- asked

\* PostgreSQL: two transactions at once; no track is deleted.
Concurrent == INSTANCE Playlists WITH
    Lists <- {11}, Users <- 1..2, Musics <- 1..4, Owner <- [x \in {11, 1, 2, 3, 4} |-> Belongs(x)],
    Requests <- {r1, r2}, MaxPlaylistItems <- 3, Ops <- AllOps \ {"music", "user", "like"},
    MaxRequests <- 3, served <- asked

-----------------------------------------------------------------------------
\* Texts are sequences of words; tracks differ in the credited artists, or in
\* numbers, dates and genres.
A == <<"a">>
B == <<"b">>
AB == <<"a", "b">>
W == <<"a ">> \* "a" with too much white space
Lists == {<<>>, <<A>>, <<B, A, B, AB>>}

Raw(artist, artists, albumArtist, albumArtists) ==
    [artist |-> artist, artists |-> artists, albumArtist |-> albumArtist,
     albumArtists |-> albumArtists, year |-> 0, release |-> 0, number |-> 0,
     total |-> 0, genre |-> <<>>, genres |-> <<>>, comment |-> 0]
Credited == {Raw(x, xs, y, ys) : x \in {A, B, W}, xs \in Lists \cup {<<W, A>>},
                                   y \in {<<>>, A, AB, W}, ys \in Lists}
Numbered == {[Raw(A, <<>>, <<>>, <<>>) EXCEPT !.year = v[1], !.release = v[2], !.number = v[3],
                                              !.total = v[4], !.genre = v[5], !.genres = v[6]] :
               v \in {0, 1999} \X {0, 500, 2000} \X {0, 2} \X {0, 1, 2} \X {<<>>, A} \X {<<>>, <<A, B>>}}
RawTracks == Credited \cup Numbered
Patches ==
    {("artist" :> x) : x \in {A, B}} \cup {("artists" :> x) : x \in Lists}
    \cup {("albumArtist" :> x) : x \in {<<>>, AB}} \cup {("albumArtists" :> x) : x \in Lists}
    \cup {("genre" :> x) : x \in {<<>>, B}} \cup {("year" :> x) : x \in {0, 1999}}
    \cup {("comment" :> 1), ("release" :> 500), ("artist" :> W), ("total" :> 2), ("number" :> 1) @@ ("total" :> 1)}

Texts == INSTANCE TrackMetadata WITH
    Loose <- {"a "}, Tight <- [w \in {"a "} |-> "a"], MaxWords <- 2, MaxRevision <- 2, row <- metadata, revision <- edition

-----------------------------------------------------------------------------
\* Names in two spellings, stable IDs on some of the tracks, several artists,
\* and a genre with an alias.
Blank == "blank"
NoId == "no id"
Spelling == [t \in {"Ana", "ana", "Ben", "Ana; Ben", "First", "first", "DnB", "dnb", "drum and bass"} |->
           CASE t = "Ana" -> "ana" [] t = "First" -> "first" [] t = "DnB" -> "dnb" [] OTHER -> t]
Alias == [dnb |-> "drum and bass"]
Rank == ("id1" :> 1) @@ ("id2" :> 2) @@ ("Ben" :> 1) @@ ("ana" :> 2) @@ ("Ana; Ben" :> 3)

Track(artist, artists, ids, aa, aas, aids, album, release, genres, cover, duration) ==
    [artist |-> artist, artists |-> artists, artistIds |-> ids, albumArtist |-> aa, albumArtists |-> aas,
     albumArtistIds |-> aids, album |-> album, release |-> release, genres |-> genres, cover |-> cover,
     duration |-> duration]
Ana == <<"Ana">>
Tracks ==
    {Track("Ana", Ana, <<>>, Blank, <<>>, <<>>, "First", NoId, <<"DnB">>, TRUE, 1),
     Track("ana", <<"ana">>, <<>>, "Ana", Ana, <<>>, "first", NoId, <<"dnb", "DnB">>, FALSE, 2),
     Track("Ana", Ana, <<"id1">>, "ana", <<"ana">>, <<>>, "First", "id2", <<"drum and bass">>, TRUE, 3),
     Track("Ana; Ben", <<"Ana", "Ben">>, <<"id1", NoId>>, "Ana", Ana, <<"id1">>, "First", NoId, <<>>, FALSE, 4),
     Track("Ana", <<"Ana", "Ana">>, <<"id1", "id2">>, "Ana", Ana, <<>>, Blank, NoId, <<>>, FALSE, 5),
     Track("Ana", <<"ana", "Ana">>, <<NoId, "id2">>, "Ben", <<"Ben">>, <<"id1">>, "first", "id2", <<"dnb">>, TRUE, 6),
     Track("Ben", <<>>, <<>>, "Ana", <<>>, <<>>, "First", NoId, <<"drum and bass", "DnB">>, FALSE, 7)}

Views == INSTANCE Browse WITH
    Musics <- {m1, m2, m3}, Metadata <- Tracks, PageSize <- 1, Fold <- Spelling

-----------------------------------------------------------------------------
\* Old installations: two tracks of one title and two old tags; three tracks
\* whose paths may coincide; three scans of two roots.
Missing == ""
OldTrack(title, album, genre, deleted, path) ==
    [title |-> title, album |-> album, genre |-> genre, text |-> Missing, recording |-> Missing,
     deleted |-> deleted, path |-> path, hash |-> Missing, root |-> 0, relative |-> Missing, key |-> <<>>]
FromRoot(path) ==
    [OldTrack("c", Missing, Missing, FALSE, path) EXCEPT !.root = 1, !.relative = "song", !.key = <<1, "song">>]
Tag(album, genre, recording, deleted) ==
    [title |-> "a", album |-> album, genre |-> genre, text |-> genre, recording |-> recording, deleted |-> deleted]
OldScan(r, status) == [root |-> r, status |-> status]
Database(v, ts, gs, sc) == [version |-> v, tracks |-> ts, tags |-> gs, scans |-> sc]
Blankable(x) == {Missing, x}
Tagged ==
    {Database(1, <<t, u>>, <<g, h>>, <<>>) :
       t \in {OldTrack("a", x, y, FALSE, Missing) : x \in Blankable("x"), y \in Blankable("g")},
       u \in {OldTrack(n, x, Missing, d, Missing) : n \in {"a", "b"}, x \in {"x", "z"}, d \in BOOLEAN},
       g \in {Tag(x, y, r, FALSE) : x \in Blankable("x"), y \in Blankable("h"), r \in {Missing, "id", "bad"}},
       h \in {Tag(x, "k", "id2", d) : x \in Blankable("x"), d \in BOOLEAN}}
Pathed ==
    {Database(v, <<OldTrack("a", Missing, Missing, d, p), OldTrack("b", Missing, Missing, FALSE, q), u>>, <<>>, <<>>) :
       v \in {1, 4}, d \in BOOLEAN, p \in {"in", "lost"}, q \in {Missing, "in", "out"},
       u \in {OldTrack("c", Missing, Missing, FALSE, "in"), FromRoot("out")}}
Scanned ==
    {Database(4, <<>>, <<>>, <<OldScan(1, x), OldScan(y, z), OldScan(w, "pending")>>) :
       x \in {"pending", "running"}, y \in {1, 2}, z \in {"retry_wait", "completed"}, w \in {1, 2}}

Rows == INSTANCE LegacyUpgrade WITH
    Databases <- Tagged \cup Pathed \cup Scanned, Managed <- {"in", "lost"}, Readable <- {"in", "out"},
    ValidIDs <- {"id", "id2"}, scans <- passes, files <- copies

-----------------------------------------------------------------------------
Music == <<"music">>
Jazz == <<"music", "jazz">>
ManagedDirectory == <<"uploads", "managed">>
SomePaths == {Music, Jazz, <<"uploads">>}
MusicFirst == [r \in {m1} |-> Music]

\* An administrator changes two roots and starts scans; or two probes look at a
\* root, whose path may change.
Administered == \/ \E s \in Servers : Call(s)
                \/ \E r \in Roots : Scan(r)
Probed ==
    \/ \E s \in Servers : Call(s) /\ edits' <= 1 /\ scans' = 0
    \/ \E q \in Probers : Probe(q)
    \/ \E p \in Paths : Flip(p)
    \/ Tick

ASSUME Serial!PlaylistConstants /\ Concurrent!PlaylistConstants
       /\ Texts!MetadataConstants

-----------------------------------------------------------------------------
listVars == <<users, musics, revision, items, likes, tx, asked>>
metadataVars == <<metadata, edition, incoming>>
viewVars == <<vinyl, credits, albums, facets>>
upgradeVars == <<version, tracks, tags, archive, passes, copies, start>>

ListsOff ==
    /\ users = "off" /\ musics = "off" /\ revision = "off" /\ items = "off" /\ likes = "off"
    /\ tx = "off" /\ asked = "off"
MetadataOff == metadata = "off" /\ edition = "off" /\ incoming = "off"
ViewsOff == vinyl = "off" /\ credits = "off" /\ albums = "off" /\ facets = "off"

UpgradeOff ==
    /\ version = "off" /\ tracks = "off" /\ tags = "off" /\ archive = "off" /\ passes = "off"
    /\ copies = "off" /\ start = "off"
\* No request of Uploads, and no probe of MediaProbe.
FilesRest == row.path = Library /\ row.img = NoPath
ProbeRests ==
    /\ spec = [kind |-> "auto", expected |-> "", sentinel |-> TRUE, fs |-> LocalFs]
    /\ ~attached

MCInit ==
    /\ part \in {"files", "serial", "concurrent", "metadata", "views",
                "rows", "administered", "probed", "looks"}
    /\ UploadInit
    /\ part # "files" => FilesRest
    /\ Init /\ ProbeInit
    /\ part # "looks" => ProbeRests
    /\ \/ part = "serial" /\ Serial!Init
       \/ part = "concurrent" /\ Concurrent!Init
       \/ part \notin {"serial", "concurrent"} /\ ListsOff
    /\ \/ part = "metadata" /\ Texts!Init
       \/ part # "metadata" /\ MetadataOff
    /\ \/ part = "views" /\ Views!Init
       \/ part # "views" /\ ViewsOff
    /\ \/ part = "rows" /\ Rows!Init
       \/ part # "rows" /\ UpgradeOff

MCNext ==
    \/ part = "files" /\ UploadNext /\ UNCHANGED <<part, listVars, metadataVars, viewVars, upgradeVars, vars, probeVars>>
    \/ part = "serial" /\ Serial!Next /\ UNCHANGED <<part, uploadVars, metadataVars, viewVars, upgradeVars, vars, probeVars>>
    \/ part = "concurrent" /\ Concurrent!Next /\ UNCHANGED <<part, uploadVars, metadataVars, viewVars, upgradeVars, vars, probeVars>>
    \/ part = "metadata" /\ Texts!Next /\ UNCHANGED <<part, uploadVars, listVars, viewVars, upgradeVars, vars, probeVars>>
    \/ part = "views" /\ Views!Next /\ UNCHANGED <<part, uploadVars, listVars, metadataVars, upgradeVars, vars, probeVars>>
    \/ part = "rows" /\ Rows!Next /\ UNCHANGED <<part, uploadVars, listVars, metadataVars, viewVars, vars, probeVars>>
    \/ part = "administered" /\ Administered /\ UNCHANGED <<part, uploadVars, listVars, metadataVars, viewVars, upgradeVars, probeVars>>
    \/ part = "probed" /\ Probed /\ UNCHANGED <<part, uploadVars, listVars, metadataVars, viewVars, upgradeVars, probeVars>>
    \/ part = "looks" /\ ProbeNext /\ UNCHANGED <<part, uploadVars, listVars, metadataVars, viewVars, upgradeVars, vars>>

MCSpec ==
    MCInit /\ [][MCNext]_<<part, uploadVars, listVars, metadataVars, viewVars, upgradeVars, vars, probeVars>>

Symmetric == Permutations({c1, c2, c3}) \cup Permutations({r1, r2})

-----------------------------------------------------------------------------
\* If transactions do not overlap, positions are dense, no list has too many
\* items and every like is of a track that exists.
ListsSound == part = "serial" => Serial!TypeOK /\ Serial!PositionsDense /\ Serial!ItemLimit /\ Serial!LikesExist

\* Whatever overlaps, but for deletions of tracks, only a reorder changes the
\* order of the items of a list, and every change of items has a revision.
OrderKept ==
    [][/\ part = "concurrent" => Concurrent!KeepsOrder /\ Concurrent!TellsRevision
       /\ part = "serial" => Serial!TellsRevision]_<<part, listVars>>

\* What is stored is its own normal form, but for lists taken from a name with
\* superfluous white space, which settle at the next request; it is accepted
\* again, but for a year before 1000 taken from a release date (normalizeMusic-
\* Metadata); a suggestion lacks nothing that upload or track has; a completion
\* replaces nothing.
MetadataStable ==
    /\ [](part = "metadata" => Texts!RepeatChangesLittle /\ Texts!StoredIsAccepted /\ Texts!SuggestionComplete)
    /\ [][part = "metadata" => Texts!EnrichmentKeeps]_<<part, metadataVars>>

\* Every page that a track or an artist links to exists, and none is left of
\* metadata that was replaced; counts, filters and pages agree with the lists
\* they stand for, and no track has an artist twice.
ViewsAgree ==
    part = "views" =>
      /\ Views!LinksResolve /\ Views!CountsAgree /\ Views!JoinsCountOnce
      /\ Views!OneIdentity /\ Views!OptionsFind /\ Views!PagesPartition

\* After an upgrade a track that names a source owns its file, and one whose
\* audio has a source shares it at least with the owner; old tags filled
\* blanks only; every root kept the newest of its unfinished scans.
RowsUpgraded == part = "rows" => Rows!SourcesOwned /\ Rows!TagsFillBlanks /\ Rows!NewestScanKept
=============================================================================
