------------------------------- MODULE Browse -------------------------------
(***************************************************************************)
(* The artist and album views: rows derived from the metadata of every     *)
(* track in the transaction that writes it, the queries that group them,   *)
(* and the keys by which responses link to the views.  Texts are model     *)
(* values that Fold normalizes; the key of a text stands for its hash.     *)
(***************************************************************************)
EXTENDS Integers, FiniteSetsExt, SequencesExt

CONSTANTS
    Musics,
    Metadata,  \* normalized metadata of tracks, see MCRecords
    Fold,      \* NormalizeBrowseText, NormalizeGenreName: a function of texts
    Alias,     \* genreAliases: a function of normalized genres
    Rank,      \* order of stable IDs and of hashes of texts
    PageSize

VARIABLES
    vinyl,    \* metadata of the tracks that exist
    credits,  \* music_artist_credits
    albums,   \* music_album_memberships
    facets    \* music_genre_facets

vars == <<vinyl, credits, albums, facets>>

Blank == "blank"
NoId == "no id"
NoKey == <<>>
Stable(id) == <<"mbid", id>>
Hashed(text) == <<"text", text>>

-----------------------------------------------------------------------------
(* BuildMusicBrowseProjection.                                             *)

\* appendCredits: the names with their positions and IDs.
Credited(names, ids, fallback, role) ==
    LET list == IF names = <<>> /\ fallback # Blank THEN <<fallback>> ELSE names
    IN  [i \in DOMAIN list |->
           [name |-> list[i], text |-> Fold[list[i]], role |-> role, position |-> i,
            id |-> IF i \in DOMAIN ids THEN ids[i] ELSE NoId]]

Items(x) ==
    Credited(x.artists, x.artistIds, x.artist, "track") \o
    Credited(x.albumArtists, x.albumArtistIds, x.albumArtist, "album")

StableKeys(x, text) ==
    {Stable(i.id) : i \in {j \in ToSet(Items(x)) : j.text = text /\ j.id # NoId}}

\* A name without ID is the artist that has this name, if there is one only.
TextKey(x, text) ==
    IF Cardinality(StableKeys(x, text)) = 1 THEN CHOOSE k \in StableKeys(x, text) : TRUE ELSE Hashed(text)

KeyOf(x, item) == IF item.id # NoId THEN Stable(item.id) ELSE TextKey(x, item.text)

\* addCredit: names with IDs first, then the pending ones.
CreditsOf(m, x) ==
    LET added == SelectSeq(Items(x), LAMBDA i : i.id # NoId) \o SelectSeq(Items(x), LAMBDA i : i.id = NoId)
        with(k) == {i \in ToSet(added) : KeyOf(x, i) = k}
    IN  {[music |-> m, key |-> k, cover |-> x.cover,
          name |-> SelectSeq(added, LAMBDA i : i \in with(k))[1].name,
          text |-> SelectSeq(added, LAMBDA i : i \in with(k))[1].text,
          track |-> \E i \in with(k) : i.role = "track",
          position |-> Min({i.position : i \in with(k)})] :
         k \in {KeyOf(x, i) : i \in ToSet(added)}}

AlbumsOf(m, x) ==
    LET artist == IF x.albumArtist = Blank THEN x.artist ELSE x.albumArtist
    IN  IF x.album = Blank THEN {}
        ELSE {[music |-> m, title |-> x.album, text |-> Fold[x.album], artist |-> artist, artistText |-> Fold[artist],
               key |-> IF x.release # NoId THEN Stable(x.release) ELSE Hashed(<<Fold[artist], Fold[x.album]>>),
               artistKey |-> IF x.albumArtistIds # <<>> /\ x.albumArtistIds[1] # NoId
                             THEN Stable(x.albumArtistIds[1]) ELSE TextKey(x, Fold[artist]),
               duration |-> x.duration, cover |-> x.cover]}

\* buildMusicGenreFacets: one of every normalized name, as it was spelled first.
FacetsOf(m, x) ==
    {[music |-> m, name |-> Fold[x.genres[i]], display |-> x.genres[i]] :
       i \in {j \in DOMAIN x.genres : \A h \in 1..(j - 1) : Fold[x.genres[h]] # Fold[x.genres[j]]}}

-----------------------------------------------------------------------------
(* Writes.                                                                 *)

Others(rows, m) == {r \in rows : r.music # m}

\* Mutation: an update adds the new credits and keeps the old ones.
SaveAdding(m, x) ==
    /\ vinyl' = [n \in DOMAIN vinyl \cup {m} |-> IF n = m THEN x ELSE vinyl[n]]
    /\ credits' = credits \cup CreditsOf(m, x)
    /\ albums' = Others(albums, m) \cup AlbumsOf(m, x)
    /\ facets' = Others(facets, m) \cup FacetsOf(m, x)

\* Create, Update, CreateMusicWithMediaFile, ReplaceManagedMediaFile with
\* replaceMusicBrowseProjection.
Save(m, x) ==
    /\ vinyl' = [n \in DOMAIN vinyl \cup {m} |-> IF n = m THEN x ELSE vinyl[n]]
    /\ credits' = Others(credits, m) \cup CreditsOf(m, x)
    /\ albums' = Others(albums, m) \cup AlbumsOf(m, x)
    /\ facets' = Others(facets, m) \cup FacetsOf(m, x)

Delete(m) ==
    /\ m \in DOMAIN vinyl
    /\ vinyl' = [n \in DOMAIN vinyl \ {m} |-> vinyl[n]]
    /\ credits' = Others(credits, m)
    /\ albums' = Others(albums, m)
    /\ facets' = Others(facets, m)

Init == vinyl = <<>> /\ credits = {} /\ albums = {} /\ facets = {}

Next == \E m \in Musics : Delete(m) \/ \E x \in Metadata : Save(m, x)

Spec == Init /\ [][Next]_vars

-----------------------------------------------------------------------------
(* Queries.                                                                *)

\* Search with an artist key and an album key; NoKey for none.
Search(artistKey, albumKey) ==
    {m \in DOMAIN vinyl :
      /\ artistKey = NoKey \/ \E c \in credits : c.music = m /\ c.key = artistKey
      /\ albumKey = NoKey \/ \E a \in albums : a.music = m /\ a.key = albumKey}

GenreFilter(genre) == Fold[genre]

\* Search with the artist, album, album artist and genre filters; Blank for none.
Filtered(artist, album, albumArtist, genre) ==
    {m \in DOMAIN vinyl :
      /\ artist = Blank \/ \E c \in credits : c.music = m /\ c.track /\ c.text = Fold[artist]
      /\ album = Blank \/ \E a \in albums : a.music = m /\ a.text = Fold[album]
      /\ albumArtist = Blank \/ \E a \in albums : a.music = m /\ a.artistText = Fold[albumArtist]
      /\ genre = Blank \/ \E f \in facets : f.music = m /\ f.name = GenreFilter(genre)}

\* ListFilterOptions: a spelling of every normalized text, here any of them.
Options(spellings) ==
    {(CHOOSE s \in spellings : s[2] = t)[1] : t \in {s[2] : s \in spellings}}

\* ListArtists and FindArtist.
ArtistRow(k) ==
    LET rows == {c \in credits : c.key = k}
    IN  [key |-> k, text |-> Min({Rank[c.text] : c \in rows}),
         tracks |-> Cardinality({c.music : c \in rows}),
         albums |-> Cardinality({a.key : a \in {b \in albums : \E c \in rows : c.music = b.music}})]

ArtistRows == {ArtistRow(c.key) : c \in credits}

\* ListAlbums and FindAlbum: sums are over the rows of the join with the
\* credits of an artist and the facets of a genre.
AlbumJoin(artistKey, genre) ==
    LET credited(a) == {{c} : c \in {d \in credits : d.music = a.music /\ d.key = artistKey}}
        tagged(a) == {{f} : f \in {g \in facets : g.music = a.music /\ g.name = GenreFilter(genre)}}
    IN  UNION {{a} \X (IF artistKey = NoKey THEN {{}} ELSE credited(a)) \X (IF genre = Blank THEN {{}} ELSE tagged(a)) :
               a \in albums}

AlbumRow(join, k) ==
    LET rows == {r \in join : r[1].key = k}
    IN  [key |-> k, tracks |-> Cardinality({r[1].music : r \in rows}),
         duration |-> MapThenSumSet(LAMBDA r : r[1].duration, rows)]

AlbumRows(artistKey, genre) ==
    LET join == AlbumJoin(artistKey, genre) IN {AlbumRow(join, r[1].key) : r \in join}

\* Stable IDs come before hashes of texts.
Before(j, k) ==
    \/ j[1] = "mbid" /\ k[1] = "text"
    \/ j[1] = k[1] /\ Rank[j[2]] < Rank[k[2]]

ArtistBefore(r, s) == r.text < s.text \/ (r.text = s.text /\ Before(r.key, s.key))

\* The page of ListArtists: the rows with as many before them as it skips.
ArtistPage(page) ==
    {r \in ArtistRows :
       LET skipped == Cardinality({s \in ArtistRows : ArtistBefore(s, r)})
       IN  skipped >= (page - 1) * PageSize /\ skipped < page * PageSize}

\* ToResponse: the keys of the credited artists of a track.
ArtistKeys(m) ==
    LET sorted == SetToSortSeq({c \in CreditsOf(m, vinyl[m]) : c.track},
                               LAMBDA c, d : c.position < d.position \/ (c.position = d.position /\ Before(c.key, d.key)))
    IN  [i \in DOMAIN sorted |-> sorted[i].key]

-----------------------------------------------------------------------------
\* The counts that an artist page shows are those of the lists below it, and
\* an album has the tracks and the length of its track list
\* (ListArtists, ListAlbums, Search).
CountsAgree ==
    /\ \A r \in ArtistRows :
         /\ r.tracks = Cardinality(Search(r.key, NoKey))
         /\ r.albums = Cardinality(AlbumRows(r.key, Blank))
    /\ \A r \in AlbumRows(NoKey, Blank) :
         /\ r.tracks = Cardinality(Search(NoKey, r.key))
         /\ r.duration = MapThenSumSet(LAMBDA m : vinyl[m].duration, Search(NoKey, r.key))

\* A filter by a genre or an artist counts every track of an album once
\* (albumQuery joins rows with composite keys).
JoinsCountOnce ==
    \A k \in {c.key : c \in credits} \cup {NoKey}, g \in {f.display : f \in facets} \cup {Blank} :
      \A r \in AlbumRows(k, g) :
        r.duration = MapThenSumSet(LAMBDA m : vinyl[m].duration,
                                   Search(k, r.key) \cap Filtered(Blank, Blank, Blank, g))

\* Every page that a track or an artist links to exists, and no page is left
\* of metadata that was replaced (ToResponse; music_browse_projection.go:10).
LinksResolve ==
    /\ {c.key : c \in credits} = UNION {{KeyOf(vinyl[m], i) : i \in ToSet(Items(vinyl[m]))} : m \in DOMAIN vinyl}
    /\ \A m \in DOMAIN vinyl : \A a \in AlbumsOf(m, vinyl[m]) :
         \E r \in AlbumRows(NoKey, Blank) : r.key = a.key
    /\ \A m \in DOMAIN vinyl : \A i \in DOMAIN ArtistKeys(m) : \E r \in ArtistRows : r.key = ArtistKeys(m)[i]

\* A track has no artist twice: a name without ID joins the only artist of
\* this name (TestAlbumCreditReusesUnambiguousTrackArtistIdentity).
OneIdentity ==
    \A c, d \in credits :
      c.music = d.music /\ c.text = d.text /\ c.key # d.key =>
        Cardinality(StableKeys(vinyl[c.music], c.text)) > 1

\* Every filter that is offered finds tracks, and every track with an album
\* is found by one of each (ListFilterOptions and Search).
OptionsFind ==
    LET artistsOffered == Options({<<c.name, c.text>> : c \in {d \in credits : d.track}})
        albumsOffered == Options({<<a.title, a.text>> : a \in albums})
        albumArtistsOffered == Options({<<a.artist, a.artistText>> : a \in albums})
        genresOffered == Options({<<f.display, f.name>> : f \in facets})
        byArtist(v) == Filtered(v, Blank, Blank, Blank)
        byAlbum(v) == Filtered(Blank, v, Blank, Blank)
        byAlbumArtist(v) == Filtered(Blank, Blank, v, Blank)
        byGenre(v) == Filtered(Blank, Blank, Blank, v)
        withAlbum == {m \in DOMAIN vinyl : vinyl[m].album # Blank}
    IN  /\ \A v \in artistsOffered : byArtist(v) # {}
        /\ \A v \in genresOffered : byGenre(v) # {}
        /\ withAlbum = UNION {byAlbum(v) : v \in albumsOffered}
        /\ withAlbum = UNION {byAlbumArtist(v) : v \in albumArtistsOffered}
        /\ DOMAIN vinyl = UNION {byArtist(v) : v \in artistsOffered}

\* The pages of the artist list show every artist on one page.
PagesPartition ==
    \A r \in ArtistRows : Cardinality({p \in 1..Cardinality(ArtistRows) : r \in ArtistPage(p)}) = 1
    /\ \A p \in 1..Cardinality(ArtistRows) : Cardinality(ArtistPage(p)) <= PageSize

\* The link of an album to its artist leads to an artist
\* (web/src/views/library/AlbumDetail.vue:73). It fails for several album
\* artists, whose joined text is the name of no credit.
AlbumArtistResolves == \A a \in albums : \E r \in ArtistRows : r.key = a.artistKey

\* The key at the index of an artist of a track is that of this artist
\* (artistKeyAt, web/src/views/music/Detail.vue:64). It fails when a credit
\* comes earlier in the album artists than in the artists.
ArtistKeysAligned ==
    \A m \in DOMAIN vinyl : \A i \in DOMAIN ArtistKeys(m) \cap DOMAIN vinyl[m].artists :
      ArtistKeys(m)[i] = KeyOf(vinyl[m], Credited(vinyl[m].artists, vinyl[m].artistIds, vinyl[m].artist, "track")[i])
=============================================================================
