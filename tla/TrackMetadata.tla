---------------------------- MODULE TrackMetadata ----------------------------
(***************************************************************************)
(* The metadata of one track: its normal form, updates of some fields, and *)
(* the completion from an upload of the same file: CheckDuplicates, whose  *)
(* patch the client sends back at once.                                    *)
(*                                                                         *)
(* A text is a sequence of words, so that joining values is concatenation; *)
(* a word of Loose holds white space that the normal form of lists drops.  *)
(* One scalar (comment) stands for all that are merely copied.             *)
(***************************************************************************)
EXTENDS Naturals, Sequences, SequencesExt, FiniteSetsExt

CONSTANTS
    RawTracks, \* metadata as requests hold it
    Patches,   \* updates: functions on some of the fields
    Loose,     \* words with more white space than needed
    Tight,     \* what each of them becomes
    MaxWords,  \* bytes of a text
    MaxRevision \* bound of the model

MetadataConstants == MaxWords \in Nat /\ MaxRevision \in Nat /\ Tight \in [Loose -> STRING]

VARIABLES
    row,      \* the metadata of the track
    revision, \* metadata_revision
    incoming  \* the upload checked against it last, unless it was updated since

vars == <<row, revision, incoming>>

None == <<>>
Numbers == {"year", "number", "total", "release", "comment"}
Blank(m, f) == m[f] = IF f \in Numbers THEN 0 ELSE None

-----------------------------------------------------------------------------
(* The normal form.                                                        *)

Tidy(text) == [i \in 1..Len(text) |-> IF text[i] \in Loose THEN Tight[text[i]] ELSE text[i]]

\* normalizeDisplayValues: white space, no blank value, no value twice.
Display(values) ==
    LET tidy == [i \in 1..Len(values) |-> Tidy(values[i])]
        new(i) == tidy[i] # None /\ \A j \in 1..i-1 : tidy[j] # tidy[i]
        kept == SetToSortSeq({i \in 1..Len(values) : new(i)}, <)
    IN  [k \in 1..Len(kept) |-> tidy[kept[k]]]

\* Mutation: no limit.
JoinAll(values) == FlattenSeq(values)

\* joinMetadataDisplayValues: as many of the first values as fit.
Join(values) ==
    LET upTo(n) == FlattenSeq(SubSeq(values, 1, n))
    IN  upTo(Max({n \in 0..Len(values) : Len(upTo(n)) <= MaxWords}))

Else(values, text) == IF values = <<>> /\ text # None THEN <<text>> ELSE values

\* normalizeMusicMetadata, when it accepts.
Normalize(m) ==
    LET listed == Display(m.albumArtists)
        credited == IF m.albumArtist = None THEN Join(listed) ELSE m.albumArtist
        genres == Display(Else(m.genres, m.genre))
    IN  [m EXCEPT !.artists = Else(Display(@), m.artist),
                  !.albumArtist = credited,
                  !.albumArtists = Else(listed, credited),
                  !.year = IF @ = 0 THEN m.release ELSE @,
                  !.genres = genres, !.genre = Join(genres)]

Fits(m) ==
    /\ m.artist # None
    /\ \A t \in {m.artist, m.albumArtist} \cup ToSet(m.artists)
               \cup ToSet(m.albumArtists) \cup ToSet(m.genres) : Len(t) <= MaxWords

\* validateTrackAndDiscTotals
TotalsValid(m) == m.total > 0 => m.number <= m.total

\* The year that a request holds is looked at, and not the one that is then
\* taken from the release date.
YearValid(m) == m.year = 0 \/ m.year \in 1000..9999

Accepts(m) == Fits(m) /\ YearValid(m) /\ TotalsValid(m)

-----------------------------------------------------------------------------
(* applyUpdateMusicMetadata                                                *)

\* A genre without genres replaces them.
Patched(m, p) ==
    p @@ (IF "genre" \in DOMAIN p THEN ("genres" :> <<>>) ELSE <<>>) @@ m

Update(p) ==
    LET new == Normalize(Patched(row, p)) IN
    /\ Accepts(Patched(row, p)) /\ revision < MaxRevision
    /\ row' = new
    /\ revision' = IF new = row THEN revision ELSE revision + 1

-----------------------------------------------------------------------------
(* CheckDuplicates                                                         *)

\* artistListCanBeEnriched: only when the list repeats the credited name.
CanEnrich(credited, existing, values) ==
    /\ values # <<>>
    /\ existing = <<>> \/ (Len(existing) = 1 /\ existing[1] = credited /\ Len(values) > 1)

\* buildMetadataEnrichment: the fields that existing lacks.  An artist is
\* never blank, and genre comes with genres.
Enrichment(old, new) ==
    LET lacks(f) == Blank(old, f) /\ ~Blank(new, f)
        fields == {f \in {"albumArtist", "year", "number", "total", "release", "comment"} : lacks(f)}
                  \cup {f \in {"genres"} : lacks(f) /\ Blank(old, "genre")}
                  \cup {f \in {"artists"} : CanEnrich(old.artist, old.artists, new.artists)}
                  \cup {f \in {"albumArtists"} :
                          CanEnrich(old.albumArtist, old.albumArtists, new.albumArtists)}
    IN  [f \in fields |-> new[f]]

\* metadataCompleteness
Completeness(m) ==
    Cardinality({f \in {"year", "number", "total", "release", "genre", "comment"} : ~Blank(m, f)})
    + (IF Len(m.artists) > 1 THEN 1 ELSE 0)
    + (IF ~Blank(m, "albumArtist") \/ ~Blank(m, "albumArtists") THEN 1 ELSE 0)

\* buildSuggestedMetadata: what the upload lacks, from the track.
Suggested(new, best) ==
    LET lists == {f \in {"artists", "albumArtists"} :
                    \/ new[f] = <<>>
                    \/ /\ Len(new[f]) = 1 /\ Len(best[f]) > 1
                       /\ new[f][1] = (IF f = "artists" THEN new.artist ELSE new.albumArtist)}
        scalars == {f \in {"albumArtist", "year", "number", "total", "release", "comment"} : Blank(new, f)}
        genres == IF Blank(new, "genre") /\ Blank(new, "genres") THEN {"genre", "genres"} ELSE {}
    IN  [f \in DOMAIN new |-> IF f \in lists \cup scalars \cup genres THEN best[f] ELSE new[f]]

\* CheckDuplicates for an upload of the same file with other tags.
Check(raw) ==
    /\ Accepts(raw) /\ incoming = {} /\ revision < MaxRevision
    /\ incoming' = {Normalize(raw)}
    /\ UNCHANGED <<row, revision>>

\* The client sends the completion that the check returned.
Enrich ==
    /\ \E new \in incoming :
         LET p == Enrichment(row, new) IN p # <<>> /\ Update(p)
    /\ UNCHANGED incoming

-----------------------------------------------------------------------------
Init ==
    \E raw \in RawTracks :
      /\ Accepts(raw)
      /\ row = Normalize(raw) /\ revision = 1 /\ incoming = {}

Next ==
    \/ \E p \in Patches : Update(p) /\ incoming' = {}
    \/ \E raw \in RawTracks : Check(raw)
    \/ Enrich

Spec == Init /\ [][Next]_vars

-----------------------------------------------------------------------------
\* A request that repeats what is stored changes nothing, and no revision
\* ("metadata_revision grows only when the normalized metadata really changes",
\* Readme.md:575), but for a list taken from a credited name with superfluous
\* white space: it is tidied by the next request, and by no later one.
RepeatChangesLittle ==
    LET again == Normalize(row)
        untidy(list, name) == list = <<name>> /\ Tidy(name) # name
    IN  /\ \A f \in DOMAIN row : again[f] # row[f] =>
              \/ f = "artists" /\ untidy(row.artists, row.artist)
              \/ f = "albumArtists" /\ untidy(row.albumArtists, row.albumArtist)
        /\ Normalize(again) = again

\* What is stored is accepted again, unless its year was taken from a release
\* date before the year 1000: then any other valid year is accepted with it.
StoredIsAccepted ==
    \/ Accepts(row)
    \/ row.year = row.release /\ ~YearValid(row) /\ Accepts([row EXCEPT !.year = 1000])

Completed == incoming # {} /\ incoming' = incoming

\* A completion fills what was blank and replaces no value but a list that
\* repeats the credited name; what it leaves is a higher revision, in which the
\* same upload finds nothing more to complete (buildMetadataEnrichment).
EnrichmentKeeps ==
    Completed =>
      /\ revision' > revision
      /\ \A f \in DOMAIN row : row'[f] # row[f] =>
           \/ Blank(row, f)
           \/ f \in {"artists", "albumArtists"} /\ Len(row[f]) = 1
      /\ \A new \in incoming : Enrichment(row', new) = <<>>

\* A suggestion has every field that either of the two had, and is no less
\* complete than the upload (buildSuggestedMetadata, metadataCompleteness).
SuggestionComplete ==
    \A new \in incoming :
      LET s == Suggested(new, row) IN
      /\ \A f \in DOMAIN row : Blank(s, f) => Blank(row, f) /\ Blank(new, f)
      /\ Completeness(s) >= Completeness(new)
=============================================================================
