----------------------------- MODULE MCAnalysis -----------------------------
(***************************************************************************)
(* What the analysis of tracks leaves, on small instances:                 *)
(* AnalysisContent, EnqueueTransaction and PresetClassification.  The      *)
(* models share no state, so every behaviour is one of one of them: "part" *)
(* says of which one, and the variables of the others stay as they are.    *)
(***************************************************************************)
EXTENDS AnalysisContent, EnqueueTransaction, TLC

CONSTANTS
    m1, B, k1, k2, c3,                             \* some values of the other constants
    TagSets, LabelSets, FeatureSets, Tempi, AutoThreshold, ReviewMargin, Weight,
    ManualChoices                                       \* PresetClassification

VARIABLES
    part,
    tags, evidence, manual                              \* PresetClassification

Presets == INSTANCE PresetClassification

\* The tables of rules, from which the values of Presets' constants are made.
Table == INSTANCE PresetClassification WITH
    TagSets <- {}, LabelSets <- {}, FeatureSets <- {}, Tempi <- {}, AutoThreshold <- 0,
    ReviewMargin <- 0, Weight <- 0, ManualChoices <- {}

-----------------------------------------------------------------------------
\* The default policy: the weakest rule of every preset, the strongest labels,
\* and features that agree in groups.
Chosen == {"calm"}
GenreTags ==
    {{t} : t \in {"chillout", "breakbeat", "synthwave", "dubstep"}}
    \cup {{}, {"drum and bass", "dnb"}, {"dnb", "chillout"}, {"breakbeat", "dubstep"}}
AllTags ==
    GenreTags \cup {{"instrumental"}, {"instrumental", "breakbeat"}, {"instrumental", "dubstep"},
                   {"instrumental", "chillout"}}

LabelsOf(p) ==
    {l \in {r[1] : r \in Table!Rules} \cup DOMAIN Table!Aliases :
       \E r \in Table!Rules : r[1] = Table!Canonical(l) /\ r[2] = p}
AllLabels == {{}} \cup {LabelsOf(p) : p \in Table!PresetSet}

Group(fs, v) == [f \in fs |-> v]
Loud == {"energy", "loudness", "high_energy_segments"}
Excited == {"arousal", "spectral_flux"}
Smooth == {"dynamic_smoothness", "dynamic_range", "instrumental"}
Dancing == {"danceability", "onset_rate", "pulse_clarity"}
Deep == {"spectral_centroid", "spectral_flatness", "bass_energy", "sub_bass_energy", "drop_contrast", "roughness"}
Wide == {"tonal_strength", "harmonicity", "spatiality"}
None == Group({}, 0)
AllFeatures ==
    {a @@ b @@ c @@ d @@ e @@ g :
       a \in {None, Group(Loud, 0), Group(Loud, 5000), Group(Loud, Table!Unit)}, b \in {None, Group(Excited, 0)},
       c \in {None, Group(Smooth, Table!Unit)}, d \in {None, Group(Dancing, Table!Unit)},
       e \in {None, Group(Deep, Table!Unit)}, g \in {None, Group(Wide, Table!Unit)}}
AllTempi == {0, 65}

-----------------------------------------------------------------------------
\* SQLite, one request at a time: two uploads of one track, or an upload and an
\* edit, beside requests of an administrator and, up to the second change, a
\* manual choice, ...
NoManual == \A m \in Musics : ~class'[m].manual

Untouched(m) == music'[m] = music[m] /\ class'[m] = class[m] /\ \A q \in Requests :
             request'[q].pc # "idle" => request'[q].music # m

TwoChanges ==
    /\ uploads' + edits' <= 2 /\ lastId' <= 2 /\ (uploads' + edits' = 2 => NoManual)
    /\ \A m \in Musics \ {m1} : Untouched(m)

\* ... three uploads, so that a content may come back, ...
ThreeUploads ==
    /\ edits' = 0 /\ NoManual /\ \A m \in Musics \ {m1} : Untouched(m)
    /\ \A q \in Requests : request'[q].pc # "idle" => request'[q].kind = "content"

\* ... and two tracks with the same bytes.
SameBytes ==
    /\ edits' = 0 /\ NoManual /\ uploads' <= 2 /\ lastId' <= 2
    /\ \A m \in Musics : music'[m].hash # B
    /\ \A q \in Requests : request'[q].pc # "idle" => request'[q].kind = "content"

\* PostgreSQL: two calls for one key, one of them forced, and one for another.
KeyOfCall == [c \in Calls |-> IF c = c3 THEN k2 ELSE k1]

-----------------------------------------------------------------------------
presetVars == <<tags, evidence, manual>>

PresetsOff == tags = "off" /\ evidence = "off" /\ manual = "off"

MCInit ==
    /\ part \in {"presets", "content", "back", "shared", "enqueue"}
    /\ Init
    /\ IF part = "presets" THEN Presets!Init ELSE PresetsOff
    /\ EnqueueInit /\ (part # "enqueue" => status = [k \in JobKeys |-> "absent"])

MCNext ==
    \/ part = "presets" /\ Presets!Next /\ UNCHANGED <<part, vars, enqueueVars>>
    \/ part = "content" /\ Next /\ TwoChanges /\ UNCHANGED <<part, presetVars, enqueueVars>>
    \/ part = "back" /\ Next /\ ThreeUploads /\ UNCHANGED <<part, presetVars, enqueueVars>>
    \/ part = "shared" /\ Next /\ SameBytes /\ UNCHANGED <<part, presetVars, enqueueVars>>
    \/ part = "enqueue" /\ EnqueueNext /\ UNCHANGED <<part, presetVars, vars>>

MCSpec == MCInit /\ [][MCNext]_<<part, presetVars, vars, enqueueVars>>

Symmetric == Permutations(Hashes) \cup Permutations(Musics)

-----------------------------------------------------------------------------
\* Audio evidence against the genre rules classifies only tracks whose genre
\* "instrumental" it confirms, as calm; weak evidence classifies nothing, and a
\* track is shown in one place (BuildMusicPresetProjectionWithAudio).
PresetsSound ==
    part = "presets" =>
      /\ Presets!ConflictsReviewed /\ Presets!WeakEvidenceAbstains /\ Presets!ShownOnce
=============================================================================
