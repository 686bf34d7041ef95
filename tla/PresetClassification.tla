------------------------ MODULE PresetClassification ------------------------
(***************************************************************************)
(* The classification of one track into four presets from its genre tags,  *)
(* the labels of an audio model and DSP features, and what the preset list *)
(* counts of it.  A score is an integer number of 1/Unit, the four digits  *)
(* to which the code rounds; products in between are rounded as well,      *)
(* which changes a score by less than three of them.                       *)
(***************************************************************************)
EXTENDS Integers, FiniteSetsExt, Folds

CONSTANTS
    TagSets,       \* genre tags of tracks
    LabelSets,     \* labels a model is sure of
    FeatureSets,   \* functions from some features to 0..Unit
    Tempi,         \* beats per minute, 0 for none
    AutoThreshold, ReviewMargin, \* classification policy, in 1/Unit
    Weight,        \* weight of every preset, in 1/Unit
    ManualChoices  \* presets an administrator may choose

VARIABLES
    tags, evidence, \* what the track has: evidence is {} or one analysis
    manual          \* manual_preset

vars == <<tags, evidence, manual>>

Unit == 10000
NoPreset == "none"
Presets == <<"calm", "kinetic", "cosmic", "bass">>
PresetSet == {"calm", "kinetic", "cosmic", "bass"}

Mul(a, b) == (a * b + Unit \div 2) \div Unit

\* mergeEvidenceScore, over any number of pieces of evidence and their strengths
Merged(strengths) ==
    Unit - MapThenFoldSet(Mul, Unit, LAMBDA x : Unit - x[2], LAMBDA T : CHOOSE x \in T : TRUE, strengths)

-----------------------------------------------------------------------------
(* Rules.                                                                  *)

Aliases == [dnb |-> "drum and bass", synth_wave |-> "synthwave"]
Canonical(tag) == IF tag \in DOMAIN Aliases THEN Aliases[tag] ELSE tag

Rules ==
    {<<"chillstep", "calm", 9500>>, <<"ambient", "calm", 7800>>, <<"downtempo", "calm", 7800>>,
     <<"chillout", "calm", 7400>>, <<"melodic dubstep", "kinetic", 9500>>,
     <<"drum and bass", "kinetic", 9200>>, <<"complextro", "kinetic", 9200>>,
     <<"electro house", "kinetic", 8600>>, <<"breakbeat", "kinetic", 7800>>,
     <<"glitch hop", "kinetic", 8200>>, <<"trance", "cosmic", 9200>>,
     <<"progressive house", "cosmic", 8400>>, <<"synthwave", "cosmic", 8200>>,
     <<"retrowave", "cosmic", 8200>>, <<"dubstep", "bass", 7800>>, <<"brostep", "bass", 9600>>,
     <<"riddim", "bass", 9500>>, <<"tearout", "bass", 9600>>, <<"hardstyle", "bass", 9100>>,
     <<"rawstyle", "bass", 9500>>, <<"gabber", "bass", 9200>>}

RulesFor(names, p) == {r \in Rules : r[1] \in names /\ r[2] = p}

\* Feature, TRUE if it counts and FALSE if its absence does, preset, coefficient.
Dsp ==
    {<<"energy", FALSE, "calm", 4000>>, <<"energy", TRUE, "kinetic", 2000>>, <<"energy", TRUE, "bass", 1500>>,
     <<"arousal", FALSE, "calm", 3500>>,
     <<"dynamic_smoothness", TRUE, "calm", 2500>>, <<"dynamic_smoothness", TRUE, "cosmic", 1500>>,
     <<"dynamic_range", TRUE, "calm", 1000>>,
     <<"danceability", TRUE, "kinetic", 4500>>, <<"danceability", TRUE, "cosmic", 1000>>,
     <<"onset_rate", TRUE, "kinetic", 2500>>,
     <<"pulse_clarity", TRUE, "kinetic", 3500>>, <<"pulse_clarity", TRUE, "cosmic", 3000>>,
     <<"spectral_flux", FALSE, "calm", 1500>>, <<"spectral_flux", TRUE, "kinetic", 1500>>,
     <<"spectral_centroid", TRUE, "kinetic", 800>>, <<"spectral_centroid", TRUE, "bass", 600>>,
     <<"spectral_flatness", TRUE, "bass", 800>>,
     <<"tonal_strength", TRUE, "cosmic", 2500>>, <<"harmonicity", TRUE, "cosmic", 2000>>,
     <<"spatiality", TRUE, "cosmic", 2000>>,
     <<"bass_energy", TRUE, "bass", 4500>>, <<"sub_bass_energy", TRUE, "bass", 4000>>,
     <<"drop_contrast", TRUE, "bass", 3500>>, <<"roughness", TRUE, "bass", 2500>>,
     <<"loudness", FALSE, "calm", 800>>, <<"loudness", TRUE, "bass", 1000>>,
     <<"high_energy_segments", TRUE, "kinetic", 800>>, <<"high_energy_segments", TRUE, "bass", 1000>>}

Folded(bpm) ==
    CASE bpm < 35 -> 4 * bpm
      [] bpm \in 35..69 -> 2 * bpm
      [] bpm \in 191..380 -> bpm \div 2
      [] bpm > 380 -> bpm \div 4
      [] OTHER -> bpm

\* tempoAffinity with full confidence
Affinity(bpm, center, width) ==
    LET far == IF bpm > center THEN bpm - center ELSE center - bpm
    IN  Max({0, Unit - (far * Unit) \div width})

-----------------------------------------------------------------------------
(* Scores.                                                                 *)

\* BuildMusicPresetProjection: every genre once.
GenreScore(t, p) ==
    Merged({<<r, Mul(r[3], Weight)>> : r \in RulesFor({Canonical(tag) : tag \in t}, p)})

\* Strength of the labels for p: every label counts, also two of one genre.
Labelled(labels, p) ==
    Merged({<<x, x[2][3]>> : x \in {<<l, r>> \in labels \X Rules : Canonical(l) = r[1] /\ r[2] = p}})

ModelScore(labels, p) == Mul(Mul(Labelled(labels, p), 7200), Weight)

DspScore(features, bpm, p) ==
    LET level(d) == IF d[2] THEN features[d[1]] ELSE Unit - features[d[1]]
        tempo == IF bpm = 0 THEN 0
                 ELSE CASE p = "kinetic" -> Affinity(Folded(bpm), 160, 90)
                        [] p = "cosmic" -> Affinity(Folded(bpm), 130, 75)
                        [] OTHER -> 0
        entries == {d \in Dsp : d[1] \in DOMAIN features /\ d[3] = p} \cup {<<"tempo", TRUE, p, 1200>>}
    IN  Mul(Mul(Merged({<<d, Mul(IF d[1] = "tempo" THEN tempo ELSE level(d), d[4])>> : d \in entries}), 5500), Weight)

\* instrumentalCalmEvidence
InstrumentalCalm(t, features) ==
    LET has(f) == f \in DOMAIN features
        instrumental == IF has("instrumental") THEN features["instrumental"]
                        ELSE IF has("vocal") THEN Unit - features["vocal"] ELSE 0
        support == IF has("arousal") THEN Unit - features["arousal"]
                   ELSE IF has("dynamic_smoothness") THEN features["dynamic_smoothness"] ELSE 0
    IN  IF "instrumental" \in t /\ has("energy") /\ instrumental >= 5000 /\ features["energy"] <= 5000
        THEN Min({instrumental, Unit - features["energy"], support})
        ELSE 0

\* BuildMusicPresetProjectionWithAudio
Scores(t, analyses) ==
    [p \in PresetSet |->
       Merged({<<"genre", GenreScore(t, p)>>} \cup
              UNION {{<<"model", ModelScore(a.labels, p)>>, <<"dsp", DspScore(a.features, a.bpm, p)>>,
                      <<"both", IF p = "calm" THEN Mul(Mul(InstrumentalCalm(t, a.features), 8000), Weight) ELSE 0>>} :
                     a \in analyses})]

-----------------------------------------------------------------------------
(* The decision.                                                           *)

\* Mutation: the threshold without the margin.
DecisionByThreshold(scores) ==
    LET top == Max({scores[p] : p \in PresetSet})
        first == Presets[Min({i \in 1..4 : scores[Presets[i]] = top})]
    IN  IF top = 0 THEN [primary |-> NoPreset, automatic |-> NoPreset, status |-> "unclassified"]
        ELSE IF top >= AutoThreshold
        THEN [primary |-> first, automatic |-> first, status |-> "classified"]
        ELSE [primary |-> first, automatic |-> NoPreset, status |-> "needs_review"]

\* applyPresetDecision: the best, the earlier of equals, if it leads clearly.
Decision(scores) ==
    LET top == Max({scores[p] : p \in PresetSet})
        first == Presets[Min({i \in 1..4 : scores[Presets[i]] = top})]
        second == Max({scores[p] : p \in PresetSet \ {first}})
    IN  IF top = 0 THEN [primary |-> NoPreset, automatic |-> NoPreset, status |-> "unclassified"]
        ELSE IF top >= AutoThreshold /\ top - second >= ReviewMargin
        THEN [primary |-> first, automatic |-> first, status |-> "classified"]
        ELSE [primary |-> first, automatic |-> NoPreset, status |-> "needs_review"]

class == Decision(Scores(tags, evidence))

\* ListSummaries: what the list of presets shows of this track.
ShownIn == IF manual # NoPreset THEN manual ELSE class.automatic

ReviewedFor == IF manual = NoPreset /\ class.status = "needs_review" THEN class.primary ELSE NoPreset

-----------------------------------------------------------------------------
Init == tags \in TagSets /\ evidence = {} /\ manual = NoPreset

\* ReclassifyWithAudio
Analyzed ==
    /\ evidence = {}
    /\ \E l \in LabelSets, f \in FeatureSets, b \in Tempi :
         evidence' = {[labels |-> l, features |-> f, bpm |-> b]}
    /\ UNCHANGED <<tags, manual>>

\* Update of the genres drops the audio evidence.
Retag == tags' \in TagSets /\ evidence' = {} /\ UNCHANGED manual

SetManual == manual' \in ManualChoices /\ UNCHANGED <<tags, evidence>>

ClearManual == manual' = NoPreset /\ UNCHANGED <<tags, evidence>>

Next == Analyzed \/ Retag \/ SetManual \/ ClearManual

Spec == Init /\ [][Next]_vars

-----------------------------------------------------------------------------
\* Audio evidence against the genre rules never classifies by itself: it sends
\* the track to review ("conflicts ... route the track to review", comment of
\* BuildMusicPresetProjectionWithAudio).  What it confirms of the genre
\* "instrumental" may outweigh the other genres, for calm alone.
ConflictsReviewed ==
    LET byGenre == Decision(Scores(tags, {})).automatic
        confirmed == \E a \in evidence : InstrumentalCalm(tags, a.features) > 0
    IN  byGenre # NoPreset =>
          class.automatic \in {byGenre, NoPreset} \cup (IF confirmed THEN {"calm"} ELSE {})

\* Without a known genre and without labels DSP features alone classify
\* nothing, and "instrumental" only a track of little energy that is calm or
\* smooth (Readme.md:458).
WeakEvidenceAbstains ==
    \A a \in evidence :
      /\ a.labels = {} /\ \A p \in PresetSet : GenreScore(tags, p) = 0
      /\ class.automatic # NoPreset
      => /\ class.automatic = "calm" /\ "instrumental" \in tags
         /\ "energy" \in DOMAIN a.features /\ a.features["energy"] <= 5000
         /\ \/ "arousal" \in DOMAIN a.features /\ a.features["arousal"] < 5000
            \/ "dynamic_smoothness" \in DOMAIN a.features /\ a.features["dynamic_smoothness"] > 5000

\* A track is in one collection or in the review queue of one, not both, and
\* in neither only without evidence (Readme.md:416).
ShownOnce ==
    /\ ShownIn = NoPreset \/ ReviewedFor = NoPreset
    /\ ShownIn = NoPreset /\ ReviewedFor = NoPreset => class.status = "unclassified"
=============================================================================
