----------------------------- MODULE WebPlayer ------------------------------
(***************************************************************************)
(* The player of the web client: its queue, the audio element, and what it *)
(* keeps in localStorage.  In a private library the URL of a track expires *)
(* and is renewed before it is played, by a request whose answer comes     *)
(* between other events: flights are the calls that await one.  Whatever   *)
(* does not await runs to its end.  A track is its id and the serial of    *)
(* its URL; serials up to expired have expired.  Places in the queue count *)
(* from 1, and 0 stands for the index -1.                                  *)
(***************************************************************************)
EXTENDS Naturals, Sequences, SequencesExt

CONSTANTS
    NoTrack,
    Contexts,    \* lists of ids that pages show
    Private,     \* libraryRequiresAuth
    Patient,     \* the user waits for answers
    SessionsEnd, \* sessions end elsewhere, too
    Length,      \* duration of every track
    MaxRecent, MaxQueue, MaxFlights, MaxExpiries, MaxPending \* bounds of the model, but for MaxRecent

PlayerConstants ==
    /\ {Private, Patient, SessionsEnd} \subseteq BOOLEAN
    /\ Length \in Nat \ {0} /\ MaxRecent \in Nat \ {0}

VARIABLES
    player,  \* the store, the audio element and what is stored
    flights, \* refreshes of a URL on their way, in any order
    expired,
    session  \* "on", "leaving" for the login page, or "over"

vars == <<player, flights, expired, session>>

Lesser(a, b) == IF a < b THEN a ELSE b
Fresh(t) == ~Private \/ t.url > expired
Current(p) == IF p.index \in DOMAIN p.queue THEN p.queue[p.index] ELSE NoTrack
HasNext(p) == p.index > 0 /\ p.index < Len(p.queue)
Place(q, id) == IF \E k \in DOMAIN q : q[k] # NoTrack /\ q[k].id = id
                THEN CHOOSE k \in DOMAIN q : q[k] # NoTrack /\ q[k].id = id ELSE 0

\* An assignment past the end of an array leaves holes.
Put(q, k, t) == [j \in 1..(IF k > Len(q) THEN k ELSE Len(q)) |->
                   IF j = k THEN t ELSE IF j \in DOMAIN q THEN q[j] ELSE NoTrack]

NormalizeQueue(tracks) ==
    FoldLeft(LAMBDA q, t : IF Place(q, t.id) = 0 THEN Append(q, t) ELSE q, <<>>, tracks)

Listed(context, url) == [k \in DOMAIN context |-> [id |-> context[k], url |-> url]]

-----------------------------------------------------------------------------
(* The store and its element, without awaits.                              *)

Persist(p) ==
    [p EXCEPT !.stored = [queue |-> p.queue, index |-> p.index, time |-> p.time, recent |-> p.recent]]

UpdateRecent(p, t, position) ==
    IF t = NoTrack THEN p ELSE
    LET entries == <<[track |-> t, position |-> position]>>
                     \o SelectSeq(p.recent, LAMBDA e : e.track.id # t.id)
    IN  [p EXCEPT !.recent = SubSeq(entries, 1, Lesser(Len(entries), MaxRecent))]

\* A new source pauses the element and rejects the promises of play().
Load(p, t) ==
    [p EXCEPT !.src = t, !.loaded = FALSE, !.position = 0, !.paused = TRUE, !.starting = <<>>,
              !.isPlaying = @ /\ p.starting = <<>>]

AudioPlay(p, t) ==
    [p EXCEPT !.starting = Append(@, t), !.paused = FALSE,
              !.position = IF @ = Length THEN 0 ELSE @,
              !.events = IF p.paused THEN Append(@, "play") ELSE @]

AudioPause(p) ==
    [p EXCEPT !.paused = TRUE, !.starting = <<>>, !.isPlaying = @ /\ p.starting = <<>>,
              !.events = IF p.paused THEN @ ELSE Append(@, "pause")]

\* play() once its track is at hand.
PlayTrackNow(p, t, before) ==
    AudioPlay(IF t # before \/ p.src # t THEN Load([p EXCEPT !.seek = p.time], t) ELSE p, t)

\* activateIndex once its track is at hand.
Activated(p, k, t, resumeAt) ==
    LET q == [p EXCEPT !.index = k, !.time = resumeAt, !.duration = 0, !.seek = resumeAt]
    IN  Persist(UpdateRecent(IF t # NoTrack /\ p.src # t THEN Load(q, t) ELSE q, t, resumeAt))

-----------------------------------------------------------------------------
(* Calls that may await: refreshTrackAtIndex.                              *)

Becomes(p, fs) == player' = p /\ flights' = fs

Await(p, fs, kind, k, resumeAt) ==
    /\ Len(fs) < MaxFlights
    /\ Becomes(p, Append(fs, [kind |-> kind, index |-> k, track |-> p.queue[k], resumeAt |-> resumeAt]))

Play(p, fs) ==
    LET t == Current(p) IN
    CASE t = NoTrack -> Becomes(p, fs)
      [] t # NoTrack /\ Fresh(t) -> Becomes(PlayTrackNow(p, t, t), fs)
      [] OTHER -> Await(p, fs, "play", p.index, 0)

ActivateIndex(p, fs, k, resumeAt) ==
    IF k \notin DOMAIN p.queue THEN Becomes(p, fs)
    ELSE LET t == p.queue[k] IN
         IF t = NoTrack \/ Fresh(t) THEN Play(Activated(p, k, t, resumeAt), fs)
         ELSE Await(p, fs, "activate", k, resumeAt)

\* The call f goes on with p, and with t for its track.
Resume(p, fs, f, t) ==
    IF f.kind = "activate"
    THEN Play(Activated(p, f.index, t, f.resumeAt), fs)
    ELSE Becomes(PlayTrackNow(p, t, f.track), fs)

Renewed(n) ==
    LET f == flights[n]
        t == [id |-> f.track.id, url |-> expired + 1]
        renew(e) == IF e.track.id = t.id THEN [e EXCEPT !.track = t] ELSE e
        p == [player EXCEPT !.queue = Put(@, f.index, t),
                            !.recent = [k \in DOMAIN @ |-> renew(@[k])]]
    IN  Resume(p, RemoveAt(flights, n), f, t) /\ UNCHANGED <<expired, session>>

NotRenewed(n) ==
    /\ Resume(player, RemoveAt(flights, n), flights[n], flights[n].track)
    /\ UNCHANGED <<expired, session>>

-----------------------------------------------------------------------------
(* The user.                                                               *)

\* The page is there, and its events have been handled but for a few.
Acts ==
    /\ player.attached /\ session = "on" /\ Len(player.events) + Len(player.starting) < MaxPending
    /\ Patient => flights = <<>>
    /\ UNCHANGED <<expired, session>>

Toggle(p) == IF p.isPlaying THEN Becomes(AudioPause(p), flights) ELSE Play(p, flights)

TogglePlayback == Acts /\ Toggle(player)

ToggleTrack(context, k, url) ==
    LET tracks == NormalizeQueue(Listed(context, url)) IN
    /\ Acts
    /\ IF Current(player) # NoTrack /\ Current(player).id = context[k] THEN Toggle(player)
       ELSE ActivateIndex([player EXCEPT !.queue = tracks], flights, Place(tracks, context[k]), 0)

PlayCollection(context, url) ==
    /\ Acts
    /\ ActivateIndex([player EXCEPT !.queue = NormalizeQueue(Listed(context, url))], flights, 1, 0)

\* At its place in the queue, or at the end: playTrack and resumeRecent.
PlayAt(t, resumeAt) ==
    LET k == Place(player.queue, t.id) IN
    IF k > 0 THEN ActivateIndex(player, flights, k, resumeAt)
    ELSE /\ Len(player.queue) < MaxQueue
         /\ ActivateIndex([player EXCEPT !.queue = Append(@, t)], flights, Len(player.queue) + 1, resumeAt)

ToggleSingle(t) ==
    /\ Acts
    /\ IF Current(player) # NoTrack /\ Current(player).id = t.id THEN Toggle(player) ELSE PlayAt(t, 0)

ResumeRecent(e) == Acts /\ PlayAt(player.recent[e].track, player.recent[e].position)

EnqueueTracks(context, url) ==
    LET added == SelectSeq(NormalizeQueue(Listed(context, url)), LAMBDA t : Place(player.queue, t.id) = 0)
        p == [player EXCEPT !.queue = @ \o added, !.index = IF @ = 0 THEN 1 ELSE @]
    IN  Acts /\ added # <<>> /\ Len(p.queue) <= MaxQueue /\ Becomes(Persist(p), flights)

SelectQueueIndex(k) ==
    Acts /\ IF k = player.index THEN Play(player, flights) ELSE ActivateIndex(player, flights, k, 0)

Previous == Acts /\ player.index > 1 /\ ActivateIndex(player, flights, player.index - 1, 0)

NextTrack == Acts /\ HasNext(player) /\ ActivateIndex(player, flights, player.index + 1, 0)

Seek(position) ==
    LET to == Lesser(position, player.duration)
        p == [player EXCEPT !.position = IF player.loaded THEN to ELSE @, !.time = to]
    IN  Acts /\ Becomes(Persist(UpdateRecent(p, Current(p), to)), flights)

\* Mutation: the element keeps its source.
EmptiedButSource(p) ==
    Persist([AudioPause(p) EXCEPT
               !.queue = <<>>, !.index = 0, !.time = 0, !.duration = 0, !.seek = 0, !.isPlaying = FALSE])

Emptied(p) ==
    Persist([Load(AudioPause(p), NoTrack) EXCEPT
               !.queue = <<>>, !.index = 0, !.time = 0, !.duration = 0, !.seek = 0, !.isPlaying = FALSE])

ForgetRecent(p) == Persist([p EXCEPT !.recent = <<>>])

Clear == Acts /\ Becomes(Emptied(player), flights)

ClearRecent == Acts /\ Becomes(ForgetRecent(player), flights)

-----------------------------------------------------------------------------
(* The element.                                                            *)

Element == player.attached /\ UNCHANGED <<flights, expired, session>>

HandleEvent ==
    /\ Element /\ player.events # <<>>
    /\ LET p == [player EXCEPT !.events = Tail(@), !.isPlaying = Head(player.events) = "play"]
       IN  player' = IF p.isPlaying THEN p ELSE Persist(UpdateRecent(p, Current(p), p.time))

HandleLoadedMetadata ==
    /\ Element /\ player.src # NoTrack /\ ~player.loaded
    /\ LET p == [player EXCEPT !.loaded = TRUE, !.duration = Length]
           to == Lesser(p.seek, Length)
       IN  player' = IF p.seek = 0 THEN p ELSE [p EXCEPT !.position = to, !.time = to, !.seek = 0]

\* The time of a playing element moves on, and is stored every 5 seconds.
HandleTimeUpdate ==
    /\ Element /\ player.src # NoTrack
    /\ \E to \in {player.position, player.position + 1}, saves \in BOOLEAN :
         /\ to > player.position => player.loaded /\ ~player.paused /\ to <= Length
         /\ LET p == [player EXCEPT !.position = to, !.time = to]
            IN  player' = IF saves THEN Persist(UpdateRecent(p, Current(p), to)) ELSE p

\* The promise of play() is kept, or fails with the source.
PlayStarted ==
    /\ Element /\ player.starting # <<>> /\ player.loaded
    /\ player' = Persist(UpdateRecent([player EXCEPT !.starting = <<>>], Last(player.starting), player.time))

HandleError ==
    /\ Element /\ player.src # NoTrack /\ ~player.loaded
    /\ player' = [player EXCEPT !.starting = <<>>, !.isPlaying = FALSE]

\* The end pauses the element before it is handled.
HandleEnded ==
    LET t == Current(player)
        paused == [player EXCEPT !.paused = TRUE, !.isPlaying = FALSE, !.starting = <<>>, !.time = Length]
        p == UpdateRecent(Persist(UpdateRecent(paused, t, Length)), t, 0)
    IN  /\ player.attached /\ player.loaded /\ ~player.paused /\ player.position = Length
        /\ IF HasNext(p) THEN ActivateIndex(p, flights, p.index + 1, 0)
           ELSE Becomes(Persist([p EXCEPT !.position = 0, !.time = 0, !.seek = 0]), flights)
        /\ UNCHANGED <<expired, session>>

-----------------------------------------------------------------------------
(* The page and the session.                                               *)

NoAudio == [src |-> NoTrack, loaded |-> FALSE, position |-> 0, paused |-> TRUE, starting |-> <<>>,
            events |-> <<>>, isPlaying |-> FALSE, duration |-> 0, attached |-> FALSE]

\* loadPlayerState: holes are left out.
Restored(stored) ==
    LET queue == SelectSeq(stored.queue, LAMBDA t : t # NoTrack)
        index == IF stored.index \in DOMAIN queue THEN stored.index ELSE Lesser(1, Len(queue))
    IN  NoAudio @@ [queue |-> queue, index |-> index, time |-> stored.time, seek |-> stored.time,
                    recent |-> SubSeq(stored.recent, 1, Lesser(Len(stored.recent), MaxRecent)), stored |-> stored]

Reload ==
    /\ player' = Restored(player.stored)
    /\ flights' = <<>>
    /\ session' = IF session = "leaving" THEN "over" ELSE session
    /\ UNCHANGED expired

AttachAudio ==
    LET t == Current(player) IN
    /\ ~player.attached
    /\ player' = [player EXCEPT !.attached = TRUE, !.src = t, !.seek = IF t = NoTrack THEN @ ELSE player.time]
    /\ UNCHANGED <<flights, expired, session>>

\* Time passes, and all URLs expire that there are.
Expire ==
    /\ Private /\ expired < MaxExpiries
    /\ expired' = expired + 1
    /\ UNCHANGED <<player, flights, session>>

\* BaseLayout clears what a private library left.
Logout ==
    /\ Private /\ session = "on" /\ player.attached /\ (Patient => flights = <<>>)
    /\ session' = "over"
    /\ player' = ForgetRecent(Emptied(player))
    /\ UNCHANGED <<flights, expired>>

\* A request finds that the session is over: redirectToLogin.
SessionEnds(n) ==
    /\ session = "on" /\ SessionsEnd
    /\ session' = "leaving"
    /\ Resume(player, RemoveAt(flights, n), flights[n], flights[n].track)
    /\ UNCHANGED expired

\* The guard of a private page finds it.
RouterGuard ==
    LET p == IF Current(player) = NoTrack THEN player ELSE Emptied(player) IN
    /\ Private /\ session # "leaving" /\ (session = "on" => SessionsEnd)
    /\ session' = "over"
    /\ player' = IF p.recent = <<>> THEN p ELSE ForgetRecent(p)
    /\ UNCHANGED <<flights, expired>>

Init ==
    /\ player = Restored([queue |-> <<>>, index |-> 0, time |-> 0, recent |-> <<>>])
    /\ flights = <<>> /\ expired = 0 /\ session = "on"

Pages(context, url) ==
    \/ \E k \in DOMAIN context : ToggleTrack(context, k, url) \/ ToggleSingle([id |-> context[k], url |-> url])
    \/ PlayCollection(context, url) \/ EnqueueTracks(context, url)

\* What a page shows may have been read before the last expiry.
User ==
    \/ \E context \in Contexts, url \in {expired + 1} \cup ({expired} \ {0}) : Pages(context, url)
    \/ \E e \in DOMAIN player.recent : ResumeRecent(e)
    \/ \E k \in DOMAIN player.queue : SelectQueueIndex(k)
    \/ \E position \in 0..Length : Seek(position)
    \/ TogglePlayback \/ Previous \/ NextTrack \/ Clear \/ ClearRecent \/ Logout

Next ==
    \/ User
    \/ HandleEvent \/ HandleLoadedMetadata \/ HandleTimeUpdate \/ PlayStarted \/ HandleError \/ HandleEnded
    \/ \E n \in DOMAIN flights : Renewed(n) \/ NotRenewed(n) \/ SessionEnds(n)
    \/ Reload \/ AttachAudio \/ Expire \/ RouterGuard

Spec == Init /\ [][Next]_vars

-----------------------------------------------------------------------------
\* What is heard is what is shown: once no answer is awaited, the element has
\* the source of the current track (player.test.ts:139, 168).
PlaysCurrent ==
    flights = <<>> /\ player.src # NoTrack =>
        Current(player) # NoTrack /\ Current(player).id = player.src.id

\* No track is queued twice, no place is empty, and the index is one of the
\* queue as long as there is a track (player.test.ts:185).
QueueIsSound ==
    /\ \A j, k \in DOMAIN player.queue :
         player.queue[j] # NoTrack /\ (j # k => player.queue[j].id # player.queue[k].id)
    /\ flights = <<>> => (player.index = 0 <=> player.queue = <<>>) /\ player.index <= Len(player.queue)

\* A reload at any time shows the queue and the track that were shown before
\* (persistState), unless an answer is awaited.
ReloadKeepsQueue ==
    player.attached /\ flights = <<>> =>
        /\ Restored(player.stored).queue = player.queue
        /\ Current(Restored(player.stored)) = Current(player)

\* A position is stored for the track whose position it is: the track that is
\* shown when it is stored is the source of the element.
StoresOwnPosition ==
    player'.stored # player.stored /\ player'.stored.time > 0 =>
      Current(player') # NoTrack /\ Current(player').id = player'.src.id

\* An element that has loaded its source knows its duration, to which seeking
\* is clamped (player.test.ts:143). It fails when the track that is the source
\* is started again.
KnowsDuration == player.loaded => player.duration = Length

\* A track whose URL has expired is renewed before it is played, unless the
\* request fails ("the frontend renews before playback", Readme.md:533).
RenewedBeforePlay ==
    \A t \in Range(player'.starting) \ Range(player.starting) :
      t.url > expired \/ \E n \in DOMAIN flights : NotRenewed(n) \/ SessionEnds(n)

\* No expired URL is handed to the element unless its renewal failed
\* (mediaURLIsFresh, player.ts:160). It fails: attachAudio takes the stored URL
\* as it is.
HandedFresh ==
    [][player'.src \notin {player.src, NoTrack} =>
         player'.src.url > expired \/ \E n \in DOMAIN flights : NotRenewed(n) \/ SessionEnds(n)]_vars

\* Nothing of a private library stays in the browser when the session is over,
\* by logging out or at the login page (Readme.md:537). It fails: the answer to
\* a renewal refills the queue, and the login page restores it.
SessionLeavesNothing ==
    Private /\ session = "over" => player.stored.queue = <<>> /\ player.stored.recent = <<>>
=============================================================================
