------------------------------ MODULE MCSettles ------------------------------
(***************************************************************************)
(* What must happen in the end, on small instances: Migrations, the probes *)
(* of MediaRoots and the requests of WebRefresh, under their fairness.     *)
(* The models share no state, so every behaviour is one of one of them:    *)
(* "part" says of which one, and the variables of the others stay as they  *)
(* are.                                                                    *)
(***************************************************************************)
EXTENDS Migrations, Sequences, TLC

CONSTANTS
    p1, p2, old,                        \* two processes of the newest binary, an older one
    m1, NoRoot, s1, q1, q2,             \* MediaRoots
    tab, other, r1, r2, r3, NoFetch     \* WebRefresh

VARIABLES
    part,
    root, health, scan, indexed, call, probe, mounted, clock, edits, walks, flips, \* MediaRoots
    serial, live, jar, token, expired, gone, promise, refresh, fetch, restore, missed \* WebRefresh

Newest == [p \in {p1, p2, old} |-> IF p = old THEN 2 ELSE 3]

-----------------------------------------------------------------------------
Music == <<"music">>
Jazz == <<"music", "jazz">>

\* Two probers that go on while storage and path change.
Settling == INSTANCE MediaRoots WITH
    Roots <- {m1}, Paths <- {Music, Jazz}, ManagedPath <- <<"uploads", "managed">>,
    Servers <- {s1}, Probers <- {q1, q2}, FirstRoots <- [r \in {m1} |-> Music], MaxEdits <- 1,
    MaxScans <- 0, MaxFlips <- 1, MaxClock <- 2, files <- indexed, scans <- walks

\* Two tabs, which make three requests with a token.
Ending == INSTANCE WebRefresh WITH
    Tabs <- {tab, other}, Fetches <- {r1, r2, r3}, Navigations <- {},
    TabOf <- (r1 :> tab) @@ (r2 :> tab) @@ (r3 :> other), InitialToken <- 1, MaxExpiries <- 2, MaxMissed <- 1

ASSUME Settling!RootConstants /\ Ending!RefreshConstants

-----------------------------------------------------------------------------
rootVars == <<root, health, scan, indexed, call, probe, mounted, clock, edits, walks, flips>>
clientVars == <<serial, live, jar, token, expired, gone, promise, refresh, fetch, restore, missed>>
allVars == <<part, vars, rootVars, clientVars>>

RootsOff ==
    /\ root = "off" /\ health = "off" /\ scan = "off" /\ indexed = "off" /\ call = "off"
    /\ probe = "off" /\ mounted = "off" /\ clock = "off" /\ edits = "off" /\ walks = "off"
    /\ flips = "off"
ClientOff ==
    /\ serial = "off" /\ live = "off" /\ jar = "off" /\ token = "off" /\ expired = "off"
    /\ gone = "off" /\ promise = "off" /\ refresh = "off" /\ fetch = "off" /\ restore = "off"
    /\ missed = "off"

MCInit ==
    /\ Init
    /\ \/ part = "history" /\ RootsOff /\ ClientOff
       \/ part = "settling" /\ Settling!Init /\ ClientOff /\ history = {}
       \/ part = "ending" /\ Ending!ClientInit /\ RootsOff /\ history = {}

InHistory(A) == part = "history" /\ A /\ UNCHANGED <<part, rootVars, clientVars>>
InSettling(A) == part = "settling" /\ A /\ UNCHANGED <<part, vars, clientVars>>
InEnding(A) == part = "ending" /\ A /\ UNCHANGED <<part, vars, rootVars>>

MCNext == InHistory(Next) \/ InSettling(Settling!Next) \/ InEnding(Ending!ClientNext)

\* A supervisor starts a process again; healthWorker ticks for ever and probes
\* every enabled root; what is sent is answered, and answers are handled.
MCSpec ==
    /\ MCInit /\ [][MCNext]_allVars
    /\ \A p \in Processes : WF_allVars(InHistory(Start(p)))
    /\ \A q \in {q1, q2} : /\ WF_allVars(InSettling(Settling!Probe(q)))
                           /\ SF_allVars(InSettling(Settling!ProbeResolves(q, m1)))
    /\ WF_allVars(InSettling(Settling!Tick))
    /\ \A r \in {r1, r2, r3} : WF_allVars(InEnding(Ending!Progress(r)))

-----------------------------------------------------------------------------
\* The newest binary serves in the end, however often it loses a migration to
\* another process (migrate).
NewestServed == part = "history" => NewestServes

\* When storage stops coming and going, recorded health is in the end what the
\* storage is (healthWorker).
HealthSettles == <>[](part = "settling" => Settling!HealthIsTrue(m1))

\* Every request of a tab ends, also those that wait for a refresh of another
\* one (refreshAccessToken).
EveryRequestEnds ==
    \A r \in {r1, r2, r3} : (part = "ending" /\ Ending!Pending(r)) ~> (part = "ending" /\ ~Ending!Pending(r))
=============================================================================
