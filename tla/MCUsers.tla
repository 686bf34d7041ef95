------------------------------- MODULE MCUsers -------------------------------
(***************************************************************************)
(* Users and their browsers on small instances: the tabs of one browser    *)
(* against Sessions, Accounts, WebRefresh and WebPlayer.  The models share *)
(* no state, so every behaviour is one of one of them: "part" says of      *)
(* which one, and the variables of the others stay as they are.            *)
(***************************************************************************)
EXTENDS Sessions, Accounts, WebRefresh, TLC

CONSTANTS b1, r1, r2, r3, tab, n1, t1, t2, t3, NoTrack

VARIABLES
    part,
    player, flights, renewed, login                  \* WebPlayer

OneTab == [r \in {r1, r2, r3, n1} |-> tab]

\* The player of a public library, where nothing is awaited.
Player == INSTANCE WebPlayer WITH
    Contexts <- {<<t1, t2, t1>>, <<t2, t3>>}, Private <- FALSE, Patient <- FALSE,
    SessionsEnd <- FALSE, Length <- 1, MaxRecent <- 2, MaxQueue <- 3, MaxFlights <- 0,
    MaxExpiries <- 0, MaxPending <- 2, expired <- renewed, session <- login

\* The player of a private library, whose user does nothing while an answer is
\* awaited; URLs and the session expire.
Private == INSTANCE WebPlayer WITH
    Contexts <- {<<t1, t2>>, <<t2>>}, Private <- TRUE, Patient <- TRUE,
    SessionsEnd <- TRUE, Length <- 1, MaxRecent <- 1, MaxQueue <- 2, MaxFlights <- 2,
    MaxExpiries <- 1, MaxPending <- 1, expired <- renewed, session <- login

ASSUME Player!PlayerConstants /\ Private!PlayerConstants

-----------------------------------------------------------------------------
playerVars == <<player, flights, renewed, login>>

PlayerOff == player = "off" /\ flights = "off" /\ renewed = "off" /\ login = "off"

\* Three tabs that refresh, what is sent arriving within half the grace period;
\* a tab that is opened and makes three requests.
MCInit ==
    /\ Init /\ AccountInit /\ ClientInit
    /\ \/ part \in {"tabs", "accounts", "client"} /\ PlayerOff
       \/ part = "player" /\ Player!Init
       \/ part = "private" /\ Private!Init

MCNext ==
    \/ part = "tabs" /\ Next /\ UNCHANGED <<part, accountVars, refreshVars, playerVars>>
    \/ part = "accounts" /\ AccountNext /\ UNCHANGED <<part, vars, refreshVars, playerVars>>
    \/ part = "client" /\ ClientNext /\ UNCHANGED <<part, vars, accountVars, playerVars>>
    \/ part = "player" /\ Player!Next /\ UNCHANGED <<part, vars, accountVars, refreshVars>>
    \/ part = "private" /\ Private!Next /\ UNCHANGED <<part, vars, accountVars, refreshVars>>

MCSpec == MCInit /\ [][MCNext]_<<part, vars, accountVars, refreshVars, playerVars>>

Symmetric == Permutations({r1, r2, r3}) \cup Permutations(Users)

-----------------------------------------------------------------------------
\* In a public library what is heard is the track that is shown, the queue has
\* no track twice, a reload brings both back, and a position is stored for its
\* own track; in a private one an expired URL is renewed before it is played,
\* if the user waits for answers (player.test.ts:139, player.ts:160).
PlayerFollowsQueue ==
    /\ [](part = "player" => Player!PlaysCurrent /\ Player!QueueIsSound /\ Player!ReloadKeepsQueue)
    /\ [][/\ part = "player" => Player!StoresOwnPosition
          /\ part = "private" => Private!RenewedBeforePlay]_<<part, playerVars>>
=============================================================================
