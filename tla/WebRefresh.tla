----------------------------- MODULE WebRefresh -----------------------------
(***************************************************************************)
(* The web client's requests and its refresh of the access token: the      *)
(* tabs of one browser share the refresh jar, every tab has a token in  *)
(* memory and at most one refresh that its requests share.  The server is  *)
(* as far as the client sees it: Sessions has its statements.  Tokens of a *)
(* tab are numbered; 0 is none, and those up to expired[t] have expired.   *)
(***************************************************************************)
EXTENDS Naturals

CONSTANTS
    Tabs,
    Fetches, NoFetch, \* requests
    Navigations,  \* to pages that need the session
    TabOf,        \* the tab of every request and navigation
    InitialToken, \* 0 when the browser has just opened its tabs
    MaxExpiries,  \* bounds of the model, per tab
    MaxMissed

ASSUME RefreshConstants ==
    /\ NoFetch \notin Fetches
    /\ TabOf \in [Fetches \cup Navigations -> Tabs]
    /\ InitialToken \in Nat /\ MaxExpiries \in Nat /\ MaxMissed \in Nat

VARIABLES
    serial, live, \* the session on the server
    jar,       \* the serial that the browser holds
    token,        \* accessToken of every tab
    expired,
    gone,         \* tabs that went to the login page
    promise,      \* refreshPromise, named by the request that made it
    refresh,      \* the state of the refresh that a request made
    fetch,          \* requests and their tokens
    restore,      \* refreshSession of every navigation
    missed

refreshVars == <<serial, live, jar, token, expired, gone, promise, refresh, fetch, restore, missed>>
server == <<serial, live, expired>>
client == <<token, gone, promise>>

Of(t) == {r \in Fetches : TabOf[r] = t}
Waiting(t) == {r \in Of(t) : fetch[r].pc = "waiting"}
NoRefresh == [pc |-> "none", attempt |-> 0, serial |-> 0]

-----------------------------------------------------------------------------
(* Fetches.                                                               *)

Send(r) ==
    /\ fetch[r].pc = "idle" /\ ~gone[TabOf[r]] /\ token[TabOf[r]] # 0
    /\ fetch' = [fetch EXCEPT ![r] = [pc |-> "sent", token |-> token[TabOf[r]], replay |-> FALSE]]
    /\ UNCHANGED <<server, jar, client, refresh, restore, missed>>

Serve(r) ==
    /\ fetch[r].pc = "sent"
    /\ fetch' = [fetch EXCEPT ![r].pc =
                 IF live /\ fetch[r].token > expired[TabOf[r]] THEN "accepted" ELSE "denied"]
    /\ UNCHANGED <<server, jar, client, refresh, restore, missed>>

Accepted(r) ==
    /\ fetch[r].pc = "accepted"
    /\ fetch' = [fetch EXCEPT ![r].pc = "done"]
    /\ UNCHANGED <<server, jar, client, refresh, restore, missed>>

\* The tab leaves for the login page, and its requests end.
Leave(t) ==
    /\ gone' = [gone EXCEPT ![t] = TRUE]
    /\ token' = [token EXCEPT ![t] = 0]
    /\ promise' = [promise EXCEPT ![t] = NoFetch]
    /\ restore' = [n \in Navigations |-> IF TabOf[n] = t THEN NoRefresh ELSE restore[n]]
    /\ refresh' = [r \in Fetches |-> IF TabOf[r] = t THEN NoRefresh ELSE refresh[r]]
    /\ fetch' = [r \in Fetches |->
                 IF TabOf[r] = t /\ fetch[r].pc # "done" THEN [fetch[r] EXCEPT !.pc = "failed"] ELSE fetch[r]]

\* Mutation: every failed request makes a refresh of its own.
DeniedAlone(r) ==
    /\ fetch[r].pc = "denied"
    /\ IF fetch[r].replay
       THEN Leave(TabOf[r])
       ELSE /\ fetch' = [fetch EXCEPT ![r].pc = "waiting"]
            /\ promise' = [promise EXCEPT ![TabOf[r]] = r]
            /\ refresh' = [refresh EXCEPT ![r] = [pc |-> "sent", attempt |-> 0, serial |-> jar]]
            /\ UNCHANGED <<token, gone, restore>>
    /\ UNCHANGED <<server, jar, missed>>

\* The response interceptor on 401, and refreshAccessToken.
Denied(r) ==
    /\ fetch[r].pc = "denied"
    /\ IF fetch[r].replay
       THEN Leave(TabOf[r])
       ELSE /\ fetch' = [fetch EXCEPT ![r].pc = "waiting"]
            /\ IF promise[TabOf[r]] # NoFetch
               THEN UNCHANGED <<promise, refresh>>
               ELSE /\ promise' = [promise EXCEPT ![TabOf[r]] = r]
                    /\ refresh' = [refresh EXCEPT ![r] = [pc |-> "sent", attempt |-> 0, serial |-> jar]]
            /\ UNCHANGED <<token, gone, restore>>
    /\ UNCHANGED <<server, jar, missed>>

\* No response within the timeout: the request fails, the tab stays.
Miss(r) ==
    /\ fetch[r].pc \in {"sent", "accepted", "denied"} /\ missed < MaxMissed
    /\ fetch' = [fetch EXCEPT ![r].pc = "failed"]
    /\ missed' = missed + 1
    /\ UNCHANGED <<server, jar, client, refresh, restore>>

-----------------------------------------------------------------------------
(* The refresh.                                                            *)

\* RefreshSession within its grace window.
RefreshServed(r) ==
    /\ refresh[r].pc = "sent"
    /\ IF live /\ refresh[r].serial = serial
       THEN serial' = serial + 1 /\ refresh' = [refresh EXCEPT ![r].pc = "rotated", ![r].serial = serial + 1]
       ELSE /\ refresh' = [refresh EXCEPT ![r].pc = IF live THEN "concurrent" ELSE "refused"]
            /\ UNCHANGED serial
    /\ UNCHANGED <<live, expired, jar, client, fetch, restore, missed>>

\* Mutation: the promise stays when it has been kept.
RefreshedForever(r) ==
    LET t == TabOf[r] IN
    /\ refresh[r].pc = "rotated"
    /\ jar' = refresh[r].serial
    /\ token' = [token EXCEPT ![t] = @ + 1]
    /\ refresh' = [refresh EXCEPT ![r] = NoRefresh]
    /\ fetch' = [q \in Fetches |-> IF q \in Waiting(t)
                 THEN [pc |-> "sent", token |-> token[t] + 1, replay |-> TRUE] ELSE fetch[q]]
    /\ UNCHANGED <<server, gone, promise, restore, missed>>

\* The answer sets the jar and the token, and the requests that waited are
\* replayed.
Refreshed(r) ==
    LET t == TabOf[r] IN
    /\ refresh[r].pc = "rotated"
    /\ jar' = refresh[r].serial
    /\ token' = [token EXCEPT ![t] = @ + 1]
    /\ promise' = [promise EXCEPT ![t] = NoFetch]
    /\ refresh' = [refresh EXCEPT ![r] = NoRefresh]
    /\ fetch' = [q \in Fetches |-> IF q \in Waiting(t)
                 THEN [pc |-> "sent", token |-> token[t] + 1, replay |-> TRUE] ELSE fetch[q]]
    /\ UNCHANGED <<server, gone, restore, missed>>

\* Once, with the jar that the browser holds then.
RefreshRetries(r) ==
    /\ refresh[r].pc = "concurrent" /\ refresh[r].attempt = 0
    /\ refresh' = [refresh EXCEPT ![r] = [pc |-> "sent", attempt |-> 1, serial |-> jar]]
    /\ UNCHANGED <<server, jar, client, fetch, restore, missed>>

RefreshFails(r) ==
    /\ refresh[r].pc = "refused" \/ (refresh[r].pc = "concurrent" /\ refresh[r].attempt = 1)
    /\ Leave(TabOf[r])
    /\ UNCHANGED <<server, jar, missed>>

\* A timeout is a failure like any other, also when the server has rotated.
RefreshLost(r) ==
    /\ refresh[r].pc # "none" /\ missed < MaxMissed
    /\ missed' = missed + 1
    /\ Leave(TabOf[r])
    /\ UNCHANGED <<server, jar>>

-----------------------------------------------------------------------------
(* The router's guard restores the session of a page that has no token, or *)
(* an expired one, by a refresh of its own.                                *)

Guard(n) ==
    /\ restore[n].pc = "idle" /\ ~gone[TabOf[n]] /\ token[TabOf[n]] <= expired[TabOf[n]]
    /\ restore' = [restore EXCEPT ![n] = [pc |-> "sent", attempt |-> 0, serial |-> jar]]
    /\ UNCHANGED <<server, jar, client, refresh, fetch, missed>>

RestoreServed(n) ==
    /\ restore[n].pc = "sent"
    /\ IF live /\ restore[n].serial = serial
       THEN serial' = serial + 1 /\ restore' = [restore EXCEPT ![n].pc = "rotated", ![n].serial = serial + 1]
       ELSE restore' = [restore EXCEPT ![n].pc = "refused"] /\ UNCHANGED serial
    /\ UNCHANGED <<live, expired, jar, client, refresh, fetch, missed>>

Restored(n) ==
    /\ restore[n].pc = "rotated"
    /\ jar' = restore[n].serial
    /\ token' = [token EXCEPT ![TabOf[n]] = @ + 1]
    /\ restore' = [restore EXCEPT ![n] = NoRefresh]
    /\ UNCHANGED <<server, gone, promise, refresh, fetch, missed>>

\* Any 401 of refreshSession, and a timeout.
RestoreFails(n) ==
    /\ \/ restore[n].pc = "refused" /\ UNCHANGED missed
       \/ restore[n].pc \in {"sent", "rotated"} /\ missed < MaxMissed /\ missed' = missed + 1
    /\ Leave(TabOf[n])
    /\ UNCHANGED <<server, jar>>

-----------------------------------------------------------------------------
\* Not while a request is replayed: a token outlives its timeout of 5 s.
Expire(t) ==
    /\ \A r \in Of(t) : fetch[r].pc = "sent" => ~fetch[r].replay
    /\ token[t] > expired[t] /\ expired[t] < MaxExpiries
    /\ expired' = [expired EXCEPT ![t] = token[t]]
    /\ UNCHANGED <<serial, live, jar, client, refresh, fetch, restore, missed>>

\* From another browser.
Revoke == live /\ live' = FALSE /\ UNCHANGED <<serial, expired, jar, client, refresh, fetch, restore, missed>>

ClientInit ==
    /\ serial = 0 /\ live = TRUE /\ jar = 0
    /\ token = [t \in Tabs |-> InitialToken] /\ expired = [t \in Tabs |-> 0]
    /\ gone = [t \in Tabs |-> FALSE]
    /\ promise = [t \in Tabs |-> NoFetch]
    /\ refresh = [r \in Fetches |-> NoRefresh]
    /\ fetch = [r \in Fetches |-> [pc |-> "idle", token |-> 0, replay |-> FALSE]]
    /\ restore = [n \in Navigations |-> [NoRefresh EXCEPT !.pc = "idle"]]
    /\ missed = 0

Progress(r) ==
    \/ Serve(r) \/ Accepted(r) \/ Denied(r)
    \/ RefreshServed(r) \/ Refreshed(r) \/ RefreshRetries(r) \/ RefreshFails(r)

ClientNext ==
    \/ \E r \in Fetches : Send(r) \/ Progress(r) \/ Miss(r) \/ RefreshLost(r)
    \/ \E n \in Navigations : Guard(n) \/ RestoreServed(n) \/ Restored(n) \/ RestoreFails(n)
    \/ \E t \in Tabs : Expire(t)
    \/ Revoke

ClientSpec == ClientInit /\ [][ClientNext]_refreshVars

\* What was sent is answered, and answers are handled.
FairSpec == ClientSpec /\ \A r \in Fetches : WF_refreshVars(Progress(r))

-----------------------------------------------------------------------------
\* While the session lives and no answer is lost, no tab is sent to the login
\* page: the tabs' refreshes must not fail each other ("one retry is enough",
\* request.ts:48).
StaysLoggedIn == live /\ missed = 0 => \A t \in Tabs : ~gone[t]

\* One tab that navigates once when it is opened, or not at all.
OneTabOpens ==
    /\ \A t, u \in Tabs : t = u
    /\ \A n, m \in Navigations : n = m
    /\ Navigations # {} => InitialToken = 0

Flights == [pc : {"none", "idle", "sent", "rotated", "concurrent", "refused"}, attempt : {0, 1}, serial : Nat]
FetchStates ==
    [pc : {"idle", "sent", "accepted", "denied", "waiting", "done", "failed"}, token : Nat, replay : BOOLEAN]
ClientTypeOK ==
    /\ serial \in Nat /\ live \in BOOLEAN /\ jar \in Nat /\ missed \in Nat
    /\ token \in [Tabs -> Nat] /\ expired \in [Tabs -> Nat] /\ gone \in [Tabs -> BOOLEAN]
    /\ promise \in [Tabs -> Fetches \cup {NoFetch}]
    /\ refresh \in [Fetches -> Flights] /\ restore \in [Navigations -> Flights]
    /\ fetch \in [Fetches -> FetchStates]

\* A refresh has the serial of the session, and the browser has it as well
\* unless the answer is under way.
FlightIsSound(flight) ==
    /\ flight.pc \in {"none", "idle", "sent", "rotated"}
    /\ flight.pc \in {"sent", "rotated"} => flight.serial = serial
RefreshesAreSound ==
    /\ \A r \in Fetches : FlightIsSound(refresh[r]) /\ refresh[r].pc # "idle"
    /\ \A n \in Navigations : FlightIsSound(restore[n])
    /\ \/ jar = serial
       \/ \E r \in Fetches : refresh[r].pc = "rotated"
       \/ \E n \in Navigations : restore[n].pc = "rotated"

\* A tab has the refresh of its promise and no other, and nothing is sent
\* before the page is restored.
OneRefreshEach ==
    /\ \A r \in Fetches : refresh[r].pc # "none" => promise[TabOf[r]] = r
    /\ \A n \in Navigations : restore[n].pc # "none" =>
          /\ \A t \in Tabs : token[t] = 0
          /\ \A r \in Fetches : refresh[r].pc = "none" /\ fetch[r].pc = "idle"

\* What is replayed has a token that is accepted.
ReplaysAreFresh ==
    /\ \A t \in Tabs : expired[t] <= token[t]
    /\ \A r \in Fetches : fetch[r].replay =>
          /\ fetch[r].pc # "denied"
          /\ fetch[r].pc = "sent" => fetch[r].token > expired[TabOf[r]]

\* What holds of one tab at every step.
RefreshInv ==
    /\ ClientTypeOK
    /\ live /\ missed = 0 =>
         StaysLoggedIn /\ RefreshesAreSound /\ OneRefreshEach /\ ReplaysAreFresh

\* A request that has neither been answered nor failed.  Under FairSpec every
\* pending request ends.
Pending(r) == fetch[r].pc \notin {"idle", "done", "failed"}
=============================================================================
