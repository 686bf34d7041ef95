------------------------------- MODULE Sessions -------------------------------
(***************************************************************************)
(* Login sessions of one user: the rows of the table sessions, the user's  *)
(* row as far as sessions depend on it, the browsers' refresh cookies, and *)
(* the requests in flight.  A request is a process; each of its database   *)
(* statements is a step, and so is the arrival of its answer, which sets,  *)
(* clears or keeps the cookie that all tabs of a browser share.            *)
(*                                                                         *)
(* A refresh token is a session and a serial number, the number of times   *)
(* the session was rotated; 0 stands for the "pending-" placeholder, which *)
(* nobody holds.  A request is lost when its client goes away, its process *)
(* stops or the database fails it: its steps so far remain.                *)
(***************************************************************************)
EXTENDS Naturals, FiniteSets

CONSTANTS
    Browsers,    \* cookie jars
    NoBrowser,
    Requests,    \* processes that serve requests
    Ops,         \* the operations that are requested
    Grace,       \* concurrentRefreshGrace
    TTL,         \* JWT_REFRESH_TOKEN_TTL_DAYS
    Delay,       \* bound of the model: ticks a request is in flight
    MaxSessions, \* bounds of the model
    MaxSerial,
    MaxPassword,
    MaxClock,
    MaxLost

ASSUME SessionConstants ==
    /\ NoBrowser \notin Browsers
    /\ Grace \in Nat /\ TTL \in Nat /\ Delay \in Nat
    /\ MaxSessions \in Nat /\ MaxSerial \in Nat /\ MaxPassword \in Nat
    /\ MaxClock \in Nat /\ MaxLost \in Nat

VARIABLES
    user,    \* the user's row
    session, \* table sessions
    cookie,  \* the refresh cookie of each browser
    req,     \* what each request holds
    clock,
    lost     \* requests lost so far

vars == <<user, session, cookie, req, clock, lost>>

Ids == 1..MaxSessions

Absent == [status |-> "absent", serial |-> 0, updated |-> 0, expires |-> 0,
           password |-> 0]

\* session 0 stands for no cookie.
NoToken == [session |-> 0, serial |-> 0]

Token(s, n) == [session |-> s, serial |-> n]

NewUser == [exists |-> TRUE, active |-> TRUE, password |-> 0]

\* copy: the user's row as the request read it.
Idle == [pc |-> "idle", browser |-> NoBrowser, token |-> NoToken, sent |-> 0,
         now |-> 0, copy |-> NewUser]

Live(s) == session[s].status = "live"

-----------------------------------------------------------------------------
(* session_repository.go                                                   *)

\* Mutation: the guard on the stored hash is missing.
RotatesAny(s, serial) == Live(s)

\* Mutation: the guard on revoked_at is missing.
RotatesEnded(s, serial) == session[s].serial = serial

\* The WHERE clause of RotateIfMatch.
Rotates(s, serial) == Live(s) /\ session[s].serial = serial

Rotated(s, now) ==
    [session EXCEPT ![s].serial = session[s].serial + 1, ![s].updated = now]

\* Revoke, RevokeAllForUser and RevokeAllExcept: only rows not yet revoked.
Revoked(S) ==
    [s \in Ids |-> IF s \in S /\ Live(s)
                   THEN [session[s] EXCEPT !.status = "revoked"] ELSE session[s]]

Deleted(S) ==
    [s \in Ids |-> IF s \in S /\ session[s].status # "absent"
                   THEN [session[s] EXCEPT !.status = "deleted"] ELSE session[s]]

Expired(now) == {s \in Ids : session[s].expires < now}

-----------------------------------------------------------------------------
(* Requests and answers.                                                   *)

Starts(r, op) == op \in Ops /\ req[r].pc = "idle"

Begins(r, pc, b, t) ==
    req' = [req EXCEPT ![r] = [Idle EXCEPT !.pc = pc, !.browser = b,
              !.token = t, !.sent = clock,
              !.copy = IF pc \in {"creating", "saving"} THEN user ELSE NewUser]]

Goes(r, pc) == req' = [req EXCEPT ![r].pc = pc]

\* The handler answers; Arrive applies the cookie of the answer.
AnswerSet(r, t)  == req' = [req EXCEPT ![r].pc = "set", ![r].token = t]
AnswerClear(r)   == Goes(r, "clear")
AnswerKeep(r)    == Goes(r, "keep")

Arrive(r) ==
    /\ req[r].pc \in {"set", "clear", "keep"}
    /\ cookie' = IF req[r].pc = "keep" THEN cookie ELSE
                    [cookie EXCEPT ![req[r].browser] =
                      IF req[r].pc = "set" THEN req[r].token ELSE NoToken]
    /\ req' = [req EXCEPT ![r] = Idle]
    /\ UNCHANGED <<user, session, clock, lost>>

Lose(r) ==
    /\ req[r].pc # "idle" /\ lost < MaxLost
    /\ lost' = lost + 1
    /\ req' = [req EXCEPT ![r] = Idle]
    /\ UNCHANGED <<user, session, cookie, clock>>

Tick ==
    /\ clock < MaxClock
    /\ \A r \in Requests : req[r].pc # "idle" => clock - req[r].sent < Delay
    /\ clock' = clock + 1
    /\ UNCHANGED <<user, session, cookie, req, lost>>

-----------------------------------------------------------------------------
(* Login and createLoginSession.                                           *)

LoginChecks(r, b) ==
    /\ Starts(r, "login")
    /\ user.exists /\ user.active
    /\ Begins(r, "creating", b, NoToken)
    /\ UNCHANGED <<user, session, cookie, clock, lost>>

LoginCreates(r) ==
    /\ req[r].pc = "creating"
    /\ \E s \in Ids :
         /\ session[s].status = "absent"
         /\ \A t \in Ids : t < s => session[t].status # "absent"
         /\ session' = [session EXCEPT ![s] =
              [status |-> "live", serial |-> 0, updated |-> clock,
               expires |-> clock + TTL, password |-> req[r].copy.password]]
         /\ req' = [req EXCEPT ![r].pc = "binding", ![r].token = Token(s, 1),
                               ![r].now = clock]
    /\ UNCHANGED <<user, cookie, clock, lost>>

\* The number of rows that RotateIfMatch bound is not looked at.
LoginBinds(r) ==
    /\ req[r].pc = "binding"
    /\ session' = IF Rotates(req[r].token.session, 0)
                  THEN Rotated(req[r].token.session, req[r].now) ELSE session
    /\ Goes(r, "cleaning")
    /\ UNCHANGED <<user, cookie, clock, lost>>

LoginBindFails(r) ==
    /\ req[r].pc = "binding" /\ lost < MaxLost
    /\ lost' = lost + 1
    /\ session' = Deleted({req[r].token.session})
    /\ AnswerKeep(r)
    /\ UNCHANGED <<user, cookie, clock>>

LoginCleans(r) ==
    /\ req[r].pc = "cleaning"
    /\ session' = Deleted(Expired(req[r].now))
    /\ AnswerSet(r, req[r].token)
    /\ UNCHANGED <<user, cookie, clock, lost>>

-----------------------------------------------------------------------------
(* RefreshSession.                                                         *)

RefreshSends(r, b) ==
    /\ Starts(r, "refresh")
    /\ cookie[b] # NoToken /\ cookie[b].serial < MaxSerial
    /\ Begins(r, "refreshing", b, cookie[b])
    /\ UNCHANGED <<user, session, cookie, clock, lost>>

RefreshFinds(r) ==
    LET s == session[req[r].token.session] IN
    /\ req[r].pc = "refreshing"
    /\ req' = [req EXCEPT ![r].now = clock, ![r].pc =
                 CASE s.status # "live"  -> "clear"
                   [] s.status = "live" /\ clock > s.expires  -> "expired"
                   [] s.status = "live" /\ clock <= s.expires -> "checking"]
    /\ UNCHANGED <<user, session, cookie, clock, lost>>

RefreshChecks(r) ==
    /\ req[r].pc = "checking"
    /\ Goes(r, CASE ~user.exists                -> "orphan"
                 [] user.exists /\ ~user.active -> "inactive"
                 [] user.exists /\ user.active  -> "rotating")
    /\ UNCHANGED <<user, session, cookie, clock, lost>>

\* The three refusals that clean up first.
RefreshRefuses(r) ==
    /\ req[r].pc \in {"expired", "orphan", "inactive"}
    /\ session' = CASE req[r].pc = "expired"  -> Deleted(Expired(req[r].now))
                    [] req[r].pc = "orphan"   -> Deleted(Ids)
                    [] req[r].pc = "inactive" -> Revoked(Ids)
    /\ AnswerClear(r)
    /\ UNCHANGED <<user, cookie, clock, lost>>

RefreshRotates(r) ==
    LET t == req[r].token IN
    /\ req[r].pc = "rotating"
    /\ IF Rotates(t.session, t.serial)
       THEN /\ session' = Rotated(t.session, req[r].now)
            /\ AnswerSet(r, Token(t.session, session[t.session].serial + 1))
       ELSE Goes(r, "losing") /\ UNCHANGED session
    /\ UNCHANGED <<user, cookie, clock, lost>>

\* Mutation: every refresh that loses the race counts as a replay.
RefreshLosesAlways(r) ==
    /\ req[r].pc = "losing"
    /\ Goes(r, IF Live(req[r].token.session) THEN "revoking" ELSE "clear")
    /\ UNCHANGED <<user, session, cookie, clock, lost>>

RefreshLoses(r) ==
    LET s == session[req[r].token.session] IN
    /\ req[r].pc = "losing"
    /\ Goes(r, CASE s.status \in {"absent", "deleted"} -> "clear"
                 [] s.status = "live" /\ req[r].now <= s.updated + Grace -> "keep"
                 [] s.status = "live" /\ req[r].now > s.updated + Grace -> "revoking"
                 [] s.status = "revoked" -> "revoking")
    /\ UNCHANGED <<user, session, cookie, clock, lost>>

RefreshRevokes(r) ==
    /\ req[r].pc = "revoking"
    /\ session' = Revoked({req[r].token.session})
    /\ AnswerClear(r)
    /\ UNCHANGED <<user, cookie, clock, lost>>

-----------------------------------------------------------------------------
(* Logout, logout-all, change of password, account status and deletion.    *)

\* AuthMiddleware: the account is active, the browser's session not revoked.
Authorized(b) ==
    user.exists /\ user.active /\ cookie[b] # NoToken /\ Live(cookie[b].session)

\* LogoutSession and LogoutByRefreshToken; an ended session is left alone.
LogoutFinds(r, b) ==
    /\ Starts(r, "logout")
    /\ cookie[b] # NoToken
    /\ Begins(r, IF Live(cookie[b].session) THEN "revoking" ELSE "clear", b, cookie[b])
    /\ UNCHANGED <<user, session, cookie, clock, lost>>

LogoutAll(r, b) ==
    /\ Starts(r, "logout_all") /\ Authorized(b)
    /\ session' = Revoked(Ids)
    /\ Begins(r, "clear", b, cookie[b])
    /\ UNCHANGED <<user, cookie, clock, lost>>

\* The row is read; the old password is the row's.
ChangePassword(r, b) ==
    /\ Starts(r, "password") /\ Authorized(b)
    /\ user.password < MaxPassword
    /\ Begins(r, "saving", b, cookie[b])
    /\ UNCHANGED <<user, session, cookie, clock, lost>>

\* Update saves the whole row as read, and inserts it when it is gone.
ChangePasswordSaves(r) ==
    /\ req[r].pc = "saving"
    /\ user' = [req[r].copy EXCEPT !.password = req[r].copy.password + 1]
    /\ Goes(r, "others")
    /\ UNCHANGED <<session, cookie, clock, lost>>

ChangePasswordRevokes(r) ==
    /\ req[r].pc = "others"
    /\ session' = Revoked(Ids \ {req[r].token.session})
    /\ AnswerKeep(r)
    /\ UNCHANGED <<user, cookie, clock, lost>>

\* UpdateUserStatus, called by an administrator.
UpdateUserStatus(r) ==
    /\ Starts(r, "status") /\ user.exists
    /\ user' = [user EXCEPT !.active = ~user.active]
    /\ Begins(r, IF user.active THEN "disabling" ELSE "keep", NoBrowser, NoToken)
    /\ UNCHANGED <<session, cookie, clock, lost>>

DisablingRevokes(r) ==
    /\ req[r].pc = "disabling"
    /\ session' = Revoked(Ids)
    /\ AnswerKeep(r)
    /\ UNCHANGED <<user, cookie, clock, lost>>

\* DeleteUser: the row is read, then deleted, then the sessions.
DeleteUser(r, b) ==
    /\ Starts(r, "delete") /\ Authorized(b)
    /\ Begins(r, "deleting", b, cookie[b])
    /\ UNCHANGED <<user, session, cookie, clock, lost>>

DeletingUser(r) ==
    /\ req[r].pc = "deleting"
    /\ user' = [user EXCEPT !.exists = FALSE]
    /\ Goes(r, IF user.exists THEN "forgetting" ELSE "keep")
    /\ UNCHANGED <<session, cookie, clock, lost>>

DeletingSessions(r) ==
    /\ req[r].pc = "forgetting"
    /\ session' = Deleted(Ids)
    /\ AnswerKeep(r)
    /\ UNCHANGED <<user, cookie, clock, lost>>

-----------------------------------------------------------------------------
Init ==
    /\ user = NewUser
    /\ session = [s \in Ids |-> Absent]
    /\ cookie = [b \in Browsers |-> NoToken]
    /\ req = [r \in Requests |-> Idle]
    /\ clock = 0 /\ lost = 0

Refresh(r) ==
    \/ \E b \in Browsers : RefreshSends(r, b)
    \/ RefreshFinds(r) \/ RefreshChecks(r) \/ RefreshRefuses(r)
    \/ RefreshRotates(r) \/ RefreshLoses(r) \/ RefreshRevokes(r)

Login(r) ==
    \/ \E b \in Browsers : LoginChecks(r, b)
    \/ LoginCreates(r) \/ LoginBinds(r) \/ LoginBindFails(r) \/ LoginCleans(r)

Account(r) ==
    \/ \E b \in Browsers : \/ LogoutFinds(r, b) \/ LogoutAll(r, b)
                          \/ ChangePassword(r, b) \/ DeleteUser(r, b)
    \/ ChangePasswordSaves(r) \/ ChangePasswordRevokes(r)
    \/ UpdateUserStatus(r) \/ DisablingRevokes(r)
    \/ DeletingUser(r) \/ DeletingSessions(r)

Next ==
    \/ \E r \in Requests : Login(r) \/ Refresh(r) \/ Account(r) \/ Arrive(r) \/ Lose(r)
    \/ Tick

Spec == Init /\ [][Next]_vars

-----------------------------------------------------------------------------
Tokens == [session : 0..MaxSessions, serial : Nat]

UserStates == [exists : BOOLEAN, active : BOOLEAN, password : Nat]

Pcs == {"idle", "creating", "binding", "cleaning", "refreshing", "checking",
        "expired", "orphan", "inactive", "rotating", "losing", "revoking",
        "saving", "others", "disabling", "deleting", "forgetting",
        "set", "clear", "keep"}

\* Every variable has its type (domain.Session, domain.User).
TypeOK ==
    /\ user \in UserStates
    /\ session \in [Ids -> [status : {"absent", "live", "revoked", "deleted"},
                      serial : Nat, updated : Nat, expires : Nat, password : Nat]]
    /\ cookie \in [Browsers -> Tokens]
    /\ req \in [Requests -> [pc : Pcs, browser : Browsers \cup {NoBrowser},
                   token : Tokens, sent : Nat, now : Nat, copy : UserStates]]
    /\ clock \in Nat /\ lost \in Nat

\* The requests that know a token, and those that bring a new one to a browser.
WithToken == {r \in Requests : req[r].token # NoToken}
Bringing == {r \in Requests : req[r].pc \in {"binding", "cleaning", "set"}}

\* A request at a statement that needs a token has one, and a login knows the
\* browser it answers to.
RequestsKnowToken ==
    \A r \in Requests :
      /\ req[r].pc \in {"binding", "cleaning", "refreshing", "checking", "expired", "orphan",
                       "inactive", "rotating", "losing", "revoking", "set"} => r \in WithToken
      /\ req[r].pc = "creating" => req[r].browser \in Browsers

\* A token belongs to a session that exists or existed and was issued for it.
Issued(t) ==
    /\ t.session \in Ids /\ t.serial >= 1
    /\ session[t.session].status # "absent"

\* No holder is ahead of a live session's row, but the login that is about to
\* bind its first token (createLoginSession, RefreshSession).
TokensIssued ==
    /\ \A s \in Ids : session[s].status = "absent" => session[s].serial = 0
    /\ \A b \in Browsers : cookie[b] # NoToken =>
         /\ Issued(cookie[b])
         /\ Live(cookie[b].session) => cookie[b].serial <= session[cookie[b].session].serial
    /\ \A r \in WithToken : LET t == req[r].token IN
         /\ Issued(t) /\ req[r].browser \in Browsers
         /\ Live(t.session) =>
              IF req[r].pc = "binding" THEN t.serial = 1 /\ session[t.session].serial = 0
              ELSE t.serial <= session[t.session].serial

\* The tokens of a session are held by one browser and for it.
OneBrowserEach ==
    /\ \A b, c \in Browsers :
         cookie[b] # NoToken /\ cookie[c].session = cookie[b].session => c = b
    /\ \A b \in Browsers : \A r \in WithToken :
         cookie[b].session = req[r].token.session => req[r].browser = b
    /\ \A q, r \in WithToken :
         req[q].token.session = req[r].token.session => req[q].browser = req[r].browser

\* The token that an answer brings is the current one, and whoever else holds
\* one of that session holds an older one.
NewestHeldOnce ==
    \A r \in Bringing : LET t == req[r].token IN
      Live(t.session) =>
        /\ req[r].pc # "binding" => t.serial = session[t.session].serial
        /\ \A q \in WithToken \ {r} :
             req[q].token.session = t.session => req[q].token.serial < t.serial
        /\ \A b \in Browsers : cookie[b].session = t.session => cookie[b].serial < t.serial

\* As long as nothing is lost, a browser that is behind its session is about to
\* be brought the current token.
AnswerUnderWay ==
    lost = 0 => \A b \in Browsers :
      cookie[b] # NoToken /\ Live(cookie[b].session) =>
        \/ cookie[b].serial = session[cookie[b].session].serial
        \/ \E r \in Requests : /\ req[r].pc = "set" /\ req[r].browser = b
                              /\ req[r].token.session = cookie[b].session

\* Who holds which token: the inductive invariant.
SessionsInv ==
    /\ TypeOK /\ RequestsKnowToken /\ TokensIssued
    /\ OneBrowserEach /\ NewestHeldOnce /\ AnswerUnderWay

\* A session that was revoked or deleted never comes back and never issues
\* another token, whatever requests read it before (RotateIfMatch).
EndedStaysEnded ==
    [][\A s \in Ids : session[s].status \in {"revoked", "deleted"} =>
         /\ session'[s].status \in {"revoked", "deleted"}
         /\ session'[s].serial = session[s].serial]_vars

\* A token is exchanged at most once: whoever rotates a session presented its
\* current token (RefreshSession: two tabs refresh at once).
TokenExchangedOnce ==
    [][\A s \in Ids : session'[s].serial # session[s].serial =>
         \E r \in Requests :
            \/ req[r].pc = "rotating" /\ req[r].token = Token(s, session[s].serial)
            \/ req[r].pc = "binding" /\ session[s].serial = 0]_vars

\* A browser whose requests have all been answered holds the current token of
\* its session, or one of a session that has ended: answers that arrive late
\* never leave it with a token that was already exchanged.
CookieCurrent ==
    (lost = 0 /\ \A r \in Requests : req[r].pc = "idle") =>
      \A b \in Browsers : cookie[b] # NoToken =>
        LET s == cookie[b].session IN
        Live(s) => cookie[b].serial = session[s].serial

\* No token is ahead of its session, and none is left behind it: whatever
\* answers are late, a browser ends with the current token (RefreshSession).
SessionsSound == SessionsInv /\ CookieCurrent

-----------------------------------------------------------------------------
(* The grace window.                                                       *)

\* A request is in flight for at most Delay, and took its time on the way.
InFlight ==
    \A r \in Requests :
      /\ req[r].pc # "idle" => req[r].sent <= clock /\ clock <= req[r].sent + Delay
      /\ req[r].pc \in {"binding", "cleaning", "checking", "rotating", "losing", "set"} =>
           req[r].sent <= req[r].now /\ req[r].now <= clock

\* An answer that brings the current token comes from the last rotation.
AnswersAreLast ==
    \A r \in Requests : req[r].pc \in {"cleaning", "set"} /\ Live(req[r].token.session) =>
      session[req[r].token.session].updated = req[r].now

\* A refresh with an exchanged token was sent before the answer to the exchange
\* could arrive, and who lost the race has one.
LateTabs ==
    \A r \in WithToken : LET t == req[r].token IN
      Live(t.session) =>
        /\ req[r].pc = "losing" => t.serial < session[t.session].serial
        /\ req[r].pc \in {"refreshing", "checking", "rotating", "losing"} /\ lost = 0
           /\ t.serial < session[t.session].serial =>
             req[r].sent <= session[t.session].updated + Delay

\* Who may still use which token, and for how long: the inductive invariant.
GraceInv == SessionsInv /\ InFlight /\ AnswersAreLast /\ LateTabs

\* Requests are answered within half the grace period, and no answer is lost.
Prompt == 2 * Delay <= Grace /\ lost = 0

\* Then a refresh that lost the race is no replay, whatever else is requested:
\* it does not go on to revoke the live session (the grace window of
\* RefreshSession, user_service.go:371).
RaceForgiven ==
    [][\A r \in Requests : Prompt /\ req[r].pc = "losing" /\ req'[r].pc = "revoking" =>
         ~Live(req[r].token.session)]_vars

\* Nobody asked to end a session: there are logins and refreshes only.
OnlyTabs == Ops \subseteq {"login", "refresh"} /\ MaxLost = 0 /\ 2 * Delay <= Grace

NobodyRevokes ==
    /\ lost = 0 /\ user.active
    /\ \A s \in Ids : session[s].status # "revoked"
    /\ \A r \in Requests :
         req[r].pc \notin {"inactive", "revoking", "saving", "others", "disabling", "deleting", "forgetting"}

\* Tabs that refresh with a shared cookie do not log each other out, provided
\* no request is in flight for longer than half the grace period: no session
\* is revoked that nobody asked to end (the grace window of RefreshSession).
TabsKeepSession == GraceInv /\ (OnlyTabs => NobodyRevokes)

-----------------------------------------------------------------------------
\* While an account is disabled and its disabling has ended, no session of it
\* is live (user_service_admin.go:26). It fails: a login that read the account
\* before creates its session after.
DisabledSessionsEnded ==
    (~user.active /\ \A r \in Requests : req[r].pc # "disabling")
      => \A s \in Ids : ~Live(s)

\* When a change of password has ended, at most the session that asked for it
\* is live from before (user_service.go:601). It fails like the one before.
OldPasswordSessionsEnded ==
    (\A r \in Requests : req[r].pc \notin {"saving", "others"})
      => Cardinality({s \in Ids : Live(s) /\ session[s].password < user.password}) <= 1
=============================================================================
