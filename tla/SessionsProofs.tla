--------------------------- MODULE SessionsProofs ---------------------------
(***************************************************************************)
(* Proofs about Sessions for any browsers, requests, operations and        *)
(* bounds: who holds which refresh token, and how long after an exchange   *)
(* (the grace window); and about WebRefresh: what one tab makes of the     *)
(* answers, for any number of requests that share its refreshes.           *)
(***************************************************************************)
EXTENDS Sessions, WebRefresh, TLAPS

Row == [status : {"absent", "live", "revoked", "deleted"},
        serial : Nat, updated : Nat, expires : Nat, password : Nat]

Request == [pc : Pcs, browser : Browsers \cup {NoBrowser}, token : Tokens,
            sent : Nat, now : Nat, copy : UserStates]

-----------------------------------------------------------------------------
(* The table sessions.                                                     *)

\* What Revoke, Delete and DeleteExpired do to the table: rows end, and that
\* is all.
Fades ==
    /\ session' \in [Ids -> Row]
    /\ \A s \in Ids :
         /\ session'[s].serial = session[s].serial /\ session'[s].updated = session[s].updated
         /\ session'[s].status = session[s].status \/ session'[s].status \in {"revoked", "deleted"}
         /\ session[s].status \notin {"live", "revoked"} => session'[s].status = session[s].status
         /\ session[s].status = "revoked" => session'[s].status \in {"revoked", "deleted"}

\* Revoke, RevokeAllForUser and RevokeAllExcept only end rows.
LEMMA RevokedFades ==
    ASSUME TypeOK, NEW S, session' = Revoked(S)
    PROVE  Fades
<1>1. \A s \in Ids : session[s] \in Row /\ [session[s] EXCEPT !.status = "revoked"] \in Row
  BY DEF TypeOK, Row
<1>2. session' \in [Ids -> Row]
  BY <1>1 DEF Revoked
<1>3. ASSUME NEW s \in Ids
      PROVE  /\ session'[s].serial = session[s].serial /\ session'[s].updated = session[s].updated
             /\ \/ session'[s].status = session[s].status
                \/ Live(s) /\ session'[s].status = "revoked"
  BY <1>1 DEF Revoked, Row
<1>4. QED
  BY <1>2, <1>3 DEF Fades, Live

\* Delete, DeleteByUserID and DeleteExpired only end rows.
LEMMA DeletedFades ==
    ASSUME TypeOK, NEW S, session' = Deleted(S)
    PROVE  Fades
<1>1. \A s \in Ids : session[s] \in Row /\ [session[s] EXCEPT !.status = "deleted"] \in Row
  BY DEF TypeOK, Row
<1>2. session' \in [Ids -> Row]
  BY <1>1 DEF Deleted
<1>3. ASSUME NEW s \in Ids
      PROVE  /\ session'[s].serial = session[s].serial /\ session'[s].updated = session[s].updated
             /\ \/ session'[s].status = session[s].status
                \/ session[s].status # "absent" /\ session'[s].status = "deleted"
  BY <1>1 DEF Deleted, Row
<1>4. QED
  BY <1>1, <1>2, <1>3 DEF Fades, Row

\* A table that stays as it is.
LEMMA SameFades ==
    ASSUME TypeOK, session' = session
    PROVE  Fades
BY DEF Fades, TypeOK, Row

\* RotateIfMatch counts the serial of one live row up.
LEMMA RotatedRow ==
    ASSUME TypeOK, NEW s \in Ids, NEW now \in Nat, session' = Rotated(s, now)
    PROVE  /\ session' \in [Ids -> Row]
           /\ \A i \in Ids : session'[i].status = session[i].status
           /\ \A i \in Ids \ {s} : session'[i] = session[i]
           /\ session'[s].serial = session[s].serial + 1 /\ session'[s].updated = now
<1>1. session \in [Ids -> Row]
  BY DEF TypeOK, Row
<1>2. session' = [session EXCEPT ![s] = [session[s] EXCEPT !.serial = session[s].serial + 1, !.updated = now]]
  BY <1>1 DEF Rotated, Row
<1>3. [session[s] EXCEPT !.serial = session[s].serial + 1, !.updated = now] \in Row
  <2>1. session[s] \in Row /\ session[s].serial + 1 \in Nat
    BY <1>1 DEF Row
  <2>2. QED
    BY <2>1 DEF Row
<1>4. QED
  BY <1>1, <1>2, <1>3 DEF Row

-----------------------------------------------------------------------------
(* Types.                                                                  *)

\* The constants of a request have their types.
LEMMA IdleTypes == Idle \in Request /\ NewUser \in UserStates /\ NoToken \in Tokens
<1>1. NewUser \in UserStates
  BY DEF NewUser, UserStates
<1>2. NoToken \in Tokens
  BY SessionConstants DEF NoToken, Tokens
<1>3. QED
  BY <1>1, <1>2 DEF Idle, Request, Pcs

\* A request that goes to another statement has its type.
LEMMA GoesTypes ==
    ASSUME TypeOK, NEW r \in Requests, NEW pc \in Pcs,
           Goes(r, pc) \/ \E t \in Tokens : req' = [req EXCEPT ![r].pc = pc, ![r].token = t]
    PROVE  req' \in [Requests -> Request]
<1>1. req \in [Requests -> Request]
  BY DEF TypeOK, Request
<1>2. [req[r] EXCEPT !.pc = pc] \in Request
  BY <1>1 DEF Request
<1>3. ASSUME NEW t \in Tokens
      PROVE  [req[r] EXCEPT !.pc = pc, !.token = t] \in Request
  <2>1. req[r] \in Request
    BY <1>1
  <2>2. QED
    BY <1>3, <2>1 DEF Request
<1>4. CASE Goes(r, pc)
  BY <1>1, <1>2, <1>4 DEF Goes
<1>5. CASE \E t \in Tokens : req' = [req EXCEPT ![r].pc = pc, ![r].token = t]
  <2>1. PICK t \in Tokens : req' = [req EXCEPT ![r].pc = pc, ![r].token = t]
    BY <1>5
  <2>2. req' = [req EXCEPT ![r] = [req[r] EXCEPT !.pc = pc, !.token = t]]
    BY <1>1, <2>1 DEF Request
  <2>3. QED
    BY <1>1, <1>3, <2>2
<1>6. QED
  BY <1>4, <1>5

\* A request that begins has its type.
LEMMA BeginsTypes ==
    ASSUME TypeOK, NEW r \in Requests, NEW pc \in Pcs, NEW b \in Browsers \cup {NoBrowser},
           NEW t \in Tokens, Begins(r, pc, b, t)
    PROVE  /\ req' \in [Requests -> Request]
           /\ req'[r].pc = pc /\ req'[r].browser = b /\ req'[r].token = t
           /\ \A q \in Requests \ {r} : req'[q] = req[q]
<1> DEFINE new == [Idle EXCEPT !.pc = pc, !.browser = b, !.token = t, !.sent = clock,
                     !.copy = IF pc \in {"creating", "saving"} THEN user ELSE NewUser]
<1>1. req \in [Requests -> Request] /\ user \in UserStates /\ clock \in Nat
  BY DEF TypeOK, Request
<1>2. (IF pc \in {"creating", "saving"} THEN user ELSE NewUser) \in UserStates
  BY <1>1, IdleTypes
<1>3. new \in Request /\ new.pc = pc /\ new.browser = b /\ new.token = t
  BY <1>1, <1>2, IdleTypes DEF Request
<1>4. req' = [req EXCEPT ![r] = new]
  BY DEF Begins
<1> HIDE DEF new
<1>5. QED
  BY <1>1, <1>3, <1>4

-----------------------------------------------------------------------------
(* Steps that issue no token and bring none to a browser.                  *)

\* The request r forgets its token, keeps it or takes that of its browser;
\* sessions at most end.
Passive(r) ==
    /\ Fades /\ cookie' = cookie
    /\ lost' = lost \/ lost' # 0
    /\ \A q \in Requests \ {r} : req'[q] = req[q]
    /\ \/ req'[r].token = NoToken
       \/ req'[r].token = req[r].token /\ req'[r].browser = req[r].browser
       \/ \E b \in Browsers : /\ cookie[b] # NoToken
                              /\ req'[r].token = cookie[b] /\ req'[r].browser = b
    /\ \/ req'[r].pc \notin {"binding", "cleaning", "set"}
       \/ /\ req[r].pc = "cleaning" /\ req'[r].pc = "set"
          /\ req'[r].token = req[r].token /\ req'[r].browser = req[r].browser
    /\ req[r].pc = "set" => lost' # 0
    /\ req[r].pc = "binding" =>
         req'[r].token = NoToken \/ ~Live(req[r].token.session)'

\* Such a step leaves the tokens as the invariant has them.
LEMMA PassiveKeeps ==
    ASSUME SessionsInv, TypeOK', RequestsKnowToken', NEW r \in Requests, Passive(r)
    PROVE  SessionsInv'
<1> USE DEF WithToken, Bringing, Live
<1>1. \A s \in Ids : /\ session'[s].serial = session[s].serial
                     /\ Live(s)' => Live(s)
                     /\ (session'[s].status = "absent") <=> (session[s].status = "absent")
  BY DEF Passive, Fades, Live, SessionsInv, TypeOK
<1>2. \A q \in Requests \ {r} : req'[q] = req[q]
  BY DEF Passive
<1>3. cookie' = cookie
  BY DEF Passive
<1>4. TokensIssued'
  <2> USE DEF TokensIssued, Issued, SessionsInv
  <2>1. \A s \in Ids : session'[s].status = "absent" => session'[s].serial = 0
    BY <1>1
  <2>2. ASSUME NEW b \in Browsers, cookie'[b] # NoToken
        PROVE  /\ Issued(cookie[b])'
               /\ Live(cookie[b].session)' => cookie'[b].serial <= session'[cookie'[b].session].serial
    BY <1>1, <1>3, <2>2
  <2>3. ASSUME NEW q \in Requests, req'[q].token # NoToken
        PROVE  /\ Issued(req[q].token)' /\ req'[q].browser \in Browsers
               /\ Live(req[q].token.session)' =>
                    IF req'[q].pc = "binding"
                    THEN req'[q].token.serial = 1 /\ session'[req'[q].token.session].serial = 0
                    ELSE req'[q].token.serial <= session'[req'[q].token.session].serial
    <3>1. CASE q # r
      BY <1>1, <1>2, <2>3, <3>1
    <3>2. CASE q = r /\ req'[r].token = req[r].token /\ req'[r].browser = req[r].browser
      BY <1>1, <2>3, <3>2 DEF Passive
    <3>3. CASE q = r /\ \E b \in Browsers : /\ cookie[b] # NoToken
                                           /\ req'[r].token = cookie[b] /\ req'[r].browser = b
      BY <1>1, <2>3, <3>3 DEF Passive
    <3>4. QED
      BY <2>3, <3>1, <3>2, <3>3 DEF Passive
  <2>4. QED
    BY <2>1, <2>2, <2>3
<1>5. OneBrowserEach'
  <2> USE DEF OneBrowserEach, SessionsInv
  <2>1. \A b, c \in Browsers : cookie'[b] # NoToken /\ cookie'[c].session = cookie'[b].session => c = b
    BY <1>3
  <2>2. ASSUME NEW b \in Browsers, NEW q \in Requests, req'[q].token # NoToken,
               cookie'[b].session = req'[q].token.session
        PROVE  req'[q].browser = b
    BY <1>2, <1>3, <2>2 DEF Passive
  <2>3. ASSUME NEW p \in Requests, NEW q \in Requests, req'[p].token # NoToken, req'[q].token # NoToken,
               req'[p].token.session = req'[q].token.session
        PROVE  req'[p].browser = req'[q].browser
    <3>1. CASE p = r \/ q = r
      BY <1>2, <2>3, <3>1 DEF Passive
    <3>2. CASE p # r /\ q # r
      BY <1>2, <2>3, <3>2
    <3>3. QED
      BY <3>1, <3>2
  <2>4. QED
    BY <2>1, <2>2, <2>3
<1>6. NewestHeldOnce'
  <2> USE DEF NewestHeldOnce, SessionsInv
  <2>1. ASSUME NEW q \in Requests, req'[q].pc \in {"binding", "cleaning", "set"},
               Live(req[q].token.session)'
        PROVE  /\ req'[q].pc # "binding" => req'[q].token.serial = session'[req'[q].token.session].serial
               /\ \A p \in Requests \ {q} : req'[p].token # NoToken /\ req'[p].token.session = req'[q].token.session
                    => req'[p].token.serial < req'[q].token.serial
               /\ \A b \in Browsers : cookie'[b].session = req'[q].token.session =>
                    cookie'[b].serial < req'[q].token.serial
    <3>1. /\ req[q].pc \in {"binding", "cleaning", "set"}
          /\ req'[q].token = req[q].token
          /\ req'[q].pc # "binding" => req[q].pc # "binding"
      BY <1>2, <2>1 DEF Passive
    <3>2. req[q].token # NoToken /\ req[q].token.session \in Ids /\ Live(req[q].token.session)
      BY <1>1, <2>1, <3>1 DEF RequestsKnowToken, TokensIssued, Issued
    <3>3. req'[q].pc # "binding" => req'[q].token.serial = session'[req'[q].token.session].serial
      BY <1>1, <3>1, <3>2
    <3>4. \A b \in Browsers : cookie'[b].session = req'[q].token.session =>
            cookie'[b].serial < req'[q].token.serial
      BY <1>3, <3>1, <3>2
    <3>5. ASSUME NEW p \in Requests \ {q}, req'[p].token # NoToken,
                 req'[p].token.session = req'[q].token.session
          PROVE  req'[p].token.serial < req'[q].token.serial
      BY <1>2, <3>1, <3>2, <3>5 DEF Passive
    <3>6. QED
      BY <3>3, <3>4, <3>5
  <2>2. QED
    BY <2>1
<1>7. AnswerUnderWay'
  <2> SUFFICES ASSUME lost' = 0, NEW b \in Browsers, cookie'[b] # NoToken, Live(cookie[b].session)'
               PROVE  \/ cookie'[b].serial = session'[cookie'[b].session].serial
                      \/ \E q \in Requests : /\ req'[q].pc = "set" /\ req'[q].browser = b
                                            /\ req'[q].token.session = cookie'[b].session
    BY DEF AnswerUnderWay
  <2>1. lost = 0 /\ req[r].pc # "set"
    BY DEF Passive
  <2>2. cookie[b] # NoToken /\ cookie[b].session \in Ids /\ Live(cookie[b].session)
    BY <1>1, <1>3 DEF SessionsInv, TokensIssued, Issued
  <2>3. CASE cookie[b].serial = session[cookie[b].session].serial
    BY <1>1, <1>3, <2>2, <2>3
  <2>4. CASE \E q \in Requests : /\ req[q].pc = "set" /\ req[q].browser = b
                                /\ req[q].token.session = cookie[b].session
    BY <1>2, <1>3, <2>1, <2>4
  <2>5. QED
    BY <2>1, <2>2, <2>3, <2>4 DEF SessionsInv, AnswerUnderWay
<1>8. QED
  BY <1>4, <1>5, <1>6, <1>7 DEF SessionsInv

-----------------------------------------------------------------------------
(* Steps that issue a token or bring one to a browser.                     *)

\* createLoginSession creates a row that nobody has a token of.
LEMMA LoginCreatesKeeps ==
    ASSUME SessionsInv, NEW r \in Requests, LoginCreates(r)
    PROVE  SessionsInv'
<1> USE DEF WithToken, Bringing, Live
<1>1. PICK s \in Ids :
        /\ session[s].status = "absent"
        /\ session' = [session EXCEPT ![s] =
              [status |-> "live", serial |-> 0, updated |-> clock,
               expires |-> clock + TTL, password |-> req[r].copy.password]]
        /\ req' = [req EXCEPT ![r].pc = "binding", ![r].token = Token(s, 1), ![r].now = clock]
  BY DEF LoginCreates
<1>2. /\ req[r].pc = "creating" /\ req[r].browser \in Browsers
      /\ cookie' = cookie /\ user' = user /\ lost' = lost /\ clock' = clock
  BY DEF LoginCreates, SessionsInv, RequestsKnowToken
<1>3. req \in [Requests -> Request] /\ session \in [Ids -> Row] /\ clock \in Nat
  BY DEF SessionsInv, TypeOK, Request, Row
<1>4. Token(s, 1) \in Tokens /\ Token(s, 1) # NoToken /\ Token(s, 1).session = s /\ Token(s, 1).serial = 1
  BY SessionConstants DEF Token, Tokens, NoToken, Ids
<1>5. /\ req' \in [Requests -> Request]
      /\ req'[r].pc = "binding" /\ req'[r].token = Token(s, 1) /\ req'[r].browser = req[r].browser
      /\ \A q \in Requests \ {r} : req'[q] = req[q]
  <2>1. req' = [req EXCEPT ![r] = [req[r] EXCEPT !.pc = "binding", !.token = Token(s, 1), !.now = clock]]
    BY <1>1, <1>3 DEF Request
  <2>2. [req[r] EXCEPT !.pc = "binding", !.token = Token(s, 1), !.now = clock] \in Request
    BY <1>3, <1>4 DEF Request, Pcs
  <2>3. QED
    BY <1>3, <2>1, <2>2 DEF Request
<1>6. /\ session' \in [Ids -> Row] /\ session'[s].status = "live" /\ session'[s].serial = 0
      /\ \A i \in Ids \ {s} : session'[i] = session[i]
  <2>1. clock + TTL \in Nat /\ req[r].copy.password \in Nat
    BY <1>3, SessionConstants DEF Request, UserStates
  <2>2. QED
    BY <1>1, <1>3, <2>1 DEF Row
<1>7. /\ \A b \in Browsers : cookie[b].session # s
      /\ \A q \in WithToken : req[q].token.session # s
  BY <1>1 DEF SessionsInv, TokensIssued, Issued, NoToken, Ids
<1>8. TypeOK'
  BY <1>2, <1>5, <1>6 DEF SessionsInv, TypeOK, Row, Request
<1>9. RequestsKnowToken'
  BY <1>4, <1>5 DEF SessionsInv, RequestsKnowToken
<1>10. TokensIssued'
  <2>1. \A i \in Ids : session'[i].status = "absent" => session'[i].serial = 0
    BY <1>6 DEF SessionsInv, TokensIssued
  <2>2. ASSUME NEW b \in Browsers, cookie'[b] # NoToken
        PROVE  /\ Issued(cookie[b])'
               /\ Live(cookie[b].session)' => cookie'[b].serial <= session'[cookie'[b].session].serial
    <3>1. Issued(cookie[b]) /\ cookie[b].session \in Ids \ {s}
      BY <1>2, <1>7, <2>2 DEF SessionsInv, TokensIssued, Issued
    <3>2. QED
      BY <1>2, <1>7, <1>6, <2>2, <3>1 DEF SessionsInv, TokensIssued, Issued
  <2>3. ASSUME NEW q \in WithToken'
        PROVE  /\ Issued(req[q].token)' /\ req'[q].browser \in Browsers
               /\ Live(req[q].token.session)' =>
                    IF req'[q].pc = "binding"
                    THEN req'[q].token.serial = 1 /\ session'[req'[q].token.session].serial = 0
                    ELSE req'[q].token.serial <= session'[req'[q].token.session].serial
    <3>1. CASE q = r
      BY <1>1, <1>2, <1>4, <1>5, <1>6, <3>1 DEF Issued
    <3>2. CASE q # r
      <4>1. q \in WithToken /\ req'[q] = req[q]
        BY <1>5, <2>3, <3>2
      <4>2. Issued(req[q].token) /\ req[q].token.session \in Ids \ {s} /\ req[q].browser \in Browsers
        BY <1>7, <3>2, <4>1 DEF SessionsInv, TokensIssued, Issued
      <4>3. QED
        BY <1>6, <4>1, <4>2 DEF SessionsInv, TokensIssued, Issued
    <3>3. QED
      BY <3>1, <3>2
  <2>4. QED
    BY <2>1, <2>2, <2>3 DEF TokensIssued
<1>11. OneBrowserEach'
  BY <1>2, <1>4, <1>5, <1>7 DEF SessionsInv, OneBrowserEach
<1>12. NewestHeldOnce'
  <2> SUFFICES ASSUME NEW q \in Bringing', Live(req[q].token.session)'
               PROVE  /\ req'[q].pc # "binding" => req'[q].token.serial = session'[req'[q].token.session].serial
                      /\ \A p \in WithToken' \ {q} : req'[p].token.session = req'[q].token.session
                           => req'[p].token.serial < req'[q].token.serial
                      /\ \A b \in Browsers : cookie'[b].session = req'[q].token.session =>
                           cookie'[b].serial < req'[q].token.serial
    BY DEF NewestHeldOnce
  <2>1. CASE q = r
    BY <1>2, <1>4, <1>5, <1>6, <1>7, <2>1
  <2>2. CASE q # r
    <3>1. q \in Bringing /\ q \in WithToken /\ req'[q] = req[q]
      BY <1>5, <2>2 DEF SessionsInv, RequestsKnowToken
    <3>2. req[q].token.session \in Ids \ {s} /\ Live(req[q].token.session)
      BY <1>6, <1>7, <3>1 DEF SessionsInv, TokensIssued, Issued
    <3>3. QED
      BY <1>2, <1>4, <1>5, <1>6, <3>1, <3>2 DEF SessionsInv, NewestHeldOnce
  <2>3. QED
    BY <2>1, <2>2
<1>13. AnswerUnderWay'
  BY <1>2, <1>5, <1>6, <1>7 DEF SessionsInv, AnswerUnderWay, TokensIssued, Issued
<1>14. QED
  BY <1>8, <1>9, <1>10, <1>11, <1>12, <1>13 DEF SessionsInv

\* RotateIfMatch binds the first token of a session to a row that nobody else
\* has a token of.
LEMMA LoginBindsKeeps ==
    ASSUME SessionsInv, NEW r \in Requests, LoginBinds(r),
           Rotates(req[r].token.session, 0)
    PROVE  SessionsInv'
<1> USE DEF WithToken, Bringing, Live
<1> DEFINE s == req[r].token.session
<1>1. /\ req[r].pc = "binding" /\ session' = Rotated(s, req[r].now) /\ Goes(r, "cleaning")
      /\ cookie' = cookie /\ user' = user /\ lost' = lost /\ clock' = clock
  BY DEF LoginBinds
<1>2. req \in [Requests -> Request] /\ session \in [Ids -> Row]
  BY DEF SessionsInv, TypeOK, Request, Row
<1>3. req' \in [Requests -> Request] /\ req'[r].pc = "cleaning"
      /\ req'[r].token = req[r].token /\ req'[r].browser = req[r].browser
      /\ \A q \in Requests \ {r} : req'[q] = req[q]
  BY <1>1, <1>2 DEF Goes, Request, Pcs
<1>4. /\ r \in WithToken /\ s \in Ids /\ req[r].token.serial = 1
      /\ session[s].status = "live" /\ session[s].serial = 0
  BY <1>1 DEF SessionsInv, RequestsKnowToken, TokensIssued, Issued, Rotates
<1>5. /\ session' \in [Ids -> Row]
      /\ \A i \in Ids : session'[i].status = session[i].status
      /\ \A i \in Ids \ {s} : session'[i] = session[i]
      /\ session'[s].serial = 1
  BY <1>1, <1>2, <1>4, RotatedRow DEF SessionsInv, Request
<1>6. /\ \A b \in Browsers : cookie[b].session # s
      /\ \A q \in WithToken \ {r} : req[q].token.session # s
  <2>1. ASSUME NEW b \in Browsers, cookie[b].session = s
        PROVE  FALSE
    <3>1. cookie[b] # NoToken
      BY <1>4, <2>1 DEF NoToken, Ids
    <3>2. cookie[b].serial \in Nat
      BY DEF SessionsInv, TypeOK, Tokens
    <3>3. cookie[b].serial >= 1 /\ cookie[b].serial <= 0
      BY <1>4, <2>1, <3>1 DEF SessionsInv, TokensIssued, Issued
    <3>4. QED
      BY <3>2, <3>3
  <2>2. ASSUME NEW q \in WithToken \ {r}, req[q].token.session = s
        PROVE  FALSE
    <3>1. req[q].token.serial < 1
      BY <1>1, <1>4, <2>2 DEF SessionsInv, NewestHeldOnce
    <3>2. req[q].token.serial >= 1 /\ req[q].token.serial \in Nat
      BY <1>2, <2>2 DEF SessionsInv, TokensIssued, Issued, Request, Tokens
    <3>3. QED
      BY <3>1, <3>2
  <2>3. QED
    BY <2>1, <2>2
<1>7. TypeOK'
  BY <1>1, <1>3, <1>5 DEF SessionsInv, TypeOK, Row, Request
<1>8. RequestsKnowToken'
  BY <1>3, <1>4 DEF SessionsInv, RequestsKnowToken
<1>9b. req[r].browser \in Browsers /\ session[s].status # "absent"
  BY <1>4 DEF SessionsInv, TokensIssued
<1>9. TokensIssued'
  <2>1. \A i \in Ids : session'[i].status = "absent" => session'[i].serial = 0
    BY <1>4, <1>5 DEF SessionsInv, TokensIssued
  <2>2. ASSUME NEW b \in Browsers, cookie'[b] # NoToken
        PROVE  /\ Issued(cookie[b])'
               /\ Live(cookie[b].session)' => cookie'[b].serial <= session'[cookie'[b].session].serial
    <3>1. Issued(cookie[b]) /\ cookie[b].session \in Ids \ {s}
      BY <1>1, <1>6, <2>2 DEF SessionsInv, TokensIssued, Issued
    <3>2. QED
      BY <1>1, <1>6, <1>5, <2>2, <3>1 DEF SessionsInv, TokensIssued, Issued
  <2>3. ASSUME NEW q \in WithToken'
        PROVE  /\ Issued(req[q].token)' /\ req'[q].browser \in Browsers
               /\ Live(req[q].token.session)' =>
                    IF req'[q].pc = "binding"
                    THEN req'[q].token.serial = 1 /\ session'[req'[q].token.session].serial = 0
                    ELSE req'[q].token.serial <= session'[req'[q].token.session].serial
    <3>1. CASE q = r
      BY <1>3, <1>4, <1>5, <1>9b, <3>1 DEF Issued
    <3>2. CASE q # r
      <4>1. q \in WithToken /\ req'[q] = req[q]
        BY <1>3, <2>3, <3>2
      <4>2. Issued(req[q].token) /\ req[q].token.session \in Ids \ {s} /\ req[q].browser \in Browsers
        BY <1>6, <3>2, <4>1 DEF SessionsInv, TokensIssued, Issued
      <4>3. QED
        BY <1>5, <4>1, <4>2 DEF SessionsInv, TokensIssued, Issued
    <3>3. QED
      BY <3>1, <3>2
  <2>4. QED
    BY <2>1, <2>2, <2>3 DEF TokensIssued
<1>10. OneBrowserEach'
  BY <1>1, <1>3, <1>4 DEF SessionsInv, OneBrowserEach
<1>11. NewestHeldOnce'
  <2> SUFFICES ASSUME NEW q \in Bringing', Live(req[q].token.session)'
               PROVE  /\ req'[q].pc # "binding" => req'[q].token.serial = session'[req'[q].token.session].serial
                      /\ \A p \in WithToken' \ {q} : req'[p].token.session = req'[q].token.session
                           => req'[p].token.serial < req'[q].token.serial
                      /\ \A b \in Browsers : cookie'[b].session = req'[q].token.session =>
                           cookie'[b].serial < req'[q].token.serial
    BY DEF NewestHeldOnce
  <2>1. CASE q = r
    BY <1>1, <1>3, <1>4, <1>5, <1>6, <2>1
  <2>2. CASE q # r
    <3>1. q \in Bringing /\ q \in WithToken /\ req'[q] = req[q]
      BY <1>3, <2>2 DEF SessionsInv, RequestsKnowToken
    <3>2. req[q].token.session \in Ids \ {s} /\ Live(req[q].token.session)
      BY <1>5, <1>6, <2>2, <3>1 DEF SessionsInv, TokensIssued, Issued
    <3>3. session'[req'[q].token.session] = session[req[q].token.session]
      BY <1>5, <3>1, <3>2
    <3>4. \A p \in WithToken' : p \in WithToken /\ req'[p].token = req[p].token
      BY <1>1, <1>3
    <3>5. /\ req[q].pc # "binding" => req[q].token.serial = session[req[q].token.session].serial
          /\ \A p \in WithToken \ {q} : req[p].token.session = req[q].token.session
               => req[p].token.serial < req[q].token.serial
          /\ \A b \in Browsers : cookie[b].session = req[q].token.session =>
               cookie[b].serial < req[q].token.serial
      BY <3>1, <3>2 DEF SessionsInv, NewestHeldOnce
    <3>6. QED
      BY <1>1, <3>1, <3>3, <3>4, <3>5
  <2>3. QED
    BY <2>1, <2>2
<1>12. AnswerUnderWay'
  BY <1>1, <1>3, <1>4, <1>5, <1>6 DEF SessionsInv, AnswerUnderWay, TokensIssued, Issued
<1>13. QED
  BY <1>7, <1>8, <1>9, <1>10, <1>11, <1>12 DEF SessionsInv

\* RotateIfMatch exchanges the current token for the next one.
LEMMA RefreshRotatesKeeps ==
    ASSUME SessionsInv, NEW r \in Requests, RefreshRotates(r),
           Rotates(req[r].token.session, req[r].token.serial)
    PROVE  SessionsInv'
<1> USE DEF WithToken, Bringing, Live
<1> DEFINE s == req[r].token.session
           n == session[s].serial
<1>1. /\ req[r].pc = "rotating" /\ session' = Rotated(s, req[r].now)
      /\ AnswerSet(r, Token(s, n + 1))
      /\ cookie' = cookie /\ user' = user /\ lost' = lost /\ clock' = clock
  BY DEF RefreshRotates
<1>2. req \in [Requests -> Request] /\ session \in [Ids -> Row] /\ cookie \in [Browsers -> Tokens]
  BY DEF SessionsInv, TypeOK, Request, Row
<1>3. /\ r \in WithToken /\ s \in Ids /\ req[r].browser \in Browsers
      /\ session[s].status = "live" /\ req[r].token.serial = n /\ n \in Nat
  BY <1>1, <1>2 DEF SessionsInv, RequestsKnowToken, TokensIssued, Issued, Rotates, Row
<1>4. /\ Token(s, n + 1) \in Tokens /\ Token(s, n + 1) # NoToken
      /\ Token(s, n + 1).session = s /\ Token(s, n + 1).serial = n + 1
  BY <1>3, SessionConstants DEF Token, Tokens, NoToken, Ids
<1>5. /\ req' \in [Requests -> Request] /\ req'[r].pc = "set"
      /\ req'[r].token = Token(s, n + 1) /\ req'[r].browser = req[r].browser
      /\ \A q \in Requests \ {r} : req'[q] = req[q]
  <2>1. req' = [req EXCEPT ![r] = [req[r] EXCEPT !.pc = "set", !.token = Token(s, n + 1)]]
    BY <1>1, <1>2 DEF AnswerSet, Request
  <2>2. [req[r] EXCEPT !.pc = "set", !.token = Token(s, n + 1)] \in Request
    BY <1>2, <1>4 DEF Request, Pcs
  <2>3. QED
    BY <1>2, <2>1, <2>2 DEF Request
<1>6. /\ session' \in [Ids -> Row]
      /\ \A i \in Ids : session'[i].status = session[i].status
      /\ \A i \in Ids \ {s} : session'[i] = session[i]
      /\ session'[s].serial = n + 1
  BY <1>1, <1>2, <1>3, RotatedRow DEF SessionsInv, Request
<1>7. /\ \A b \in Browsers : cookie[b].session = s => cookie[b].serial \in Nat /\ cookie[b].serial <= n
      /\ \A q \in WithToken : req[q].token.session = s =>
           /\ req[q].token.serial \in Nat /\ req[q].token.serial <= n /\ req[q].pc # "binding"
  <2>1. ASSUME NEW b \in Browsers, cookie[b].session = s
        PROVE  cookie[b].serial \in Nat /\ cookie[b].serial <= n
    <3>1. cookie[b] # NoToken
      BY <1>3, <2>1 DEF NoToken, Ids
    <3>2. QED
      BY <1>2, <1>3, <2>1, <3>1 DEF SessionsInv, TokensIssued, Tokens
  <2>2. n >= 1
    BY <1>3 DEF SessionsInv, TokensIssued, Issued
  <2>3. ASSUME NEW q \in WithToken, req[q].token.session = s
        PROVE  req[q].token.serial \in Nat /\ req[q].token.serial <= n /\ req[q].pc # "binding"
    <3>1. req[q].pc # "binding"
      BY <1>3, <2>2, <2>3 DEF SessionsInv, TokensIssued
    <3>2. QED
      BY <1>2, <1>3, <2>3, <3>1 DEF SessionsInv, TokensIssued, Request, Tokens
  <2>4. QED
    BY <2>1, <2>3
\* Nobody is bringing a token of this session: its holder's would be the newest.
<1>8. \A q \in Bringing : req[q].token.session # s
  <2> SUFFICES ASSUME NEW q \in Bringing, req[q].token.session = s
               PROVE  FALSE
    OBVIOUS
  <2>1. q \in WithToken /\ r # q
    BY <1>1 DEF SessionsInv, RequestsKnowToken
  <2>2. n < req[q].token.serial
    BY <1>3, <2>1 DEF SessionsInv, NewestHeldOnce
  <2>3. QED
    BY <1>3, <1>7, <2>1, <2>2
<1> HIDE DEF n
<1>9. TypeOK'
  BY <1>1, <1>5, <1>6 DEF SessionsInv, TypeOK, Row, Request
<1>10. RequestsKnowToken'
  BY <1>4, <1>5 DEF SessionsInv, RequestsKnowToken
<1>11. TokensIssued'
  <2>1. \A i \in Ids : session'[i].status = "absent" => session'[i].serial = 0
    BY <1>3, <1>6 DEF SessionsInv, TokensIssued
  <2>2. ASSUME NEW b \in Browsers, cookie'[b] # NoToken
        PROVE  /\ Issued(cookie[b])'
               /\ Live(cookie[b].session)' => cookie'[b].serial <= session'[cookie'[b].session].serial
    <3>1. CASE cookie[b].session = s
      <4>1. cookie[b] # NoToken /\ Issued(cookie[b])
        BY <1>1, <2>2 DEF SessionsInv, TokensIssued
      <4>2. Issued(cookie[b])'
        BY <1>1, <1>6, <4>1 DEF Issued
      <4>3. cookie'[b].serial <= session'[cookie'[b].session].serial
        BY <1>1, <1>3, <1>6, <1>7, <3>1
      <4>4. QED
        BY <4>2, <4>3
    <3>2. CASE cookie[b].session # s
      BY <1>1, <1>6, <2>2, <3>2 DEF SessionsInv, TokensIssued, Issued
    <3>3. QED
      BY <3>1, <3>2
  <2>3. ASSUME NEW q \in WithToken'
        PROVE  /\ Issued(req[q].token)' /\ req'[q].browser \in Browsers
               /\ Live(req[q].token.session)' =>
                    IF req'[q].pc = "binding"
                    THEN req'[q].token.serial = 1 /\ session'[req'[q].token.session].serial = 0
                    ELSE req'[q].token.serial <= session'[req'[q].token.session].serial
    <3>1. CASE q = r
      BY <1>3, <1>4, <1>5, <1>6, <3>1 DEF Issued
    <3>2. CASE q # r /\ req[q].token.session = s
      BY <1>3, <1>5, <1>6, <1>7, <2>3, <3>2 DEF SessionsInv, TokensIssued, Issued
    <3>3. CASE q # r /\ req[q].token.session # s
      BY <1>5, <1>6, <2>3, <3>3 DEF SessionsInv, TokensIssued, Issued
    <3>4. QED
      BY <3>1, <3>2, <3>3
  <2>4. QED
    BY <2>1, <2>2, <2>3 DEF TokensIssued
<1>12. OneBrowserEach'
  BY <1>1, <1>3, <1>4, <1>5 DEF SessionsInv, OneBrowserEach
<1>13. NewestHeldOnce'
  <2> SUFFICES ASSUME NEW q \in Bringing', Live(req[q].token.session)'
               PROVE  /\ req'[q].pc # "binding" => req'[q].token.serial = session'[req'[q].token.session].serial
                      /\ \A p \in WithToken' \ {q} : req'[p].token.session = req'[q].token.session
                           => req'[p].token.serial < req'[q].token.serial
                      /\ \A b \in Browsers : cookie'[b].session = req'[q].token.session =>
                           cookie'[b].serial < req'[q].token.serial
    BY DEF NewestHeldOnce
  <2>1. CASE q = r
    <3>1. req'[r].token.session = s /\ req'[r].token.serial = session'[s].serial
      BY <1>4, <1>5, <1>6
    <3>2. ASSUME NEW p \in WithToken' \ {r}, req'[p].token.session = s
          PROVE  req'[p].token.serial < session'[s].serial
      BY <1>3, <1>5, <1>6, <1>7, <3>2
    <3>3. ASSUME NEW b \in Browsers, cookie'[b].session = s
          PROVE  cookie'[b].serial < session'[s].serial
      BY <1>1, <1>3, <1>6, <1>7, <3>3
    <3>4. QED
      BY <2>1, <3>1, <3>2, <3>3
  <2>2. CASE q # r
    <3>1. q \in Bringing /\ q \in WithToken /\ req'[q] = req[q]
      BY <1>5, <2>2 DEF SessionsInv, RequestsKnowToken
    <3>2. req[q].token.session \in Ids \ {s} /\ Live(req[q].token.session)
      BY <1>6, <1>8, <3>1 DEF SessionsInv, TokensIssued, Issued
    <3>3. ASSUME NEW p \in WithToken' \ {q}, req'[p].token.session = req[q].token.session
          PROVE  p # r /\ p \in WithToken \ {q} /\ req'[p] = req[p]
      BY <1>4, <1>5, <3>2, <3>3
    <3>4. session'[req[q].token.session] = session[req[q].token.session]
      BY <1>6, <3>2
    <3>5. QED
      BY <1>1, <3>1, <3>2, <3>3, <3>4 DEF SessionsInv, NewestHeldOnce
  <2>3. QED
    BY <2>1, <2>2
<1>14. AnswerUnderWay'
  <2> SUFFICES ASSUME lost' = 0, NEW b \in Browsers, cookie'[b] # NoToken, Live(cookie[b].session)'
               PROVE  \/ cookie'[b].serial = session'[cookie'[b].session].serial
                      \/ \E q \in Requests : /\ req'[q].pc = "set" /\ req'[q].browser = b
                                            /\ req'[q].token.session = cookie'[b].session
    BY DEF AnswerUnderWay
  <2>1. CASE cookie[b].session = s
    <3>1. req[r].browser = b
      BY <1>3, <2>1 DEF SessionsInv, OneBrowserEach
    <3>2. QED
      BY <1>1, <1>4, <1>5, <2>1, <3>1
  <2>2. CASE cookie[b].session # s
    <3>1. cookie[b] # NoToken /\ cookie[b].session \in Ids \ {s} /\ Live(cookie[b].session)
      BY <1>1, <1>6, <2>2 DEF SessionsInv, TokensIssued, Issued
    <3>2. QED
      BY <1>1, <1>5, <1>6, <3>1 DEF SessionsInv, AnswerUnderWay
  <2>3. QED
    BY <2>1, <2>2
<1>15. QED
  BY <1>9, <1>10, <1>11, <1>12, <1>13, <1>14 DEF SessionsInv

\* An answer sets, clears or keeps the cookie of its browser.
LEMMA ArriveKeeps ==
    ASSUME SessionsInv, NEW r \in Requests, Arrive(r)
    PROVE  SessionsInv'
<1> USE DEF WithToken, Bringing, Live
<1> DEFINE t == req[r].token
           b == req[r].browser
<1>1. /\ user' = user /\ session' = session /\ lost' = lost /\ clock' = clock
      /\ req' = [req EXCEPT ![r] = Idle] /\ Idle.pc = "idle" /\ Idle.token = NoToken
  BY DEF Arrive, Idle
<1>2. req \in [Requests -> Request] /\ cookie \in [Browsers -> Tokens]
  BY DEF SessionsInv, TypeOK, Request
<1>3. /\ req' \in [Requests -> Request] /\ req'[r] = Idle
      /\ \A q \in Requests \ {r} : req'[q] = req[q]
  BY <1>1, <1>2, IdleTypes
<1>4. RequestsKnowToken'
  BY <1>1, <1>3 DEF SessionsInv, RequestsKnowToken
<1>5. cookie' \in [Browsers -> Tokens]
  BY <1>2, IdleTypes DEF Arrive, Request
<1>6. TypeOK'
  BY <1>1, <1>3, <1>5 DEF SessionsInv, TypeOK, Request
<1>7. CASE req[r].pc = "set"
  <2>1. r \in WithToken /\ b \in Browsers /\ Issued(t) /\ t # NoToken
    BY <1>7 DEF SessionsInv, RequestsKnowToken, TokensIssued
  <2>2. cookie' = [cookie EXCEPT ![b] = t]
    BY <1>7 DEF Arrive
  <2>3. cookie'[b] = t /\ \A c \in Browsers \ {b} : cookie'[c] = cookie[c]
    BY <1>2, <2>1, <2>2
  <2>4. Live(t.session) => t.serial = session[t.session].serial
    BY <1>7 DEF SessionsInv, NewestHeldOnce
  <2>5. t.serial \in Nat /\ (t.session \in Ids => session[t.session].serial \in Nat)
    BY <1>2 DEF Request, Tokens, SessionsInv, TypeOK
  <2>6. TokensIssued'
    BY <1>1, <1>3, <2>1, <2>3, <2>4, <2>5 DEF SessionsInv, TokensIssued, Issued
  <2>7. OneBrowserEach'
    <3>1. ASSUME NEW c \in Browsers \ {b} PROVE cookie[c].session # t.session
      BY <2>1, <3>1 DEF SessionsInv, OneBrowserEach
    <3>2. \A q \in WithToken : req[q].token.session = t.session => req[q].browser = b
      BY <2>1 DEF SessionsInv, OneBrowserEach
    <3>3. QED
      BY <1>1, <1>3, <2>3, <3>1, <3>2 DEF SessionsInv, OneBrowserEach
  <2>8. NewestHeldOnce'
    <3> SUFFICES ASSUME NEW q \in Bringing', Live(req[q].token.session)'
                 PROVE  /\ req'[q].pc # "binding" => req'[q].token.serial = session'[req'[q].token.session].serial
                        /\ \A p \in WithToken' \ {q} : req'[p].token.session = req'[q].token.session
                             => req'[p].token.serial < req'[q].token.serial
                        /\ \A c \in Browsers : cookie'[c].session = req'[q].token.session =>
                             cookie'[c].serial < req'[q].token.serial
      BY DEF NewestHeldOnce
    <3>1. q # r /\ req'[q] = req[q] /\ q \in Bringing
      BY <1>1, <1>3
    <3>2. t.session = req[q].token.session => t.serial < req[q].token.serial
      BY <1>1, <2>1, <3>1 DEF SessionsInv, NewestHeldOnce
    <3>3. QED
      BY <1>1, <1>3, <2>3, <3>1, <3>2 DEF SessionsInv, NewestHeldOnce
  <2>9. AnswerUnderWay'
    <3> SUFFICES ASSUME lost' = 0, NEW c \in Browsers, cookie'[c] # NoToken, Live(cookie[c].session)'
                 PROVE  \/ cookie'[c].serial = session'[cookie'[c].session].serial
                        \/ \E q \in Requests : /\ req'[q].pc = "set" /\ req'[q].browser = c
                                              /\ req'[q].token.session = cookie'[c].session
      BY DEF AnswerUnderWay
    <3>1. CASE c = b
      BY <1>1, <2>3, <2>4, <3>1
    <3>2. CASE c # b
      BY <1>1, <1>3, <2>3, <3>2 DEF SessionsInv, AnswerUnderWay
    <3>3. QED
      BY <3>1, <3>2
  <2>10. QED
    BY <1>4, <1>6, <2>6, <2>7, <2>8, <2>9 DEF SessionsInv
<1>8. CASE req[r].pc # "set"
  <2>1. \A c \in Browsers : cookie'[c] = cookie[c] \/ cookie'[c] = NoToken
    BY <1>2, <1>8 DEF Arrive
  <2>2. TokensIssued'
    BY <1>1, <1>3, <2>1 DEF SessionsInv, TokensIssued, Issued
  <2>3. \A q \in WithToken' : q \in WithToken /\ req'[q] = req[q]
    BY <1>1, <1>3
  <2>4. \A q \in WithToken : req[q].token.session # NoToken.session
    BY SessionConstants DEF SessionsInv, TokensIssued, Issued, NoToken, Ids
  <2>5. \A c \in Browsers : cookie[c] # NoToken => cookie[c].session # NoToken.session
    BY SessionConstants DEF SessionsInv, TokensIssued, Issued, NoToken, Ids
  <2>6. OneBrowserEach'
    <3>1. \A c, d \in Browsers : cookie'[c] # NoToken /\ cookie'[d].session = cookie'[c].session => d = c
      BY <2>1, <2>5 DEF SessionsInv, OneBrowserEach
    <3>2. \A c \in Browsers : \A q \in WithToken' :
            cookie'[c].session = req'[q].token.session => req'[q].browser = c
      BY <2>1, <2>3, <2>4 DEF SessionsInv, OneBrowserEach
    <3>3. \A p, q \in WithToken' :
            req'[p].token.session = req'[q].token.session => req'[p].browser = req'[q].browser
      BY <2>3 DEF SessionsInv, OneBrowserEach
    <3>4. QED
      BY <3>1, <3>2, <3>3 DEF OneBrowserEach
  <2>7. NewestHeldOnce'
    <3> SUFFICES ASSUME NEW q \in Bringing', Live(req[q].token.session)'
                 PROVE  /\ req'[q].pc # "binding" => req'[q].token.serial = session'[req'[q].token.session].serial
                        /\ \A p \in WithToken' \ {q} : req'[p].token.session = req'[q].token.session
                             => req'[p].token.serial < req'[q].token.serial
                        /\ \A c \in Browsers : cookie'[c].session = req'[q].token.session =>
                             cookie'[c].serial < req'[q].token.serial
      BY DEF NewestHeldOnce
    <3>1. q # r /\ req'[q] = req[q] /\ q \in Bringing /\ q \in WithToken
      BY <1>1, <1>3 DEF SessionsInv, RequestsKnowToken
    <3>2. QED
      BY <1>1, <1>3, <2>1, <2>3, <2>4, <3>1 DEF SessionsInv, NewestHeldOnce
  <2>8. AnswerUnderWay'
    <3> SUFFICES ASSUME lost' = 0, NEW c \in Browsers, cookie'[c] # NoToken, Live(cookie[c].session)'
                 PROVE  \/ cookie'[c].serial = session'[cookie'[c].session].serial
                        \/ \E q \in Requests : /\ req'[q].pc = "set" /\ req'[q].browser = c
                                              /\ req'[q].token.session = cookie'[c].session
      BY DEF AnswerUnderWay
    <3>1. cookie'[c] = cookie[c]
      BY <2>1
    <3>2. QED
      BY <1>1, <1>3, <1>8, <3>1 DEF SessionsInv, AnswerUnderWay
  <2>9. QED
    BY <1>4, <1>6, <2>2, <2>6, <2>7, <2>8 DEF SessionsInv
<1>9. QED
  BY <1>7, <1>8

-----------------------------------------------------------------------------
(* Every step keeps the invariant.                                         *)

\* The statements at which a request has a token.
Knows == {"binding", "cleaning", "refreshing", "checking", "expired", "orphan",
          "inactive", "rotating", "losing", "revoking", "set"}

\* A request goes to a statement that brings no new token.
LEMMA GoesKeeps ==
    ASSUME SessionsInv, NEW r \in Requests, NEW pc \in Pcs,
           req' \in [Requests -> Request],
           req'[r].pc = pc, req'[r].token = req[r].token, req'[r].browser = req[r].browser,
           \A q \in Requests \ {r} : req'[q] = req[q],
           Fades, cookie' = cookie, user' \in UserStates, clock' \in Nat, lost' \in Nat,
           lost' = lost \/ lost' # 0,
           pc \notin {"creating", "binding", "cleaning"}, req[r].pc # "set",
           pc \in Knows => req[r].pc \in Knows \/ req[r].token # NoToken,
           pc = "set" => req[r].pc = "cleaning",
           req[r].pc = "binding" => session'[req[r].token.session].status # "live"
    PROVE  SessionsInv'
<1>1. TypeOK'
  BY DEF SessionsInv, TypeOK, Request, Fades, Row
<1>2. RequestsKnowToken'
  BY DEF SessionsInv, RequestsKnowToken, WithToken, Knows
<1>3. Passive(r)
  BY DEF Passive, Live
<1>4. QED
  BY <1>1, <1>2, <1>3, PassiveKeeps

\* A request begins with the token of its browser or with none.
LEMMA BeginsKeeps ==
    ASSUME SessionsInv, NEW r \in Requests, NEW pc \in Pcs, NEW b \in Browsers \cup {NoBrowser},
           NEW t \in Tokens, Begins(r, pc, b, t), req[r].pc = "idle",
           Fades, cookie' = cookie, user' \in UserStates, clock' = clock, lost' = lost,
           t = NoToken \/ (b \in Browsers /\ t = cookie[b] /\ t # NoToken),
           pc \notin {"binding", "cleaning", "set"},
           pc \in Knows => t # NoToken,
           pc = "creating" => b \in Browsers
    PROVE  SessionsInv'
<1>1. /\ req' \in [Requests -> Request]
      /\ req'[r].pc = pc /\ req'[r].browser = b /\ req'[r].token = t
      /\ \A q \in Requests \ {r} : req'[q] = req[q]
  BY BeginsTypes DEF SessionsInv
<1>2. TypeOK'
  BY <1>1 DEF SessionsInv, TypeOK, Request, Fades, Row
<1>3. RequestsKnowToken'
  BY <1>1 DEF SessionsInv, RequestsKnowToken, WithToken, Knows
<1>4. Passive(r)
  BY <1>1 DEF Passive
<1>5. QED
  BY <1>2, <1>3, <1>4, PassiveKeeps

\* What a step of Login, of a refresh or of another request keeps.
LEMMA GoesFacts ==
    ASSUME TypeOK, NEW r \in Requests, NEW pc \in Pcs, Goes(r, pc)
    PROVE  /\ req' \in [Requests -> Request]
           /\ req'[r].pc = pc /\ req'[r].token = req[r].token /\ req'[r].browser = req[r].browser
           /\ \A q \in Requests \ {r} : req'[q] = req[q]
<1>1. req \in [Requests -> Request]
  BY DEF TypeOK, Request
<1>2. QED
  BY <1>1, GoesTypes DEF Goes, Request

LEMMA LoginKeeps ==
    ASSUME SessionsInv, NEW r \in Requests, Login(r)
    PROVE  SessionsInv'
<1>0. TypeOK /\ user \in UserStates /\ clock \in Nat /\ lost \in Nat
  BY DEF SessionsInv, TypeOK
<1>1. ASSUME NEW b \in Browsers, LoginChecks(r, b)
      PROVE  SessionsInv'
  <2>1. "creating" \in Pcs /\ "creating" \notin Knows
    BY DEF Pcs, Knows
  <2>2. QED
    BY <1>0, <1>1, <2>1, SameFades, BeginsKeeps, IdleTypes DEF LoginChecks, Starts
<1>2. CASE LoginCreates(r)
  BY <1>2, LoginCreatesKeeps
<1>3. CASE LoginBinds(r)
  <2>1. CASE Rotates(req[r].token.session, 0)
    BY <1>3, <2>1, LoginBindsKeeps
  <2>2. CASE ~Rotates(req[r].token.session, 0)
    <3>1. /\ session' = session /\ Goes(r, "cleaning") /\ req[r].pc = "binding"
          /\ UNCHANGED <<user, cookie, clock, lost>> /\ "cleaning" \in Pcs
      BY <1>3, <2>2 DEF LoginBinds, Pcs
    <3>2. /\ req' \in [Requests -> Request] /\ req'[r].pc = "cleaning"
          /\ req'[r].token = req[r].token /\ req'[r].browser = req[r].browser
          /\ \A q \in Requests \ {r} : req'[q] = req[q]
      BY <1>0, <3>1, GoesFacts
    <3>3. r \in WithToken /\ ~Live(req[r].token.session)
      BY <2>2, <3>1 DEF SessionsInv, RequestsKnowToken, TokensIssued, Rotates
    <3>4. TypeOK'
      BY <1>0, <3>1, <3>2 DEF TypeOK, Request
    <3>5. RequestsKnowToken'
      BY <3>2, <3>3 DEF SessionsInv, RequestsKnowToken, WithToken
    <3>6. TokensIssued'
      BY <3>1, <3>2, <3>3 DEF SessionsInv, TokensIssued, Issued, WithToken, Live
    <3>7. OneBrowserEach'
      BY <3>1, <3>2 DEF SessionsInv, OneBrowserEach, WithToken
    <3>8. NewestHeldOnce'
      BY <3>1, <3>2, <3>3 DEF SessionsInv, NewestHeldOnce, WithToken, Bringing, Live
    <3>9. AnswerUnderWay'
      BY <3>1, <3>2 DEF SessionsInv, AnswerUnderWay, Live
    <3>10. QED
      BY <3>4, <3>5, <3>6, <3>7, <3>8, <3>9 DEF SessionsInv
  <2>3. QED
    BY <2>1, <2>2
<1>4. CASE LoginBindFails(r)
  <2>1. /\ req[r].pc = "binding" /\ session' = Deleted({req[r].token.session}) /\ Goes(r, "keep")
        /\ lost' = lost + 1 /\ UNCHANGED <<user, cookie, clock>> /\ "keep" \in Pcs /\ "keep" \notin Knows
    BY <1>4 DEF LoginBindFails, AnswerKeep, Pcs, Knows
  <2>2. req[r].token.session \in Ids
    BY <2>1 DEF SessionsInv, RequestsKnowToken, TokensIssued, Issued
  <2>3. session'[req[r].token.session].status # "live"
    BY <1>0, <2>1, <2>2 DEF Deleted, TypeOK
  <2>4. lost' \in Nat /\ lost' # 0 /\ Fades
    BY <1>0, <2>1, DeletedFades
  <2>5. /\ req' \in [Requests -> Request] /\ req'[r].pc = "keep"
        /\ req'[r].token = req[r].token /\ req'[r].browser = req[r].browser
        /\ \A q \in Requests \ {r} : req'[q] = req[q]
    BY <1>0, <2>1, GoesFacts
  <2>6. QED
    BY <1>0, <2>1, <2>3, <2>4, <2>5, GoesKeeps
<1>5. CASE LoginCleans(r)
  <2>1. /\ req[r].pc = "cleaning" /\ session' = Deleted(Expired(req[r].now))
        /\ req' = [req EXCEPT ![r].pc = "set", ![r].token = req[r].token]
        /\ UNCHANGED <<user, cookie, clock, lost>> /\ "set" \in Pcs /\ "cleaning" \in Knows
    BY <1>5 DEF LoginCleans, AnswerSet, Pcs, Knows
  <2>2. req \in [Requests -> Request] /\ req[r].token \in Tokens
    BY <1>0 DEF TypeOK, Request
  <2>3. req' \in [Requests -> Request]
    BY <1>0, <2>1, <2>2, GoesTypes
  <2>4. /\ req'[r].pc = "set" /\ req'[r].token = req[r].token /\ req'[r].browser = req[r].browser
        /\ \A q \in Requests \ {r} : req'[q] = req[q]
    BY <2>1, <2>2 DEF Request
  <2>5. QED
    BY <1>0, <2>1, <2>3, <2>4, DeletedFades, GoesKeeps
<1>6. QED
  BY <1>1, <1>2, <1>3, <1>4, <1>5 DEF Login

\* A step of a refresh.
LEMMA RefreshKeeps ==
    ASSUME SessionsInv, NEW r \in Requests, Refresh(r)
    PROVE  SessionsInv'
<1>0. /\ TypeOK /\ user \in UserStates /\ clock \in Nat /\ lost \in Nat
      /\ cookie \in [Browsers -> Tokens] /\ req \in [Requests -> Request]
  BY DEF SessionsInv, TypeOK, Request
<1>t. /\ {"refreshing", "checking", "expired", "orphan", "inactive", "rotating", "losing",
           "revoking"} \subseteq Knows \cap Pcs
      /\ {"clear", "keep"} \subseteq Pcs \ Knows
  BY DEF Knows, Pcs
<1>1. ASSUME NEW b \in Browsers, RefreshSends(r, b)
      PROVE  SessionsInv'
  BY <1>0, <1>1, <1>t, SameFades, BeginsKeeps DEF RefreshSends, Starts
<1>2. CASE RefreshFinds(r)
  <2>1. req[r].token.session \in Ids
    BY <1>2 DEF RefreshFinds, SessionsInv, RequestsKnowToken, TokensIssued, Issued
  <2> DEFINE s == session[req[r].token.session]
             pc == CASE s.status # "live"  -> "clear"
                     [] s.status = "live" /\ clock > s.expires  -> "expired"
                     [] s.status = "live" /\ clock <= s.expires -> "checking"
  <2>2. s.expires \in Nat
    BY <1>0, <2>1 DEF TypeOK
  <2>3. pc \in {"clear", "expired", "checking"}
    BY <1>0, <2>2
  <2>4. /\ req[r].pc = "refreshing" /\ req' = [req EXCEPT ![r].now = clock, ![r].pc = pc]
        /\ UNCHANGED <<user, session, cookie, clock, lost>>
    BY <1>2 DEF RefreshFinds
  <2> HIDE DEF pc
  <2>5. [req[r] EXCEPT !.now = clock, !.pc = pc] \in Request
    BY <1>0, <1>t, <2>3 DEF Request
  <2>6. req' = [req EXCEPT ![r] = [req[r] EXCEPT !.now = clock, !.pc = pc]]
    BY <1>0, <2>4 DEF Request
  <2>7. /\ req' \in [Requests -> Request]
        /\ req'[r].pc = pc /\ req'[r].token = req[r].token /\ req'[r].browser = req[r].browser
        /\ \A q \in Requests \ {r} : req'[q] = req[q]
    BY <1>0, <2>5, <2>6 DEF Request
  <2>8. QED
    BY <1>0, <1>t, <2>3, <2>4, <2>7, SameFades, GoesKeeps
<1>3. CASE RefreshChecks(r)
  <2> DEFINE pc == CASE ~user.exists                -> "orphan"
                     [] user.exists /\ ~user.active -> "inactive"
                     [] user.exists /\ user.active  -> "rotating"
  <2>1. pc \in {"orphan", "inactive", "rotating"}
    OBVIOUS
  <2>2. /\ req[r].pc = "checking" /\ Goes(r, pc)
        /\ UNCHANGED <<user, session, cookie, clock, lost>>
    BY <1>3 DEF RefreshChecks
  <2> HIDE DEF pc
  <2>3. /\ req' \in [Requests -> Request]
        /\ req'[r].pc = pc /\ req'[r].token = req[r].token /\ req'[r].browser = req[r].browser
        /\ \A q \in Requests \ {r} : req'[q] = req[q]
    BY <1>0, <1>t, <2>1, <2>2, GoesFacts
  <2>4. QED
    BY <1>0, <1>t, <2>1, <2>2, <2>3, SameFades, GoesKeeps
<1>4. CASE RefreshRefuses(r)
  <2>1. /\ req[r].pc \in {"expired", "orphan", "inactive"} /\ Goes(r, "clear")
        /\ UNCHANGED <<user, cookie, clock, lost>>
        /\ \E S : session' = Deleted(S) \/ session' = Revoked(S)
    BY <1>4 DEF RefreshRefuses, AnswerClear
  <2>2. /\ req' \in [Requests -> Request]
        /\ req'[r].pc = "clear" /\ req'[r].token = req[r].token /\ req'[r].browser = req[r].browser
        /\ \A q \in Requests \ {r} : req'[q] = req[q]
    BY <1>0, <1>t, <2>1, GoesFacts
  <2>3. Fades
    BY <1>0, <2>1, DeletedFades, RevokedFades
  <2>4. QED
    BY <1>0, <1>t, <2>1, <2>2, <2>3, GoesKeeps
<1>5. CASE RefreshRotates(r)
  <2>1. CASE Rotates(req[r].token.session, req[r].token.serial)
    BY <1>5, <2>1, RefreshRotatesKeeps
  <2>2. CASE ~Rotates(req[r].token.session, req[r].token.serial)
    <3>1. /\ req[r].pc = "rotating" /\ Goes(r, "losing")
          /\ UNCHANGED <<user, session, cookie, clock, lost>>
      BY <1>5, <2>2 DEF RefreshRotates
    <3>2. /\ req' \in [Requests -> Request]
          /\ req'[r].pc = "losing" /\ req'[r].token = req[r].token /\ req'[r].browser = req[r].browser
          /\ \A q \in Requests \ {r} : req'[q] = req[q]
      BY <1>0, <1>t, <3>1, GoesFacts
    <3>3. QED
      BY <1>0, <1>t, <3>1, <3>2, SameFades, GoesKeeps
  <2>3. QED
    BY <2>1, <2>2
<1>6. CASE RefreshLoses(r)
  <2>1. req[r].token.session \in Ids
    BY <1>6 DEF RefreshLoses, SessionsInv, RequestsKnowToken, TokensIssued, Issued
  <2> DEFINE s == session[req[r].token.session]
             pc == CASE s.status \in {"absent", "deleted"} -> "clear"
                     [] s.status = "live" /\ req[r].now <= s.updated + Grace -> "keep"
                     [] s.status = "live" /\ req[r].now > s.updated + Grace -> "revoking"
                     [] s.status = "revoked" -> "revoking"
  <2>2. /\ s.status \in {"absent", "live", "revoked", "deleted"}
        /\ s.updated + Grace \in Nat /\ req[r].now \in Nat
    BY <1>0, <2>1, SessionConstants DEF TypeOK, Request
  <2>3. pc \in {"clear", "keep", "revoking"}
    BY <2>2
  <2>4. /\ req[r].pc = "losing" /\ Goes(r, pc)
        /\ UNCHANGED <<user, session, cookie, clock, lost>>
    BY <1>6 DEF RefreshLoses
  <2> HIDE DEF pc
  <2>5. /\ req' \in [Requests -> Request]
        /\ req'[r].pc = pc /\ req'[r].token = req[r].token /\ req'[r].browser = req[r].browser
        /\ \A q \in Requests \ {r} : req'[q] = req[q]
    BY <1>0, <1>t, <2>3, <2>4, GoesFacts
  <2>6. QED
    BY <1>0, <1>t, <2>3, <2>4, <2>5, SameFades, GoesKeeps
<1>7. CASE RefreshRevokes(r)
  <2>1. /\ req[r].pc = "revoking" /\ Goes(r, "clear") /\ session' = Revoked({req[r].token.session})
        /\ UNCHANGED <<user, cookie, clock, lost>>
    BY <1>7 DEF RefreshRevokes, AnswerClear
  <2>2. /\ req' \in [Requests -> Request]
        /\ req'[r].pc = "clear" /\ req'[r].token = req[r].token /\ req'[r].browser = req[r].browser
        /\ \A q \in Requests \ {r} : req'[q] = req[q]
    BY <1>0, <1>t, <2>1, GoesFacts
  <2>3. QED
    BY <1>0, <1>t, <2>1, <2>2, RevokedFades, GoesKeeps
<1>8. QED
  BY <1>1, <1>2, <1>3, <1>4, <1>5, <1>6, <1>7 DEF Refresh

\* A step of a logout, of a change of password or status, or of a deletion.
LEMMA AccountKeeps ==
    ASSUME SessionsInv, NEW r \in Requests, Account(r)
    PROVE  SessionsInv'
<1>0. /\ TypeOK /\ user \in UserStates /\ clock \in Nat /\ lost \in Nat
      /\ cookie \in [Browsers -> Tokens] /\ req \in [Requests -> Request]
  BY DEF SessionsInv, TypeOK, Request
<1>t. /\ {"saving", "others", "disabling", "deleting", "forgetting", "clear", "keep"} \subseteq Pcs \ Knows
      /\ "revoking" \in Pcs \cap Knows
  BY DEF Knows, Pcs
<1>1. ASSUME NEW b \in Browsers,
             LogoutFinds(r, b) \/ LogoutAll(r, b) \/ ChangePassword(r, b) \/ DeleteUser(r, b)
      PROVE  SessionsInv'
  <2>1. /\ req[r].pc = "idle" /\ cookie[b] # NoToken /\ cookie[b] \in Tokens
        /\ UNCHANGED <<user, cookie, clock, lost>>
        /\ session' = session \/ session' = Revoked(Ids)
        /\ \E pc \in {"revoking", "clear", "saving", "deleting"} : Begins(r, pc, b, cookie[b])
    BY <1>0, <1>1 DEF LogoutFinds, LogoutAll, ChangePassword, DeleteUser, Starts, Authorized
  <2>2. Fades
    BY <1>0, <2>1, SameFades, RevokedFades
  <2>3. PICK pc \in {"revoking", "clear", "saving", "deleting"} : Begins(r, pc, b, cookie[b])
    BY <2>1
  <2>4. pc \in Pcs /\ pc \notin {"binding", "cleaning", "set", "creating"}
    BY <1>t
  <2>5. QED
    BY <1>0, <2>1, <2>2, <2>3, <2>4, BeginsKeeps
<1>2. CASE UpdateUserStatus(r)
  <2>1. /\ req[r].pc = "idle" /\ UNCHANGED <<session, cookie, clock, lost>>
        /\ user' = [user EXCEPT !.active = ~user.active]
        /\ \E pc \in {"disabling", "keep"} : Begins(r, pc, NoBrowser, NoToken)
    BY <1>2 DEF UpdateUserStatus, Starts
  <2>2. user' \in UserStates
    BY <1>0, <2>1 DEF UserStates
  <2>3. PICK pc \in {"disabling", "keep"} : Begins(r, pc, NoBrowser, NoToken)
    BY <2>1
  <2>4. pc \in Pcs \ Knows /\ pc \notin {"binding", "cleaning", "set", "creating"}
    BY <1>t
  <2>5. QED
    BY <1>0, <2>1, <2>2, <2>3, <2>4, SameFades, BeginsKeeps, IdleTypes
<1>3. ASSUME ChangePasswordSaves(r) \/ ChangePasswordRevokes(r) \/ DisablingRevokes(r)
             \/ DeletingUser(r) \/ DeletingSessions(r)
      PROVE  SessionsInv'
  <2>1. /\ req[r].pc \in {"saving", "others", "disabling", "deleting", "forgetting"}
        /\ UNCHANGED <<cookie, clock, lost>>
        /\ \/ user' = user
           \/ user' = [user EXCEPT !.exists = FALSE]
           \/ user' = [req[r].copy EXCEPT !.password = req[r].copy.password + 1]
        /\ \/ session' = session
           \/ \E S : session' = Deleted(S) \/ session' = Revoked(S)
        /\ \E pc \in {"others", "forgetting", "keep"} : Goes(r, pc)
    BY <1>3 DEF ChangePasswordSaves, ChangePasswordRevokes, DisablingRevokes, DeletingUser,
                DeletingSessions, AnswerKeep
  <2>2. user' \in UserStates
    <3>1. req[r].copy \in UserStates /\ req[r].copy.password + 1 \in Nat
      BY <1>0 DEF Request, UserStates
    <3>2. QED
      BY <1>0, <2>1, <3>1 DEF UserStates
  <2>3. Fades
    BY <1>0, <2>1, SameFades, RevokedFades, DeletedFades
  <2>4. PICK pc \in {"others", "forgetting", "keep"} : Goes(r, pc)
    BY <2>1
  <2>5. /\ req' \in [Requests -> Request]
        /\ req'[r].pc = pc /\ req'[r].token = req[r].token /\ req'[r].browser = req[r].browser
        /\ \A q \in Requests \ {r} : req'[q] = req[q]
    BY <1>0, <1>t, <2>4, GoesFacts
  <2>6. QED
    BY <1>0, <1>t, <2>1, <2>2, <2>3, <2>4, <2>5, GoesKeeps
<1>4. QED
  BY <1>1, <1>2, <1>3 DEF Account

\* A request that is lost holds nothing any more.
LEMMA LoseKeeps ==
    ASSUME SessionsInv, NEW r \in Requests, Lose(r)
    PROVE  SessionsInv'
<1>1. /\ req' = [req EXCEPT ![r] = Idle] /\ lost' = lost + 1
      /\ UNCHANGED <<user, session, cookie, clock>> /\ Idle.token = NoToken /\ Idle.pc = "idle"
  BY DEF Lose, Idle
<1>2. /\ req' \in [Requests -> Request] /\ req'[r] = Idle /\ lost' \in Nat /\ lost' # 0
      /\ \A q \in Requests \ {r} : req'[q] = req[q]
  BY <1>1, IdleTypes DEF SessionsInv, TypeOK, Request
<1>3. TypeOK'
  BY <1>1, <1>2 DEF SessionsInv, TypeOK, Request
<1>4. RequestsKnowToken'
  BY <1>1, <1>2 DEF SessionsInv, RequestsKnowToken, WithToken
<1>5. Passive(r)
  BY <1>1, <1>2, SameFades DEF Passive, SessionsInv
<1>6. QED
  BY <1>3, <1>4, <1>5, PassiveKeeps

\* The clock alone, or nothing, changes.
LEMMA ClockKeeps ==
    ASSUME SessionsInv, UNCHANGED <<user, session, cookie, req, lost>>, clock' \in Nat
    PROVE  SessionsInv'
<1>1. TypeOK' /\ RequestsKnowToken'
  BY DEF SessionsInv, TypeOK, RequestsKnowToken, WithToken
<1>2. TokensIssued' /\ OneBrowserEach'
  BY DEF SessionsInv, TokensIssued, Issued, OneBrowserEach, WithToken, Live
<1>3. NewestHeldOnce' /\ AnswerUnderWay'
  BY DEF SessionsInv, NewestHeldOnce, AnswerUnderWay, WithToken, Bringing, Live
<1>4. QED
  BY <1>1, <1>2, <1>3 DEF SessionsInv

LEMMA NextKeeps ==
    ASSUME SessionsInv, [Next]_vars
    PROVE  SessionsInv'
<1>1. ASSUME NEW r \in Requests, Login(r) \/ Refresh(r) \/ Account(r) \/ Arrive(r) \/ Lose(r)
      PROVE  SessionsInv'
  BY <1>1, LoginKeeps, RefreshKeeps, AccountKeeps, ArriveKeeps, LoseKeeps
<1>2. clock \in Nat
  BY DEF SessionsInv, TypeOK
<1>3. CASE Tick
  BY <1>2, <1>3, ClockKeeps DEF Tick
<1>4. CASE UNCHANGED vars
  BY <1>2, <1>4, ClockKeeps DEF vars
<1>5. QED
  BY <1>1, <1>3, <1>4 DEF Next

\* Nobody holds a token at the start.
LEMMA InitHolds == ASSUME Init PROVE SessionsInv
<1>1. /\ cookie = [b \in Browsers |-> NoToken] /\ req = [r \in Requests |-> Idle]
      /\ session = [s \in Ids |-> Absent] /\ user = NewUser /\ clock = 0 /\ lost = 0
  BY DEF Init
<1>2. Absent \in Row
  BY DEF Absent, Row
<1>3. Idle.pc = "idle" /\ Idle.token = NoToken /\ Absent.status = "absent" /\ Absent.serial = 0
  BY DEF Idle, Absent
<1>4. TypeOK
  BY <1>1, <1>2, IdleTypes DEF TypeOK, Row, Request
<1>5. RequestsKnowToken /\ WithToken = {} /\ Bringing = {}
  BY <1>1, <1>3 DEF RequestsKnowToken, WithToken, Bringing
<1>6. TokensIssued /\ OneBrowserEach /\ NewestHeldOnce /\ AnswerUnderWay
  BY <1>1, <1>3, <1>5 DEF TokensIssued, OneBrowserEach, NewestHeldOnce, AnswerUnderWay
<1>7. QED
  BY <1>4, <1>5, <1>6 DEF SessionsInv

-----------------------------------------------------------------------------
(* What a step does to the table sessions.                                 *)

\* The step issues the first token of a new row s, or exchanges the current one.
Issues(s) ==
    /\ \A i \in Ids \ {s} : session'[i] = session[i]
    /\ \/ session[s].status = "absent" /\ session'[s].serial = session[s].serial
       \/ /\ Live(s)
          /\ \E r \in Requests :
               \/ req[r].pc = "rotating" /\ req[r].token = Token(s, session[s].serial)
               \/ req[r].pc = "binding" /\ session[s].serial = 0

\* A step ends rows, or touches one row that is new or live.
LEMMA TableSteps ==
    ASSUME SessionsInv, [Next]_vars
    PROVE  Fades \/ \E s \in Ids : Issues(s)
<1>0. TypeOK /\ session \in [Ids -> Row] /\ req \in [Requests -> Request]
  BY DEF SessionsInv, TypeOK, Row, Request
<1>1. ASSUME session' = session \/ \E S : session' = Revoked(S) \/ session' = Deleted(S)
      PROVE  Fades
  BY <1>0, <1>1, SameFades, RevokedFades, DeletedFades
<1>2. ASSUME NEW r \in Requests, LoginCreates(r)
      PROVE  \E s \in Ids : Issues(s)
  <2>1. PICK s \in Ids :
          /\ session[s].status = "absent"
          /\ session' = [session EXCEPT ![s] =
                [status |-> "live", serial |-> 0, updated |-> clock,
                 expires |-> clock + TTL, password |-> req[r].copy.password]]
    BY <1>2 DEF LoginCreates
  <2>2. session[s].serial = 0
    BY <2>1 DEF SessionsInv, TokensIssued
  <2>3. QED
    BY <1>0, <2>1, <2>2 DEF Issues
<1>3. ASSUME NEW r \in Requests, LoginBinds(r), session' # session
      PROVE  \E s \in Ids : Issues(s)
  <2>1. /\ req[r].pc = "binding" /\ Rotates(req[r].token.session, 0)
        /\ session' = Rotated(req[r].token.session, req[r].now)
    BY <1>3 DEF LoginBinds
  <2>2. req[r].token.session \in Ids /\ req[r].now \in Nat
    BY <1>0, <2>1 DEF SessionsInv, RequestsKnowToken, TokensIssued, Issued, Request
  <2>3. \A i \in Ids \ {req[r].token.session} : session'[i] = session[i]
    BY <1>0, <2>1, <2>2, RotatedRow
  <2>4. QED
    BY <2>1, <2>2, <2>3 DEF Issues, Rotates
<1>4. ASSUME NEW r \in Requests, RefreshRotates(r), session' # session
      PROVE  \E s \in Ids : Issues(s)
  <2>1. /\ req[r].pc = "rotating" /\ Rotates(req[r].token.session, req[r].token.serial)
        /\ session' = Rotated(req[r].token.session, req[r].now)
    BY <1>4 DEF RefreshRotates
  <2>2. req[r].token.session \in Ids /\ req[r].now \in Nat /\ req[r].token \in Tokens
    BY <1>0, <2>1 DEF SessionsInv, RequestsKnowToken, TokensIssued, Issued, Request
  <2>3. \A i \in Ids \ {req[r].token.session} : session'[i] = session[i]
    BY <1>0, <2>1, <2>2, RotatedRow
  <2>4. req[r].token = Token(req[r].token.session, session[req[r].token.session].serial)
    BY <2>1, <2>2 DEF Rotates, Token, Tokens
  <2>5. QED
    BY <2>1, <2>2, <2>3, <2>4 DEF Issues, Rotates
<1>5. ASSUME NEW r \in Requests, Login(r)
      PROVE  Fades \/ \E s \in Ids : Issues(s)
  BY <1>1, <1>2, <1>3, <1>5 DEF Login, LoginChecks, LoginBindFails, LoginCleans
<1>6. ASSUME NEW r \in Requests, Refresh(r)
      PROVE  Fades \/ \E s \in Ids : Issues(s)
  BY <1>1, <1>4, <1>6 DEF Refresh, RefreshSends, RefreshFinds, RefreshChecks, RefreshRefuses,
                          RefreshLoses, RefreshRevokes
<1>7. ASSUME NEW r \in Requests, Account(r)
      PROVE  Fades
  BY <1>1, <1>7 DEF Account, LogoutFinds, LogoutAll, ChangePassword, DeleteUser, ChangePasswordSaves,
                    ChangePasswordRevokes, UpdateUserStatus, DisablingRevokes, DeletingUser,
                    DeletingSessions
<1>8. ASSUME NEW r \in Requests, Arrive(r) \/ Lose(r)
      PROVE  Fades
  BY <1>1, <1>8 DEF Arrive, Lose
<1>9. CASE Tick \/ UNCHANGED vars
  BY <1>1, <1>9 DEF Tick, vars
<1>10. QED
  BY <1>5, <1>6, <1>7, <1>8, <1>9 DEF Next

-----------------------------------------------------------------------------
(* The grace window.                                                       *)

\* The parts of the invariant about one request.
TimesOf(r) ==
    /\ req[r].pc # "idle" => req[r].sent <= clock /\ clock <= req[r].sent + Delay
    /\ req[r].pc \in {"binding", "cleaning", "checking", "rotating", "losing", "set"} =>
         req[r].sent <= req[r].now /\ req[r].now <= clock

LastOf(r) ==
    req[r].pc \in {"cleaning", "set"} /\ Live(req[r].token.session) =>
      session[req[r].token.session].updated = req[r].now

LateOf(r) ==
    r \in WithToken /\ Live(req[r].token.session) =>
      LET t == req[r].token IN
      /\ req[r].pc = "losing" => t.serial < session[t.session].serial
      /\ req[r].pc \in {"refreshing", "checking", "rotating", "losing"} /\ lost = 0
         /\ t.serial < session[t.session].serial =>
           req[r].sent <= session[t.session].updated + Delay

GraceOf(r) == TimesOf(r) /\ LastOf(r) /\ LateOf(r)

LEMMA GraceIsOfEach ==
    /\ GraceInv => SessionsInv /\ \A r \in Requests : GraceOf(r)
    /\ SessionsInv' /\ (\A r \in Requests : GraceOf(r)') => GraceInv'
BY DEF GraceInv, InFlight, AnswersAreLast, LateTabs, GraceOf, TimesOf, LastOf, LateOf, WithToken

LEMMA GraceTypes ==
    ASSUME SessionsInv
    PROVE  /\ TypeOK /\ session \in [Ids -> Row] /\ req \in [Requests -> Request] /\ clock \in Nat
           /\ lost \in Nat /\ Delay \in Nat /\ Grace \in Nat /\ cookie \in [Browsers -> Tokens]
           /\ \A r \in WithToken : /\ r \in Requests /\ req[r].token \in Tokens
                                  /\ req[r].token.session \in Ids /\ req[r].token.serial >= 1
                                  /\ session[req[r].token.session].status # "absent"
BY SessionConstants DEF SessionsInv, TypeOK, Row, Request, TokensIssued, Issued, WithToken

\* A step of r that at most ends sessions leaves the other requests' times.
LEMMA OthersKeepGrace ==
    ASSUME GraceInv, SessionsInv', NEW r \in Requests, GraceOf(r)', Fades, clock' = clock,
           lost' = lost \/ lost' # 0, \A q \in Requests \ {r} : req'[q] = req[q]
    PROVE  GraceInv'
<1>1. SessionsInv /\ \A q \in Requests : GraceOf(q)
  BY GraceIsOfEach
<1>2. ASSUME NEW q \in Requests \ {r}
      PROVE  GraceOf(q)'
  <2>1. req'[q] = req[q] /\ GraceOf(q)
    BY <1>1, <1>2
  <2>2. TimesOf(q)'
    BY <2>1 DEF GraceOf, TimesOf
  <2>3. LastOf(q)'
    <3>1. SUFFICES ASSUME req[q].pc \in {"cleaning", "set"}, Live(req[q].token.session)'
                   PROVE  session'[req[q].token.session].updated = req[q].now
      BY <2>1 DEF LastOf
    <3>2. q \in WithToken /\ req[q].token.session \in Ids
      BY <1>1, <3>1, GraceTypes DEF SessionsInv, RequestsKnowToken
    <3>3. QED
      BY <2>1, <3>1, <3>2 DEF GraceOf, LastOf, Fades, Live
  <2>4. LateOf(q)'
    <3>1. SUFFICES ASSUME q \in WithToken, Live(req[q].token.session)'
                   PROVE  LateOf(q)'
      BY <2>1 DEF LateOf, WithToken
    <3>2. req[q].token.session \in Ids
      BY <1>1, <3>1, GraceTypes
    <3>3. QED
      BY <2>1, <3>1, <3>2 DEF GraceOf, LateOf, Fades, Live, WithToken
  <2>5. QED
    BY <2>2, <2>3, <2>4 DEF GraceOf
<1>3. QED
  BY <1>2, GraceIsOfEach

\* A browser that is behind its session got behind no longer than Delay ago.
LEMMA BehindIsRecent ==
    ASSUME GraceInv, NEW b \in Browsers, cookie[b] # NoToken, Live(cookie[b].session), lost = 0,
           cookie[b].serial < session[cookie[b].session].serial
    PROVE  clock <= session[cookie[b].session].updated + Delay
<1>1. SessionsInv /\ \A q \in Requests : GraceOf(q)
  BY GraceIsOfEach
<1>2. cookie[b] \in Tokens /\ cookie[b].session \in Ids /\ session[cookie[b].session] \in Row
  BY <1>1, GraceTypes DEF SessionsInv, TokensIssued, Issued
<1>3. PICK q \in Requests : req[q].pc = "set" /\ req[q].token.session = cookie[b].session
  BY <1>1, <1>2 DEF SessionsInv, AnswerUnderWay, Row, Tokens
<1>4. /\ session[cookie[b].session].updated = req[q].now
      /\ req[q].sent <= req[q].now /\ clock <= req[q].sent + Delay
  BY <1>1, <1>3 DEF GraceOf, LastOf, TimesOf
<1>5. req[q] \in Request /\ clock \in Nat /\ Delay \in Nat
  BY <1>1, GraceTypes
<1>6. QED
  BY <1>4, <1>5 DEF Request

\* A request goes on, with the time of its last statement or that of this one,
\* or it begins, and no new token is involved.
LEMMA GoingKeepsGrace ==
    ASSUME GraceInv, SessionsInv', NEW r \in Requests, NEW pc \in Pcs, Fades, clock' = clock,
           lost' = lost \/ lost' # 0,
           req[r].pc # "idle", Goes(r, pc),
           pc \in {"binding", "cleaning", "checking", "rotating", "losing", "set"} =>
             req[r].pc \in {"binding", "cleaning", "checking", "rotating"},
           pc = "losing" => /\ Live(req[r].token.session) =>
                                 req[r].token.serial < session[req[r].token.session].serial
                            /\ req[r].pc = "rotating",
           pc = "rotating" => req[r].pc = "checking",
           pc \notin {"refreshing", "checking"},
           pc = "set" => req[r].pc = "cleaning",
           pc = "cleaning" => ~Live(req[r].token.session)
    PROVE  GraceInv'
<1>1. SessionsInv /\ GraceOf(r) /\ req \in [Requests -> Request]
  BY GraceIsOfEach, GraceTypes
<1>2. /\ req'[r] = [req[r] EXCEPT !.pc = pc] /\ req[r] \in Request
      /\ \A q \in Requests \ {r} : req'[q] = req[q]
  BY <1>1 DEF Goes
<1>3. /\ req'[r].pc = pc /\ req'[r].token = req[r].token
      /\ req'[r].sent = req[r].sent /\ req'[r].now = req[r].now
  BY <1>2 DEF Request
<1>4. TimesOf(r)'
  BY <1>1, <1>3 DEF GraceOf, TimesOf
<1>5. r \in WithToken' => r \in WithToken
  BY <1>3 DEF WithToken
<1>6. LastOf(r)'
  <2>1. SUFFICES ASSUME pc \in {"cleaning", "set"}, session'[req[r].token.session].status = "live"
                 PROVE  session'[req[r].token.session].updated = req[r].now
    BY <1>3 DEF LastOf, Live
  <2>2. r \in WithToken' /\ req[r].token.session \in Ids
    BY <1>1, <1>3, <1>5, <2>1, GraceTypes DEF SessionsInv, RequestsKnowToken
  <2>3. Live(req[r].token.session) /\ pc = "set"
    BY <2>1, <2>2 DEF Fades, Live
  <2>4. QED
    BY <1>1, <2>2, <2>3 DEF GraceOf, LastOf, Fades
<1>7. LateOf(r)'
  <2>1. SUFFICES ASSUME r \in WithToken, pc \in {"rotating", "losing"},
                        session'[req[r].token.session].status = "live"
                 PROVE  LateOf(r)'
    BY <1>3, <1>5 DEF LateOf, Live
  <2>2. req[r].token.session \in Ids
    BY <1>1, <2>1, GraceTypes
  <2>3. /\ Live(req[r].token.session)
        /\ session'[req[r].token.session].serial = session[req[r].token.session].serial
        /\ session'[req[r].token.session].updated = session[req[r].token.session].updated
        /\ req[r].pc \in {"checking", "rotating"}
    BY <2>1, <2>2 DEF Fades, Live
  <2>4. QED
    BY <1>1, <1>3, <2>1, <2>2, <2>3 DEF GraceOf, LateOf
<1>8. QED
  BY <1>2, <1>4, <1>6, <1>7, OthersKeepGrace DEF GraceOf

\* A request begins; a refresh takes the token of its browser.
LEMMA BeginningKeepsGrace ==
    ASSUME GraceInv, SessionsInv', NEW r \in Requests, NEW pc \in Pcs, NEW b \in Browsers \cup {NoBrowser},
           NEW t \in Tokens, Begins(r, pc, b, t), Fades, clock' = clock, lost' = lost,
           pc \notin {"binding", "cleaning", "checking", "rotating", "losing", "set"},
           pc = "refreshing" => b \in Browsers /\ t = cookie[b] /\ t # NoToken
    PROVE  GraceInv'
<1>1. SessionsInv /\ req \in [Requests -> Request] /\ clock \in Nat /\ Delay \in Nat /\ lost \in Nat
  BY GraceIsOfEach, GraceTypes
<1>2. /\ req'[r].pc = pc /\ req'[r].token = t /\ \A q \in Requests \ {r} : req'[q] = req[q]
  BY <1>1, BeginsTypes, GraceTypes
<1>3. req'[r].sent = clock
  BY <1>1 DEF Begins, Idle
<1>4. TimesOf(r)' /\ LastOf(r)'
  BY <1>1, <1>2, <1>3 DEF TimesOf, LastOf
<1>5. LateOf(r)'
  <2>1. SUFFICES ASSUME pc = "refreshing", Live(t.session)', lost = 0,
                        t.serial < session'[t.session].serial
                 PROVE  clock <= session'[t.session].updated + Delay
    BY <1>2, <1>3 DEF LateOf
  <2>2. b \in Browsers /\ t = cookie[b] /\ t # NoToken /\ t.session \in Ids
    BY <1>1, <2>1 DEF SessionsInv, TokensIssued, Issued
  <2>3. /\ Live(t.session) /\ session'[t.session].serial = session[t.session].serial
        /\ session'[t.session].updated = session[t.session].updated
    BY <2>1, <2>2 DEF Fades, Live
  <2>4. QED
    BY <2>1, <2>2, <2>3, BehindIsRecent
<1>6. QED
  BY <1>2, <1>4, <1>5, OthersKeepGrace DEF GraceOf

\* The request is over.
LEMMA EndingKeepsGrace ==
    ASSUME GraceInv, SessionsInv', NEW r \in Requests, req' = [req EXCEPT ![r] = Idle],
           session' = session, clock' = clock, lost' = lost \/ lost' # 0
    PROVE  GraceInv'
<1>1. SessionsInv /\ TypeOK /\ req \in [Requests -> Request]
  BY GraceIsOfEach, GraceTypes
<1>2. req'[r].pc = "idle" /\ req'[r].token = NoToken /\ \A q \in Requests \ {r} : req'[q] = req[q]
  BY <1>1 DEF Idle
<1>3. GraceOf(r)'
  BY <1>2 DEF GraceOf, TimesOf, LastOf, LateOf, WithToken
<1>4. QED
  BY <1>1, <1>2, <1>3, SameFades, OthersKeepGrace

\* A step of r issues a token of session s: who holds an older one has sent it
\* before the answer can arrive.
LEMMA IssuingKeepsGrace ==
    ASSUME GraceInv, SessionsInv', NEW r \in Requests, NEW s \in Ids, GraceOf(r)',
           \A i \in Ids \ {s} : session'[i] = session[i], clock' = clock, lost' = lost,
           \A q \in Requests \ {r} : req'[q] = req[q],
           \A q \in WithToken \ {r} : req[q].token.session = s =>
             /\ req[q].pc \notin {"cleaning", "set"} /\ Live(s)
             /\ session'[s].serial = session[s].serial + 1
             /\ clock <= session'[s].updated + Delay
    PROVE  GraceInv'
<1>1. SessionsInv /\ \A q \in Requests : GraceOf(q)
  BY GraceIsOfEach
<1>2. ASSUME NEW q \in Requests \ {r}
      PROVE  GraceOf(q)'
  <2>1. req'[q] = req[q] /\ GraceOf(q) /\ req[q] \in Request
    BY <1>1, <1>2, GraceTypes
  <2>2. TimesOf(q)'
    BY <2>1 DEF GraceOf, TimesOf
  <2>3. LastOf(q)'
    <3>1. SUFFICES ASSUME req[q].pc \in {"cleaning", "set"}, session'[req[q].token.session].status = "live"
                   PROVE  session'[req[q].token.session].updated = req[q].now
      BY <2>1 DEF LastOf, Live
    <3>2. q \in WithToken /\ req[q].token.session \in Ids
      BY <1>1, <3>1, GraceTypes DEF SessionsInv, RequestsKnowToken
    <3>3. session'[req[q].token.session] = session[req[q].token.session]
      BY <3>1, <3>2
    <3>4. QED
      BY <2>1, <3>1, <3>3 DEF GraceOf, LastOf, Live
  <2>4. LateOf(q)'
    <3>1. SUFFICES ASSUME q \in WithToken, session'[req[q].token.session].status = "live"
                   PROVE  LateOf(q)'
      BY <2>1 DEF LateOf, Live, WithToken
    <3>2. req[q].token.session \in Ids /\ req[q].token \in Tokens
      BY <1>1, <3>1, GraceTypes
    <3>3. CASE req[q].token.session # s
      <4>1. session'[req[q].token.session] = session[req[q].token.session]
        BY <3>2, <3>3
      <4>2. QED
        BY <2>1, <3>1, <4>1 DEF GraceOf, LateOf, Live
    <3>4. CASE req[q].token.session = s
      <4>1. /\ Live(s) /\ session'[s].serial = session[s].serial + 1
            /\ clock <= session'[s].updated + Delay
        BY <3>1, <3>4
      <4>2. /\ session[s] \in Row /\ session' \in [Ids -> Row] /\ clock \in Nat /\ Delay \in Nat
        BY <1>1, GraceTypes DEF SessionsInv, TypeOK, Row
      <4>3. req[q].pc = "losing" => req[q].token.serial < session'[s].serial
        BY <2>1, <3>1, <3>2, <3>4, <4>1, <4>2 DEF GraceOf, LateOf, Row, Tokens
      <4>4. req[q].pc \in {"refreshing", "checking", "rotating", "losing"} =>
              req[q].sent <= session'[s].updated + Delay
        BY <2>1, <4>1, <4>2 DEF GraceOf, TimesOf, Request, Row
      <4>5. QED
        BY <2>1, <3>4, <4>3, <4>4 DEF LateOf
    <3>5. QED
      BY <3>3, <3>4
  <2>5. QED
    BY <2>2, <2>3, <2>4 DEF GraceOf
<1>3. QED
  BY <1>2, GraceIsOfEach

\* A step of a login.
LEMMA LoginKeepsGrace ==
    ASSUME GraceInv, NEW r \in Requests, Login(r)
    PROVE  GraceInv'
<1>0. SessionsInv /\ GraceOf(r) /\ SessionsInv'
  BY GraceIsOfEach, LoginKeeps
<1>t. /\ TypeOK /\ session \in [Ids -> Row] /\ req \in [Requests -> Request] /\ req[r] \in Request
      /\ clock \in Nat /\ Delay \in Nat
  BY <1>0, GraceTypes
<1>1. ASSUME NEW b \in Browsers, LoginChecks(r, b)
      PROVE  GraceInv'
  <2>1. Begins(r, "creating", b, NoToken) /\ UNCHANGED <<session, clock, lost>>
    BY <1>1 DEF LoginChecks
  <2>2. "creating" \in Pcs /\ NoToken \in Tokens
    BY IdleTypes DEF Pcs
  <2>3. QED
    BY <1>0, <1>t, <2>1, <2>2, SameFades, BeginningKeepsGrace
<1>2. CASE LoginCreates(r)
  <2>1. PICK s \in Ids :
          /\ session[s].status = "absent"
          /\ session' = [session EXCEPT ![s] =
                [status |-> "live", serial |-> 0, updated |-> clock,
                 expires |-> clock + TTL, password |-> req[r].copy.password]]
          /\ req' = [req EXCEPT ![r].pc = "binding", ![r].token = Token(s, 1), ![r].now = clock]
    BY <1>2 DEF LoginCreates
  <2>2. req[r].pc = "creating" /\ clock' = clock /\ lost' = lost
    BY <1>2 DEF LoginCreates
  <2>3. /\ req'[r].pc = "binding" /\ req'[r].sent = req[r].sent /\ req'[r].now = clock
        /\ \A q \in Requests \ {r} : req'[q] = req[q]
    BY <1>t, <2>1 DEF Request
  <2>4. GraceOf(r)'
    BY <1>0, <1>t, <2>2, <2>3 DEF GraceOf, TimesOf, LastOf, LateOf, Request
  <2>5. \A q \in WithToken : req[q].token.session # s
    BY <1>0, <2>1, GraceTypes
  <2>6. \A i \in Ids \ {s} : session'[i] = session[i]
    BY <1>t, <2>1
  <2>7. QED
    BY <1>0, <2>2, <2>3, <2>4, <2>5, <2>6, IssuingKeepsGrace
<1>3. CASE LoginBinds(r)
  <2> DEFINE s == req[r].token.session
  <2>1. req[r].pc = "binding" /\ Goes(r, "cleaning") /\ clock' = clock /\ lost' = lost
    BY <1>3 DEF LoginBinds
  <2>2. r \in WithToken /\ s \in Ids /\ req[r].now \in Nat
    BY <1>0, <1>t, <2>1, GraceTypes DEF SessionsInv, RequestsKnowToken, Request
  <2>3. Live(s) => req[r].token.serial = 1 /\ session[s].serial = 0
    BY <1>0, <2>1, <2>2 DEF SessionsInv, TokensIssued
  <2>4. CASE Rotates(s, 0)
    <3>1. session' = Rotated(s, req[r].now)
      BY <1>3, <2>4 DEF LoginBinds
    <3>2. /\ \A i \in Ids \ {s} : session'[i] = session[i]
          /\ session'[s].updated = req[r].now
      BY <1>t, <2>2, <3>1, RotatedRow
    <3>3. /\ req'[r].pc = "cleaning" /\ req'[r].token = req[r].token
          /\ req'[r].sent = req[r].sent /\ req'[r].now = req[r].now
          /\ \A q \in Requests \ {r} : req'[q] = req[q]
      BY <1>t, <2>1 DEF Goes, Request
    <3>4. GraceOf(r)'
      BY <1>0, <2>1, <3>2, <3>3 DEF GraceOf, TimesOf, LastOf, LateOf
    <3>5. \A q \in WithToken \ {r} : req[q].token.session # s
      <4>1. r \in Bringing /\ Live(s) /\ req[r].token.serial = 1
        BY <2>1, <2>3, <2>4 DEF Bringing, Rotates
      <4>2. \A q \in WithToken \ {r} : req[q].token.session = s => req[q].token.serial < 1
        BY <1>0, <4>1 DEF SessionsInv, NewestHeldOnce
      <4>3. QED
        BY <1>0, <4>2, GraceTypes DEF Tokens
    <3>6. QED
      BY <1>0, <2>1, <2>2, <3>2, <3>3, <3>4, <3>5, IssuingKeepsGrace
  <2>5. CASE ~Rotates(s, 0)
    <3>1. session' = session /\ ~Live(s) /\ "cleaning" \in Pcs
      BY <1>3, <2>3, <2>5 DEF LoginBinds, Rotates, Pcs
    <3>2. QED
      BY <1>0, <1>t, <2>1, <3>1, SameFades, GoingKeepsGrace
  <2>6. QED
    BY <2>4, <2>5
<1>4. CASE LoginBindFails(r)
  <2>1. /\ req[r].pc = "binding" /\ Goes(r, "keep") /\ clock' = clock /\ lost' = lost + 1
        /\ session' = Deleted({req[r].token.session}) /\ "keep" \in Pcs
    BY <1>4 DEF LoginBindFails, AnswerKeep, Pcs
  <2>2. lost' # 0
    BY <1>0, <2>1, GraceTypes
  <2>3. QED
    BY <1>0, <1>t, <2>1, <2>2, DeletedFades, GoingKeepsGrace
<1>5. CASE LoginCleans(r)
  <2>1. /\ req[r].pc = "cleaning" /\ session' = Deleted(Expired(req[r].now)) /\ "set" \in Pcs
        /\ req' = [req EXCEPT ![r].pc = "set", ![r].token = req[r].token]
        /\ clock' = clock /\ lost' = lost
    BY <1>5 DEF LoginCleans, AnswerSet, Pcs
  <2>2. Goes(r, "set")
    BY <1>t, <2>1 DEF Goes, Request
  <2>3. QED
    BY <1>0, <1>t, <2>1, <2>2, DeletedFades, GoingKeepsGrace
<1>6. QED
  BY <1>1, <1>2, <1>3, <1>4, <1>5 DEF Login

\* A refresh that lost the race finds the session gone or ended, or rotated a
\* while ago, or it goes on to revoke it.
LEMMA LosesTo ==
    ASSUME SessionsInv, NEW r \in Requests, RefreshLoses(r)
    PROVE  /\ req[r].pc = "losing" /\ UNCHANGED <<user, session, cookie, clock, lost>>
           /\ \E pc \in {"clear", "keep", "revoking"} :
                /\ Goes(r, pc)
                /\ pc = "revoking" =>
                     LET s == session[req[r].token.session] IN
                     s.status = "revoked" \/ (s.status = "live" /\ req[r].now > s.updated + Grace)
<1>1. req[r].pc = "losing" /\ UNCHANGED <<user, session, cookie, clock, lost>>
  BY DEF RefreshLoses
<1>2. session[req[r].token.session] \in Row /\ req[r] \in Request /\ Grace \in Nat
  BY <1>1, GraceTypes DEF SessionsInv, RequestsKnowToken
<1> DEFINE s == session[req[r].token.session]
           pc == CASE s.status \in {"absent", "deleted"} -> "clear"
                   [] s.status = "live" /\ req[r].now <= s.updated + Grace -> "keep"
                   [] s.status = "live" /\ req[r].now > s.updated + Grace -> "revoking"
                   [] s.status = "revoked" -> "revoking"
<1>3. /\ s.status \in {"absent", "live", "revoked", "deleted"}
      /\ s.updated + Grace \in Nat /\ req[r].now \in Nat
  BY <1>2 DEF Row, Request
<1>4. /\ pc \in {"clear", "keep", "revoking"}
      /\ pc = "revoking" => s.status = "revoked" \/ (s.status = "live" /\ req[r].now > s.updated + Grace)
  <2>1. CASE s.status \in {"absent", "deleted"}
    BY <2>1
  <2>2. CASE s.status = "live" /\ req[r].now <= s.updated + Grace
    BY <1>3, <2>2
  <2>3. CASE s.status = "live" /\ req[r].now > s.updated + Grace
    BY <1>3, <2>3
  <2>4. CASE s.status = "revoked"
    BY <2>4
  <2> HIDE DEF pc
  <2>5. req[r].now <= s.updated + Grace \/ req[r].now > s.updated + Grace
    BY <1>3
  <2>6. QED
    BY <1>3, <2>1, <2>2, <2>3, <2>4, <2>5
<1>5. Goes(r, pc)
  BY DEF RefreshLoses
<1> HIDE DEF pc
<1>6. \E p \in {"clear", "keep", "revoking"} :
        /\ Goes(r, p)
        /\ p = "revoking" => s.status = "revoked" \/ (s.status = "live" /\ req[r].now > s.updated + Grace)
  BY <1>4, <1>5
<1>7. QED
  BY <1>1, <1>6

\* A step of a refresh.
LEMMA RefreshKeepsGrace ==
    ASSUME GraceInv, NEW r \in Requests, Refresh(r)
    PROVE  GraceInv'
<1>0. SessionsInv /\ (\A q \in Requests : GraceOf(q)) /\ SessionsInv'
  BY GraceIsOfEach, RefreshKeeps
<1>t. /\ TypeOK /\ session \in [Ids -> Row] /\ req \in [Requests -> Request] /\ req[r] \in Request
      /\ clock \in Nat /\ Delay \in Nat /\ lost \in Nat
  BY <1>0, GraceTypes
<1>p. {"refreshing", "checking", "clear", "expired", "orphan", "inactive", "rotating", "losing",
       "keep", "revoking", "set"} \subseteq Pcs
  BY DEF Pcs
<1>1. ASSUME NEW b \in Browsers, RefreshSends(r, b)
      PROVE  GraceInv'
  <2>1. /\ Begins(r, "refreshing", b, cookie[b]) /\ cookie[b] # NoToken /\ cookie[b] \in Tokens
        /\ UNCHANGED <<session, clock, lost>>
    BY <1>0, <1>1, GraceTypes DEF RefreshSends
  <2>2. QED
    BY <1>0, <1>t, <1>p, <2>1, SameFades, BeginningKeepsGrace
<1>2. CASE RefreshFinds(r)
  <2>1. /\ req[r].pc = "refreshing" /\ UNCHANGED <<session, clock, lost>>
        /\ \E pc \in {"clear", "expired", "checking"} :
             req' = [req EXCEPT ![r].now = clock, ![r].pc = pc]
    <3> DEFINE s == session[req[r].token.session]
               pc == CASE s.status # "live"  -> "clear"
                       [] s.status = "live" /\ clock > s.expires  -> "expired"
                       [] s.status = "live" /\ clock <= s.expires -> "checking"
    <3>1. s \in Row
      BY <1>0, <1>2, GraceTypes DEF RefreshFinds, SessionsInv, RequestsKnowToken
    <3>2. s.expires \in Nat
      BY <3>1 DEF Row
    <3>3. pc \in {"clear", "expired", "checking"}
      BY <1>t, <3>2
    <3>4. req' = [req EXCEPT ![r].now = clock, ![r].pc = pc]
      BY <1>2 DEF RefreshFinds
    <3>5. req[r].pc = "refreshing" /\ UNCHANGED <<session, clock, lost>>
      BY <1>2 DEF RefreshFinds
    <3> HIDE DEF pc
    <3>6. QED
      BY <3>3, <3>4, <3>5
  <2>2. PICK pc \in {"clear", "expired", "checking"} : req' = [req EXCEPT ![r].now = clock, ![r].pc = pc]
    BY <2>1
  <2>3. /\ req'[r].pc = pc /\ req'[r].token = req[r].token /\ req'[r].sent = req[r].sent
        /\ req'[r].now = clock /\ \A q \in Requests \ {r} : req'[q] = req[q]
    BY <1>t, <2>2 DEF Request
  <2>4. TimesOf(r)' /\ LastOf(r)'
    BY <1>0, <1>t, <2>1, <2>3 DEF GraceOf, TimesOf, LastOf, Request
  <2>5. LateOf(r)'
    BY <1>0, <2>1, <2>3 DEF GraceOf, LateOf, WithToken, Live
  <2>6. QED
    BY <1>0, <1>t, <2>1, <2>3, <2>4, <2>5, SameFades, OthersKeepGrace DEF GraceOf
<1>3. CASE RefreshChecks(r)
  <2>1. /\ req[r].pc = "checking" /\ UNCHANGED <<session, clock, lost>>
        /\ \E pc \in {"orphan", "inactive", "rotating"} : Goes(r, pc)
    BY <1>0, <1>3 DEF RefreshChecks, SessionsInv, TypeOK, UserStates
  <2>2. PICK pc \in {"orphan", "inactive", "rotating"} : Goes(r, pc)
    BY <2>1
  <2>3. QED
    BY <1>0, <1>t, <1>p, <2>1, <2>2, SameFades, GoingKeepsGrace
<1>4. CASE RefreshRefuses(r)
  <2>1. /\ req[r].pc \in {"expired", "orphan", "inactive"} /\ UNCHANGED <<clock, lost>>
        /\ \E S : session' = Deleted(S) \/ session' = Revoked(S)
        /\ Goes(r, "clear")
    BY <1>4 DEF RefreshRefuses, AnswerClear
  <2>2. QED
    BY <1>0, <1>t, <1>p, <2>1, DeletedFades, RevokedFades, GoingKeepsGrace
<1>5. CASE RefreshRotates(r)
  <2> DEFINE t == req[r].token  s == req[r].token.session
  <2>1. req[r].pc = "rotating" /\ UNCHANGED <<clock, lost>>
    BY <1>5 DEF RefreshRotates
  <2>2. r \in WithToken /\ s \in Ids /\ t \in Tokens /\ req[r].now \in Nat
    BY <1>0, <1>t, <2>1, GraceTypes DEF SessionsInv, RequestsKnowToken, Request
  <2>3. CASE Rotates(s, t.serial)
    <3>1. /\ session' = Rotated(s, req[r].now) /\ Live(s) /\ session[s].serial = t.serial
          /\ req' = [req EXCEPT ![r].pc = "set", ![r].token = Token(s, session[s].serial + 1)]
      BY <1>5, <2>3 DEF RefreshRotates, Rotates, AnswerSet
    <3>2. /\ \A i \in Ids \ {s} : session'[i] = session[i]
          /\ session'[s].updated = req[r].now /\ session'[s].serial = session[s].serial + 1
      BY <1>t, <2>2, <3>1, RotatedRow
    <3>3. /\ req'[r].pc = "set" /\ req'[r].token.session = s
          /\ req'[r].sent = req[r].sent /\ req'[r].now = req[r].now
          /\ \A q \in Requests \ {r} : req'[q] = req[q]
      BY <1>t, <3>1 DEF Token, Request
    <3>4. GraceOf(r)'
      BY <1>0, <2>1, <3>2, <3>3 DEF GraceOf, TimesOf, LastOf, LateOf
    <3>5. clock <= session'[s].updated + Delay
      BY <1>0, <1>t, <2>1, <3>2 DEF GraceOf, TimesOf, Request
    <3>6. ASSUME NEW q \in WithToken \ {r}, req[q].token.session = s
          PROVE  req[q].pc \notin {"cleaning", "set"}
      <4>1. SUFFICES ASSUME req[q].pc \in {"cleaning", "set"} PROVE FALSE
        OBVIOUS
      <4>2. q \in Bringing /\ req[q].pc # "binding" /\ q # r /\ Live(req[q].token.session)
        BY <3>1, <3>6, <4>1 DEF Bringing, WithToken
      <4>3. req[q].token.serial = session[s].serial /\ t.serial < req[q].token.serial
        BY <1>0, <2>2, <3>6, <4>2 DEF SessionsInv, NewestHeldOnce
      <4>4. QED
        BY <2>2, <3>1, <4>3 DEF Tokens
    <3>7. QED
      BY <1>0, <2>1, <2>2, <3>1, <3>2, <3>3, <3>4, <3>5, <3>6, IssuingKeepsGrace
  <2>4. CASE ~Rotates(s, t.serial)
    <3>1. session' = session /\ Goes(r, "losing")
      BY <1>5, <2>4 DEF RefreshRotates
    <3>2. Live(s) => t.serial < session[s].serial
      <4>1. Live(s) => t.serial <= session[s].serial
        BY <1>0, <2>1, <2>2 DEF SessionsInv, TokensIssued
      <4>2. session[s].serial \in Nat /\ t.serial \in Nat
        BY <1>t, <2>2 DEF Row, Tokens
      <4>3. QED
        BY <2>4, <4>1, <4>2 DEF Rotates
    <3>3. QED
      BY <1>0, <1>t, <1>p, <2>1, <3>1, <3>2, SameFades, GoingKeepsGrace
  <2>5. QED
    BY <2>3, <2>4
<1>6. CASE RefreshLoses(r)
  <2>1. PICK pc \in {"clear", "keep", "revoking"} : Goes(r, pc)
    BY <1>0, <1>6, LosesTo
  <2>2. req[r].pc = "losing" /\ UNCHANGED <<session, clock, lost>>
    BY <1>6 DEF RefreshLoses
  <2>3. QED
    BY <1>0, <1>t, <1>p, <2>1, <2>2, SameFades, GoingKeepsGrace
<1>7. CASE RefreshRevokes(r)
  <2>1. /\ req[r].pc = "revoking" /\ UNCHANGED <<clock, lost>>
        /\ \E S : session' = Revoked(S)
        /\ Goes(r, "clear")
    BY <1>7 DEF RefreshRevokes, AnswerClear
  <2>2. QED
    BY <1>0, <1>t, <1>p, <2>1, RevokedFades, GoingKeepsGrace
<1>8. QED
  BY <1>1, <1>2, <1>3, <1>4, <1>5, <1>6, <1>7 DEF Refresh

\* A step of a logout, of a change of password or status, or of a deletion.
LEMMA AccountKeepsGrace ==
    ASSUME GraceInv, NEW r \in Requests, Account(r)
    PROVE  GraceInv'
<1>0. SessionsInv /\ GraceOf(r) /\ SessionsInv'
  BY GraceIsOfEach, AccountKeeps
<1>t. TypeOK /\ cookie \in [Browsers -> Tokens] /\ NoToken \in Tokens
  BY <1>0, GraceTypes, IdleTypes
<1>p. {"saving", "others", "disabling", "deleting", "forgetting", "clear", "keep", "revoking"} \subseteq Pcs
  BY DEF Pcs
<1>1. ASSUME NEW b \in Browsers,
             LogoutFinds(r, b) \/ LogoutAll(r, b) \/ ChangePassword(r, b) \/ DeleteUser(r, b)
      PROVE  GraceInv'
  <2>1. /\ UNCHANGED <<clock, lost>> /\ cookie[b] \in Tokens
        /\ session' = session \/ session' = Revoked(Ids)
        /\ \E pc \in {"revoking", "clear", "saving", "deleting"} : Begins(r, pc, b, cookie[b])
    BY <1>t, <1>1 DEF LogoutFinds, LogoutAll, ChangePassword, DeleteUser
  <2>2. PICK pc \in {"revoking", "clear", "saving", "deleting"} : Begins(r, pc, b, cookie[b])
    BY <2>1
  <2>3. QED
    BY <1>0, <1>t, <1>p, <2>1, <2>2, SameFades, RevokedFades, BeginningKeepsGrace
<1>2. CASE UpdateUserStatus(r)
  <2>1. /\ UNCHANGED <<session, clock, lost>>
        /\ \E pc \in {"disabling", "keep"} : Begins(r, pc, NoBrowser, NoToken)
    BY <1>2 DEF UpdateUserStatus
  <2>2. PICK pc \in {"disabling", "keep"} : Begins(r, pc, NoBrowser, NoToken)
    BY <2>1
  <2>3. QED
    BY <1>0, <1>t, <1>p, <2>1, <2>2, SameFades, BeginningKeepsGrace
<1>3. ASSUME ChangePasswordSaves(r) \/ ChangePasswordRevokes(r) \/ DisablingRevokes(r)
             \/ DeletingUser(r) \/ DeletingSessions(r)
      PROVE  GraceInv'
  <2>1. /\ req[r].pc # "idle" /\ UNCHANGED <<clock, lost>>
        /\ \/ session' = session
           \/ \E S : session' = Deleted(S) \/ session' = Revoked(S)
        /\ \E pc \in {"others", "forgetting", "keep"} : Goes(r, pc)
    BY <1>3 DEF ChangePasswordSaves, ChangePasswordRevokes, DisablingRevokes, DeletingUser,
                DeletingSessions, AnswerKeep
  <2>2. PICK pc \in {"others", "forgetting", "keep"} : Goes(r, pc)
    BY <2>1
  <2>3. Fades
    BY <1>t, <2>1, SameFades, RevokedFades, DeletedFades
  <2>4. QED
    BY <1>0, <1>p, <2>1, <2>2, <2>3, GoingKeepsGrace
<1>4. QED
  BY <1>1, <1>2, <1>3 DEF Account

\* Time passes while no request is in flight for Delay.
LEMMA TickKeepsGrace ==
    ASSUME GraceInv, Tick
    PROVE  GraceInv'
<1>1. SessionsInv /\ (\A q \in Requests : GraceOf(q)) /\ clock \in Nat /\ Delay \in Nat
      /\ req \in [Requests -> Request] /\ UNCHANGED <<user, session, cookie, req, lost>> /\ clock' = clock + 1
  BY GraceIsOfEach, GraceTypes DEF Tick
<1>2. SessionsInv'
  BY <1>1, ClockKeeps
<1>3. ASSUME NEW q \in Requests
      PROVE  GraceOf(q)'
  <2>1. req'[q] = req[q] /\ req[q] \in Request /\ GraceOf(q)
    BY <1>1
  <2>2. TimesOf(q)'
    <3>1. req[q].sent \in Nat /\ req[q].now \in Nat
      BY <2>1 DEF Request
    <3>2. req[q].pc # "idle" => clock - req[q].sent < Delay
      BY DEF Tick
    <3>3. QED
      BY <1>1, <2>1, <3>1, <3>2 DEF GraceOf, TimesOf
  <2>3. LastOf(q)' /\ LateOf(q)'
    BY <1>1, <2>1 DEF GraceOf, LastOf, LateOf, WithToken, Live
  <2>4. QED
    BY <2>2, <2>3 DEF GraceOf
<1>4. QED
  BY <1>2, <1>3, GraceIsOfEach

LEMMA NextKeepsGrace ==
    ASSUME GraceInv, [Next]_vars
    PROVE  GraceInv'
<1>0. SessionsInv /\ SessionsInv' /\ clock \in Nat
  BY GraceIsOfEach, GraceTypes, NextKeeps
<1>1. ASSUME NEW r \in Requests, Login(r) \/ Refresh(r) \/ Account(r)
      PROVE  GraceInv'
  BY <1>1, LoginKeepsGrace, RefreshKeepsGrace, AccountKeepsGrace
<1>2. ASSUME NEW r \in Requests, Arrive(r) \/ Lose(r)
      PROVE  GraceInv'
  <2>1. /\ req' = [req EXCEPT ![r] = Idle] /\ session' = session /\ clock' = clock
        /\ lost' = lost \/ lost' = lost + 1
    BY <1>2 DEF Arrive, Lose
  <2>2. lost' = lost \/ lost' # 0
    BY <1>0, <2>1, GraceTypes
  <2>3. QED
    BY <1>0, <2>1, <2>2, EndingKeepsGrace
<1>3. CASE Tick
  BY <1>3, TickKeepsGrace
<1>4. CASE UNCHANGED vars
  <2>1. \A q \in Requests : GraceOf(q)'
    BY <1>4, GraceIsOfEach DEF vars, GraceOf, TimesOf, LastOf, LateOf, WithToken, Live
  <2>2. QED
    BY <1>0, <2>1, GraceIsOfEach
<1>5. QED
  BY <1>1, <1>2, <1>3, <1>4 DEF Next

LEMMA GraceAtFirst == Init => GraceInv
<1> SUFFICES ASSUME Init PROVE GraceInv
  OBVIOUS
<1>1. SessionsInv
  BY InitHolds
<1>2. \A r \in Requests : req[r].pc = "idle" /\ req[r].token = NoToken
  BY DEF Init, Idle
<1>3. QED
  BY <1>1, <1>2 DEF GraceInv, InFlight, AnswersAreLast, LateTabs, WithToken

\* Within half the grace period a refresh that lost the race is forgiven.
LEMMA LosersInGrace ==
    ASSUME GraceInv, NEW r \in Requests, Prompt, req[r].pc = "losing", Live(req[r].token.session)
    PROVE  req[r].now <= session[req[r].token.session].updated + Grace
<1>1. SessionsInv /\ GraceOf(r)
  BY GraceIsOfEach
<1>2. /\ r \in WithToken /\ session[req[r].token.session] \in Row /\ req[r] \in Request
      /\ clock \in Nat /\ Delay \in Nat /\ Grace \in Nat
  BY <1>1, GraceTypes DEF SessionsInv, RequestsKnowToken
<1>3. /\ req[r].sent <= session[req[r].token.session].updated + Delay
      /\ req[r].now <= clock /\ clock <= req[r].sent + Delay
  BY <1>1, <1>2 DEF GraceOf, LateOf, TimesOf, Prompt
<1>4. QED
  BY <1>2, <1>3 DEF Row, Request, Prompt

\* Only RefreshLoses takes a request from "losing" to "revoking".
LEMMA LosersLose ==
    ASSUME SessionsInv, [Next]_vars, NEW r \in Requests,
           req[r].pc = "losing", req'[r].pc = "revoking"
    PROVE  RefreshLoses(r)
<1>0. req \in [Requests -> Request] /\ r \in Requests
  BY GraceTypes
<1>1. ASSUME NEW q \in Requests, Login(q) \/ Account(q)
      PROVE  req'[r] = req[r]
  <2>1. q # r
    BY <1>1 DEF Login, LoginChecks, LoginCreates, LoginBinds, LoginBindFails, LoginCleans, Account,
                LogoutFinds, LogoutAll, ChangePassword, DeleteUser, ChangePasswordSaves,
                ChangePasswordRevokes, UpdateUserStatus, DisablingRevokes, DeletingUser,
                DeletingSessions, Starts
  <2>2. CASE Login(q)
    BY <1>0, <2>1, <2>2 DEF Login, LoginChecks, LoginCreates, LoginBinds, LoginBindFails, LoginCleans,
                            Begins, Goes, AnswerSet, AnswerKeep
  <2>3. CASE Account(q)
    BY <1>0, <2>1, <2>3 DEF Account, LogoutFinds, LogoutAll, ChangePassword, DeleteUser,
                ChangePasswordSaves, ChangePasswordRevokes, UpdateUserStatus, DisablingRevokes,
                DeletingUser, DeletingSessions, Begins, Goes, AnswerKeep
  <2>4. QED
    BY <1>1, <2>2, <2>3
<1>2. ASSUME NEW q \in Requests, Refresh(q), ~RefreshLoses(q)
      PROVE  req'[r] = req[r]
  <2>1. q # r
    BY <1>2 DEF Refresh, RefreshSends, RefreshFinds, RefreshChecks, RefreshRefuses, RefreshRotates,
                RefreshRevokes, Starts
  <2>2. QED
    BY <1>0, <1>2, <2>1 DEF Refresh, RefreshSends, RefreshFinds, RefreshChecks, RefreshRefuses,
                RefreshRotates, RefreshRevokes, Begins, Goes, AnswerSet, AnswerClear
<1>3. ASSUME NEW q \in Requests, RefreshLoses(q), q # r
      PROVE  req'[r] = req[r]
  BY <1>0, <1>3, LosesTo DEF Goes
<1>4. ASSUME NEW q \in Requests, Arrive(q) \/ Lose(q)
      PROVE  req'[r].pc # "revoking"
  <2>1. req' = [req EXCEPT ![q] = Idle] /\ Idle.pc = "idle"
    BY <1>4 DEF Arrive, Lose, Idle
  <2>2. QED
    BY <1>0, <2>1
<1>5. Tick \/ UNCHANGED vars => req'[r] = req[r]
  BY DEF Tick, vars
<1>6. QED
  BY <1>1, <1>2, <1>3, <1>4, <1>5 DEF Next

\* With logins and refreshes alone no session is revoked.
LEMMA TabsRevokeNothing ==
    ASSUME GraceInv, OnlyTabs, NobodyRevokes, [Next]_vars
    PROVE  NobodyRevokes'
<1>0. /\ SessionsInv /\ TypeOK /\ session \in [Ids -> Row] /\ req \in [Requests -> Request]
      /\ user \in UserStates /\ Prompt /\ MaxLost = 0 /\ lost = 0
  BY GraceIsOfEach, GraceTypes DEF OnlyTabs, NobodyRevokes, Prompt, TypeOK
<1> DEFINE Harmful == {"inactive", "revoking", "saving", "others", "disabling", "deleting", "forgetting"}
<1> DEFINE Moves(r) == /\ req'[r].pc \notin Harmful
                      /\ \A q \in Requests \ {r} : req'[q].pc = req[q].pc
<1>r. ASSUME NEW r \in Requests, Moves(r)
      PROVE  \A q \in Requests : req'[q].pc \notin Harmful
  BY <1>r DEF NobodyRevokes
<1>g. ASSUME NEW r \in Requests, NEW pc, pc \notin Harmful, Goes(r, pc)
      PROVE  Moves(r)
  BY <1>0, <1>g DEF Goes, Request
<1>t. ASSUME NEW r \in Requests, NEW pc, NEW t, pc \notin Harmful,
             req' = [req EXCEPT ![r].pc = pc, ![r].token = t]
      PROVE  Moves(r)
  BY <1>0, <1>t DEF Request
<1>n. ASSUME NEW r \in Requests, NEW pc, NEW t, NEW n, pc \notin Harmful,
             \/ req' = [req EXCEPT ![r].pc = pc, ![r].token = t, ![r].now = n]
             \/ req' = [req EXCEPT ![r].now = n, ![r].pc = pc]
      PROVE  Moves(r)
  BY <1>0, <1>n DEF Request
<1>b. ASSUME NEW r \in Requests, NEW pc, NEW b, NEW t, pc \notin Harmful,
             Begins(r, pc, b, t)
      PROVE  Moves(r)
  BY <1>0, <1>b DEF Begins, Idle
<1>s. ASSUME session' = session \/ \E S : session' = Deleted(S)
      PROVE  \A s \in Ids : session'[s].status # "revoked"
  BY <1>0, <1>s DEF Deleted, NobodyRevokes, Row
<1>1. ASSUME NEW r \in Requests, Login(r)
      PROVE  NobodyRevokes'
  <2>0. ~LoginBindFails(r)
    BY <1>0 DEF LoginBindFails
  <2>1. user' = user /\ lost' = lost
    BY <1>1, <2>0 DEF Login, LoginChecks, LoginCreates, LoginBinds, LoginCleans
  <2>2. \A q \in Requests : req'[q].pc \notin Harmful
    <3>n. \A pc \in {"creating", "binding", "cleaning", "set"} : pc \notin Harmful
      OBVIOUS
    <3> HIDE DEF Moves, Harmful
    <3>1. ASSUME NEW b \in Browsers, LoginChecks(r, b) PROVE Moves(r)
      BY <1>b, <3>1, <3>n DEF LoginChecks
    <3>2. ASSUME LoginCreates(r) PROVE Moves(r)
      <4>1. PICK s \in Ids : req' = [req EXCEPT ![r].pc = "binding", ![r].token = Token(s, 1),
                                                ![r].now = clock]
        BY <3>2 DEF LoginCreates
      <4>2. QED
        BY <1>n, <4>1, <3>n
    <3>3. ASSUME LoginBinds(r) PROVE Moves(r)
      BY <1>g, <3>3, <3>n DEF LoginBinds
    <3>4. ASSUME LoginCleans(r) PROVE Moves(r)
      BY <1>t, <3>4, <3>n DEF LoginCleans, AnswerSet
    <3>5. Moves(r)
      BY <1>1, <2>0, <3>1, <3>2, <3>3, <3>4 DEF Login
    <3>6. QED
      BY <1>r, <3>5
  <2>3. ASSUME NEW s \in Ids PROVE session'[s].status # "revoked"
    <3>1. CASE LoginChecks(r, NoBrowser) \/ (\E b \in Browsers : LoginChecks(r, b)) \/ LoginCleans(r)
      BY <1>s, <3>1 DEF LoginChecks, LoginCleans
    <3>2. CASE LoginCreates(r)
      BY <1>0, <3>2 DEF LoginCreates, NobodyRevokes
    <3>3. CASE LoginBinds(r)
      <4>1. req[r].token.session \in Ids /\ req[r].now \in Nat
        BY <1>0, <3>3, GraceTypes DEF LoginBinds, SessionsInv, RequestsKnowToken, Request
      <4>2. QED
        BY <1>0, <1>s, <3>3, <4>1, RotatedRow DEF LoginBinds, NobodyRevokes
    <3>4. QED
      BY <1>0, <1>1, <3>1, <3>2, <3>3 DEF Login, LoginBindFails
  <2>4. QED
    BY <2>1, <2>2, <2>3 DEF NobodyRevokes
<1>2. ASSUME NEW r \in Requests, Refresh(r)
      PROVE  NobodyRevokes'
  <2>1. user' = user /\ lost' = lost
    BY <1>2 DEF Refresh, RefreshSends, RefreshFinds, RefreshChecks, RefreshRefuses, RefreshRotates,
                RefreshLoses, RefreshRevokes
  <2>2. ~RefreshRevokes(r)
    BY DEF RefreshRevokes, NobodyRevokes
  <2>3. CASE \E b \in Browsers : RefreshSends(r, b)
    <3>1. PICK b \in Browsers : Begins(r, "refreshing", b, cookie[b]) /\ session' = session
      BY <2>3 DEF RefreshSends
    <3>2. \A q \in Requests : req'[q].pc \notin Harmful
      BY <1>r, <1>b, <3>1
    <3>3. QED
      BY <1>s, <2>1, <3>1, <3>2 DEF NobodyRevokes
  <2>4. CASE RefreshFinds(r)
    <3> DEFINE s == session[req[r].token.session]
               pc == CASE s.status # "live"  -> "clear"
                       [] s.status = "live" /\ clock > s.expires  -> "expired"
                       [] s.status = "live" /\ clock <= s.expires -> "checking"
    <3>1. s.expires \in Nat /\ clock \in Nat
      BY <1>0, <2>4, GraceTypes DEF RefreshFinds, SessionsInv, RequestsKnowToken, Row
    <3>2. pc \notin Harmful
      BY <3>1
    <3>3. req' = [req EXCEPT ![r].now = clock, ![r].pc = pc] /\ session' = session
      BY <2>4 DEF RefreshFinds
    <3> HIDE DEF pc
    <3>4. QED
      BY <1>r, <1>n, <1>s, <2>1, <3>2, <3>3 DEF NobodyRevokes
  <2>5. CASE RefreshChecks(r)
    <3>1. session' = session /\ \E pc \in {"orphan", "rotating"} : Goes(r, pc)
      BY <1>0, <2>5 DEF RefreshChecks, UserStates, NobodyRevokes
    <3>2. \A q \in Requests : req'[q].pc \notin Harmful
      BY <1>r, <1>g, <3>1
    <3>3. QED
      BY <1>s, <2>1, <3>1, <3>2 DEF NobodyRevokes
  <2>6. CASE RefreshRefuses(r)
    <3>1. req[r].pc # "inactive"
      BY DEF NobodyRevokes
    <3>2. Goes(r, "clear") /\ \E S : session' = Deleted(S)
      BY <2>6, <3>1 DEF RefreshRefuses, AnswerClear
    <3>3. \A q \in Requests : req'[q].pc \notin Harmful
      BY <1>r, <1>g, <3>2
    <3>4. QED
      BY <1>s, <2>1, <3>2, <3>3 DEF NobodyRevokes
  <2>7. CASE RefreshRotates(r)
    <3>1. req[r].token.session \in Ids /\ req[r].now \in Nat
      BY <1>0, <2>7, GraceTypes DEF RefreshRotates, SessionsInv, RequestsKnowToken, Request
    <3>2. \A q \in Requests : req'[q].pc \notin Harmful
      <4>1. Goes(r, "losing") \/ \E t : AnswerSet(r, t)
        BY <2>7 DEF RefreshRotates
      <4>2. ASSUME Goes(r, "losing") PROVE \A q \in Requests : req'[q].pc \notin Harmful
        <5>1. Moves(r)
          BY <1>g, <4>2
        <5>2. QED
          BY <1>r, <5>1
      <4>3. ASSUME NEW t, AnswerSet(r, t) PROVE \A q \in Requests : req'[q].pc \notin Harmful
        <5>0. "set" \notin Harmful
          OBVIOUS
        <5> HIDE DEF Moves, Harmful
        <5>1. Moves(r)
          BY <1>t, <4>3, <5>0 DEF AnswerSet
        <5>2. QED
          BY <1>r, <5>1
      <4>4. QED
        BY <4>1, <4>2, <4>3
    <3>3. \A s \in Ids : session'[s].status # "revoked"
      <4>1. session' = session \/ session' = Rotated(req[r].token.session, req[r].now)
        BY <2>7 DEF RefreshRotates
      <4>2. CASE session' = Rotated(req[r].token.session, req[r].now)
        BY <1>0, <3>1, <4>2, RotatedRow DEF NobodyRevokes
      <4>3. QED
        BY <1>s, <4>1, <4>2
    <3>4. QED
      BY <2>1, <3>2, <3>3 DEF NobodyRevokes
  <2>8. CASE RefreshLoses(r)
    <3>1. req[r].pc = "losing" /\ session' = session
      BY <2>8 DEF RefreshLoses
    <3>2. req[r].token.session \in Ids /\ session[req[r].token.session] \in Row /\ req[r] \in Request
          /\ Grace \in Nat
      BY <1>0, <3>1, GraceTypes DEF SessionsInv, RequestsKnowToken
    <3>3. session[req[r].token.session].status # "revoked"
      BY <3>2 DEF NobodyRevokes
    <3>4. Live(req[r].token.session) =>
            ~(req[r].now > session[req[r].token.session].updated + Grace)
      BY <1>0, <3>1, <3>2, LosersInGrace DEF Row, Request
    <3>5. \E pc \in {"clear", "keep"} : Goes(r, pc)
      BY <1>0, <2>8, <3>3, <3>4, LosesTo DEF Live
    <3>6. \A q \in Requests : req'[q].pc \notin Harmful
      BY <1>r, <1>g, <3>5
    <3>7. QED
      BY <1>s, <2>1, <3>1, <3>6 DEF NobodyRevokes
  <2>9. QED
    BY <1>2, <2>2, <2>3, <2>4, <2>5, <2>6, <2>7, <2>8 DEF Refresh
<1>3. ASSUME NEW r \in Requests, Account(r)
      PROVE  FALSE
  BY <1>3 DEF Account, LogoutFinds, LogoutAll, ChangePassword, DeleteUser, ChangePasswordSaves,
              ChangePasswordRevokes, UpdateUserStatus, DisablingRevokes, DeletingUser,
              DeletingSessions, Starts, OnlyTabs, NobodyRevokes
<1>4. ASSUME NEW r \in Requests, Arrive(r)
      PROVE  NobodyRevokes'
  <2>1. /\ req' = [req EXCEPT ![r] = Idle] /\ Idle.pc = "idle"
        /\ UNCHANGED <<user, session, lost>>
    BY <1>4 DEF Arrive, Idle
  <2>2. \A q \in Requests : req'[q].pc \notin Harmful
    BY <1>0, <2>1 DEF NobodyRevokes
  <2>3. QED
    BY <2>1, <2>2 DEF NobodyRevokes
<1>5. ASSUME NEW r \in Requests, Lose(r)
      PROVE  FALSE
  BY <1>0, <1>5 DEF Lose
<1>6. CASE Tick \/ UNCHANGED vars
  BY <1>6 DEF Tick, vars, NobodyRevokes
<1>7. QED
  BY <1>1, <1>2, <1>3, <1>4, <1>5, <1>6 DEF Next

-----------------------------------------------------------------------------
(* The theorems.                                                           *)

\* Nobody is ahead of a live session's row, a session is one browser's, and an
\* answer that brings a token brings the current one, whoever else holds an
\* older one (createLoginSession, RefreshSession, RotateIfMatch).
THEOREM TokensFollowRows == Spec => []SessionsInv
<1>1. Init => SessionsInv
  BY InitHolds
<1>2. SessionsInv /\ [Next]_vars => SessionsInv'
  BY NextKeeps
<1>3. QED
  BY <1>1, <1>2, PTL DEF Spec

\* Once every request is answered and none was lost, a browser has the current
\* token of its session, or one of a session that ended.
THEOREM BrowsersKeepUp == Spec => []SessionsSound
<1>1. SessionsInv => SessionsSound
  BY DEF SessionsInv, SessionsSound, AnswerUnderWay, CookieCurrent
<1>2. QED
  BY <1>1, TokensFollowRows, PTL

\* A session that ended neither comes back nor issues another token, however
\* long ago a request read it live (RotateIfMatch's WHERE clause).
THEOREM EndedNeverReturn == Spec => EndedStaysEnded
<1>1. ASSUME SessionsInv, [Next]_vars, NEW s \in Ids, session[s].status \in {"revoked", "deleted"}
      PROVE  /\ session'[s].status \in {"revoked", "deleted"}
             /\ session'[s].serial = session[s].serial
  BY <1>1, TableSteps DEF Fades, Issues, Live
<1>2. SessionsInv /\ [Next]_vars =>
        [\A s \in Ids : session[s].status \in {"revoked", "deleted"} =>
           /\ session'[s].status \in {"revoked", "deleted"}
           /\ session'[s].serial = session[s].serial]_vars
  BY <1>1
<1>3. QED
  BY <1>2, TokensFollowRows, PTL DEF Spec, EndedStaysEnded

\* Of all who hold a token, one exchanges it: the others find the row moved on
\* (RefreshSession, RotateIfMatch).
THEOREM ExchangedOnce == Spec => TokenExchangedOnce
<1>1. ASSUME SessionsInv, [Next]_vars, NEW s \in Ids, session'[s].serial # session[s].serial
      PROVE  \E r \in Requests :
               \/ req[r].pc = "rotating" /\ req[r].token = Token(s, session[s].serial)
               \/ req[r].pc = "binding" /\ session[s].serial = 0
  BY <1>1, TableSteps DEF Fades, Issues
<1>2. SessionsInv /\ [Next]_vars =>
        [\A s \in Ids : session'[s].serial # session[s].serial =>
           \E r \in Requests :
              \/ req[r].pc = "rotating" /\ req[r].token = Token(s, session[s].serial)
              \/ req[r].pc = "binding" /\ session[s].serial = 0]_vars
  BY <1>1
<1>3. QED
  BY <1>2, TokensFollowRows, PTL DEF Spec, TokenExchangedOnce

\* A refresh that lost the race takes its token for replayed only when a request
\* may last longer than half the grace window, or an answer was lost
\* (RefreshSession, concurrentRefreshGrace).
THEOREM RacesAreForgiven == Spec => RaceForgiven
<1>1. ASSUME GraceInv, [Next]_vars, NEW r \in Requests,
             Prompt, req[r].pc = "losing", req'[r].pc = "revoking", Live(req[r].token.session)
      PROVE  FALSE
  <2>1. SessionsInv
    BY <1>1, GraceIsOfEach
  <2>2. RefreshLoses(r)
    BY <1>1, <2>1, LosersLose
  <2>3. req[r].now <= session[req[r].token.session].updated + Grace
    BY <1>1, LosersInGrace
  <2>4. /\ session[req[r].token.session] \in Row /\ req[r] \in Request /\ Grace \in Nat
        /\ req \in [Requests -> Request]
    BY <1>1, <2>1, GraceTypes DEF SessionsInv, RequestsKnowToken
  <2>5. PICK pc \in {"clear", "keep", "revoking"} :
          /\ Goes(r, pc)
          /\ pc = "revoking" => \/ session[req[r].token.session].status = "revoked"
                                \/ req[r].now > session[req[r].token.session].updated + Grace
    BY <2>1, <2>2, LosesTo
  <2>6. pc = "revoking"
    BY <1>1, <2>4, <2>5 DEF Goes, Request
  <2>7. QED
    BY <1>1, <2>3, <2>4, <2>5, <2>6 DEF Live, Row, Request
<1>2. GraceInv /\ [Next]_vars =>
        [\A r \in Requests : Prompt /\ req[r].pc = "losing" /\ req'[r].pc = "revoking" =>
           ~Live(req[r].token.session)]_vars
  BY <1>1
<1>3. GraceInv /\ [Next]_vars => GraceInv'
  BY NextKeepsGrace
<1>4. QED
  BY <1>2, <1>3, GraceAtFirst, PTL DEF Spec, RaceForgiven

\* However many tabs refresh with shared cookies, no session is revoked that
\* nobody asked to end, if no answer is lost and every request lasts at most
\* half the grace window (RefreshSession, concurrentRefreshGrace).
THEOREM TabsKeepTheirSession == Spec => []TabsKeepSession
<1>1. Init => TabsKeepSession
  <2>1. Init /\ OnlyTabs => NobodyRevokes
    BY DEF Init, NobodyRevokes, Absent, Idle, NewUser
  <2>2. QED
    BY <2>1, GraceAtFirst DEF TabsKeepSession
<1>2. TabsKeepSession /\ [Next]_vars => TabsKeepSession'
  <2>1. OnlyTabs' <=> OnlyTabs
    BY DEF OnlyTabs
  <2>2. QED
    BY <2>1, NextKeepsGrace, TabsRevokeNothing DEF TabsKeepSession
<1>3. QED
  BY <1>1, <1>2, PTL DEF Spec

-----------------------------------------------------------------------------
(* The web client: one tab is not sent to the login page by its own        *)
(* refreshes.                                                              *)

\* A tab that leaves keeps the types of what it holds.
LEMMA LeaveTypes ==
    ASSUME ClientTypeOK, NEW t \in Tabs, Leave(t)
    PROVE  /\ token' \in [Tabs -> Nat] /\ gone' \in [Tabs -> BOOLEAN]
           /\ promise' \in [Tabs -> Fetches \cup {NoFetch}]
           /\ refresh' \in [Fetches -> Flights] /\ restore' \in [Navigations -> Flights]
           /\ fetch' \in [Fetches -> FetchStates]
<1>1. NoRefresh \in Flights
  BY DEF NoRefresh, Flights
<1>2. refresh' \in [Fetches -> Flights] /\ restore' \in [Navigations -> Flights]
  BY <1>1 DEF Leave, ClientTypeOK
<1>3. QED
  BY <1>2 DEF Leave, ClientTypeOK, FetchStates

LEMMA ClientTypes ==
    ASSUME ClientTypeOK, [ClientNext]_refreshVars
    PROVE  ClientTypeOK'
<1>0. /\ \A r \in Fetches : TabOf[r] \in Tabs
      /\ \A n \in Navigations : TabOf[n] \in Tabs
  BY RefreshConstants
<1>1. NoRefresh \in Flights
  BY DEF NoRefresh, Flights
<1>2. ASSUME NEW r \in Fetches, Send(r) \/ Serve(r) \/ Accepted(r) \/ Miss(r)
      PROVE  ClientTypeOK'
  <2>1. CASE Send(r)
    BY <1>0, <2>1 DEF Send, ClientTypeOK, FetchStates, server, client
  <2>2. CASE Serve(r)
    BY <1>0, <2>2 DEF Serve, ClientTypeOK, FetchStates, server, client
  <2>3. CASE Accepted(r)
    BY <1>0, <2>3 DEF Accepted, ClientTypeOK, FetchStates, server, client
  <2>4. CASE Miss(r)
    BY <1>0, <2>4 DEF Miss, ClientTypeOK, FetchStates, server, client
  <2>5. QED
    BY <1>2, <2>1, <2>2, <2>3, <2>4
<1>3. ASSUME NEW r \in Fetches, Denied(r)
      PROVE  ClientTypeOK'
  <2>1. CASE fetch[r].replay
    BY <1>0, <1>3, <2>1, LeaveTypes DEF Denied, ClientTypeOK, server
  <2>2. CASE ~fetch[r].replay /\ promise[TabOf[r]] # NoFetch
    <3>1. fetch' \in [Fetches -> FetchStates]
      BY <1>3, <2>2 DEF Denied, ClientTypeOK, FetchStates
    <3>2. UNCHANGED <<serial, live, expired, jar, token, gone, promise, refresh, restore, missed>>
      BY <1>3, <2>2 DEF Denied, server
    <3>3. QED
      BY <3>1, <3>2 DEF ClientTypeOK
  <2>3. CASE ~fetch[r].replay /\ promise[TabOf[r]] = NoFetch
    <3>1. [pc |-> "sent", attempt |-> 0, serial |-> jar] \in Flights
      BY DEF ClientTypeOK, Flights
    <3>2. refresh' \in [Fetches -> Flights]
      BY <1>0, <1>3, <2>3, <3>1 DEF Denied, ClientTypeOK
    <3>3. promise' \in [Tabs -> Fetches \cup {NoFetch}]
      BY <1>0, <1>3, <2>3 DEF Denied, ClientTypeOK
    <3>4. fetch' \in [Fetches -> FetchStates]
      BY <1>0, <1>3, <2>3 DEF Denied, ClientTypeOK, FetchStates
    <3>5. QED
      BY <1>0, <1>3, <2>3, <3>2, <3>3, <3>4 DEF Denied, ClientTypeOK, server
  <2>4. QED
    BY <2>1, <2>2, <2>3
<1>4. ASSUME NEW r \in Fetches, RefreshServed(r)
      PROVE  ClientTypeOK'
  <2>1. CASE live /\ refresh[r].serial = serial
    <3>1. serial' = serial + 1
      BY <1>4, <2>1 DEF RefreshServed
    <3>2. refresh' = [refresh EXCEPT ![r].pc = "rotated", ![r].serial = serial + 1]
      BY <1>4, <2>1 DEF RefreshServed
    <3>3. refresh \in [Fetches -> Flights] /\ serial + 1 \in Nat
      BY DEF ClientTypeOK
    <3>4. refresh' = [refresh EXCEPT ![r] = [refresh[r] EXCEPT !.pc = "rotated", !.serial = serial + 1]]
      BY <3>2, <3>3
    <3>5. refresh[r] \in Flights
      BY <3>3
    <3>6. [refresh[r] EXCEPT !.pc = "rotated", !.serial = serial + 1] \in Flights
      BY <3>3, <3>5 DEF Flights
    <3>7. refresh' \in [Fetches -> Flights]
      BY <3>3, <3>4, <3>6
    <3>8. QED
      BY <1>4, <3>1, <3>7 DEF RefreshServed, ClientTypeOK, client
  <2>2. CASE ~(live /\ refresh[r].serial = serial)
    <3>1. /\ UNCHANGED serial
          /\ \/ refresh' = [refresh EXCEPT ![r].pc = "concurrent"]
             \/ refresh' = [refresh EXCEPT ![r].pc = "refused"]
      BY <1>4, <2>2 DEF RefreshServed
    <3>2. refresh \in [Fetches -> Flights] /\ refresh[r] \in Flights
      BY DEF ClientTypeOK
    <3>3. /\ [refresh[r] EXCEPT !.pc = "concurrent"] \in Flights
          /\ [refresh[r] EXCEPT !.pc = "refused"] \in Flights
      BY <3>2 DEF Flights
    <3>4. refresh' \in [Fetches -> Flights]
      BY <3>1, <3>2, <3>3
    <3>5. QED
      BY <1>4, <3>1, <3>4 DEF RefreshServed, ClientTypeOK, client
  <2>3. QED
    BY <2>1, <2>2
<1>5. ASSUME NEW r \in Fetches, Refreshed(r)
      PROVE  ClientTypeOK'
  <2>1. refresh' \in [Fetches -> Flights] /\ jar' \in Nat /\ token' \in [Tabs -> Nat]
    BY <1>0, <1>1, <1>5 DEF Refreshed, ClientTypeOK, Flights
  <2>2. QED
    BY <1>0, <1>5, <2>1 DEF Refreshed, ClientTypeOK, FetchStates, server
<1>6. ASSUME NEW r \in Fetches, RefreshRetries(r)
      PROVE  ClientTypeOK'
  <2>1. refresh' \in [Fetches -> Flights]
    BY <1>6 DEF RefreshRetries, ClientTypeOK, Flights
  <2>2. QED
    BY <1>6, <2>1 DEF RefreshRetries, ClientTypeOK, server, client
<1>7. ASSUME NEW r \in Fetches, RefreshFails(r) \/ RefreshLost(r)
      PROVE  ClientTypeOK'
  <2>1. Leave(TabOf[r]) /\ UNCHANGED <<serial, live, expired, jar>> /\ missed' \in Nat
    BY <1>7 DEF RefreshFails, RefreshLost, server, ClientTypeOK
  <2>2. QED
    BY <1>0, <2>1, LeaveTypes DEF ClientTypeOK
<1>8. ASSUME NEW n \in Navigations, Guard(n) \/ RestoreServed(n)
      PROVE  ClientTypeOK'
  <2>1. CASE Guard(n)
    <3>1. restore' \in [Navigations -> Flights]
      BY <2>1 DEF Guard, ClientTypeOK, Flights
    <3>2. QED
      BY <2>1, <3>1 DEF Guard, ClientTypeOK, server, client
  <2>2. CASE RestoreServed(n)
    <3>1. serial' \in Nat
      BY <2>2 DEF RestoreServed, ClientTypeOK
    <3>2. restore' \in [Navigations -> Flights]
      <4>1. restore \in [Navigations -> Flights] /\ restore[n] \in Flights /\ serial + 1 \in Nat
        BY DEF ClientTypeOK
      <4>2. /\ [restore[n] EXCEPT !.pc = "rotated", !.serial = serial + 1] \in Flights
            /\ [restore[n] EXCEPT !.pc = "refused"] \in Flights
        BY <4>1 DEF Flights
      <4>3. \/ restore' = [restore EXCEPT ![n] = [restore[n] EXCEPT !.pc = "rotated", !.serial = serial + 1]]
            \/ restore' = [restore EXCEPT ![n] = [restore[n] EXCEPT !.pc = "refused"]]
        <5>1. \/ restore' = [restore EXCEPT ![n].pc = "rotated", ![n].serial = serial + 1]
              \/ restore' = [restore EXCEPT ![n].pc = "refused"]
          BY <2>2 DEF RestoreServed
        <5>2. CASE restore' = [restore EXCEPT ![n].pc = "rotated", ![n].serial = serial + 1]
          BY <4>1, <5>2
        <5>3. CASE restore' = [restore EXCEPT ![n].pc = "refused"]
          BY <4>1, <5>3
        <5>4. QED
          BY <5>1, <5>2, <5>3
      <4>4. QED
        BY <4>1, <4>2, <4>3
    <3>3. QED
      BY <2>2, <3>1, <3>2 DEF RestoreServed, ClientTypeOK, client
  <2>3. QED
    BY <1>8, <2>1, <2>2
<1>9. ASSUME NEW n \in Navigations, Restored(n)
      PROVE  ClientTypeOK'
  <2>1. restore' \in [Navigations -> Flights] /\ jar' \in Nat /\ token' \in [Tabs -> Nat]
    BY <1>0, <1>1, <1>9 DEF Restored, ClientTypeOK, Flights
  <2>2. QED
    BY <1>9, <2>1 DEF Restored, ClientTypeOK, server
<1>10. ASSUME NEW n \in Navigations, RestoreFails(n)
       PROVE  ClientTypeOK'
  <2>1. Leave(TabOf[n]) /\ UNCHANGED <<serial, live, expired, jar>> /\ missed' \in Nat
    BY <1>10 DEF RestoreFails, server, ClientTypeOK
  <2>2. QED
    BY <1>0, <2>1, LeaveTypes DEF ClientTypeOK
<1>11. ASSUME NEW t \in Tabs, Expire(t)
       PROVE  ClientTypeOK'
  BY <1>11 DEF Expire, ClientTypeOK, client
<1>12. CASE Revoke
  BY <1>12 DEF Revoke, ClientTypeOK, client
<1>13. CASE UNCHANGED refreshVars
  BY <1>13 DEF refreshVars, ClientTypeOK
<1>14. QED
  BY <1>2, <1>3, <1>4, <1>5, <1>6, <1>7, <1>8, <1>9, <1>10, <1>11, <1>12, <1>13 DEF ClientNext, Progress

-----------------------------------------------------------------------------
ClientKept == StaysLoggedIn /\ RefreshesAreSound /\ OneRefreshEach /\ ReplaysAreFresh
Calm == live /\ missed = 0

\* A tab leaves because of a refresh that failed, of a replay that was denied or
\* of an answer that was lost: never in a calm session.
LEMMA NobodyLeaves ==
    ASSUME ClientTypeOK, Calm, ClientKept, Calm'
    PROVE  /\ \A r \in Fetches : ~RefreshFails(r) /\ ~RefreshLost(r) /\ ~RefreshRetries(r) /\ ~Miss(r)
           /\ \A r \in Fetches : Denied(r) => ~fetch[r].replay
           /\ \A n \in Navigations : ~RestoreFails(n)
<1>1. \A r \in Fetches : ~RefreshFails(r) /\ ~RefreshLost(r) /\ ~RefreshRetries(r) /\ ~Miss(r)
  BY DEF Calm, ClientKept, RefreshesAreSound, FlightIsSound, RefreshFails, RefreshLost, RefreshRetries, Miss
<1>2. \A r \in Fetches : Denied(r) => ~fetch[r].replay
  BY DEF ClientKept, ReplaysAreFresh, Denied
<1>3. \A n \in Navigations : ~RestoreFails(n)
  BY DEF Calm, ClientKept, RefreshesAreSound, FlightIsSound, RestoreFails
<1>4. QED
  BY <1>1, <1>2, <1>3

\* Requests are sent, answered and accepted.
LEMMA RequestsKeep ==
    ASSUME ClientTypeOK, Calm, ClientKept, NEW r \in Fetches, Send(r) \/ Serve(r) \/ Accepted(r)
    PROVE  ClientKept'
<1>0. TabOf[r] \in Tabs
  BY RefreshConstants
<1>1. UNCHANGED <<serial, live, jar, token, expired, gone, promise, refresh, restore, missed>>
  BY DEF Send, Serve, Accepted, server, client
<1>2. StaysLoggedIn' /\ RefreshesAreSound'
  BY <1>1 DEF ClientKept, StaysLoggedIn, RefreshesAreSound, FlightIsSound
<1>3. fetch' = [fetch EXCEPT ![r] = fetch'[r]]
  BY DEF Send, Serve, Accepted, ClientTypeOK
<1>4. fetch[r].pc # "idle" \/ token[TabOf[r]] # 0
  BY DEF Send, Serve, Accepted
<1>5. \A n \in Navigations : restore[n].pc = "none"
  BY <1>0, <1>4 DEF ClientKept, OneRefreshEach
<1>6. OneRefreshEach'
  BY <1>1, <1>5 DEF ClientKept, OneRefreshEach
<1>7. fetch'[r].replay => fetch'[r].pc \notin {"denied", "sent"}
  <2>1. CASE Send(r)
    BY <2>1 DEF Send, ClientTypeOK
  <2>2. CASE Serve(r)
    BY <2>2 DEF Serve, ClientTypeOK, Calm, ClientKept, ReplaysAreFresh
  <2>3. CASE Accepted(r)
    BY <2>3 DEF Accepted, ClientTypeOK
  <2>4. QED
    BY <2>1, <2>2, <2>3
<1>8. ReplaysAreFresh'
  <2>1. \A q \in Fetches : q # r => fetch'[q] = fetch[q]
    BY <1>3 DEF ClientTypeOK
  <2>2. QED
    BY <1>1, <1>7, <2>1 DEF ClientKept, ReplaysAreFresh
<1>9. QED
  BY <1>2, <1>6, <1>8 DEF ClientKept

\* A denied request waits for the refresh of its tab, which it may have to begin.
LEMMA DeniedKeeps ==
    ASSUME OneTabOpens, ClientTypeOK, Calm, ClientKept, NEW r \in Fetches, Denied(r), ~fetch[r].replay
    PROVE  ClientKept'
<1>0. TabOf[r] \in Tabs /\ \A q \in Fetches : TabOf[q] = TabOf[r]
  BY RefreshConstants DEF OneTabOpens
<1>1. UNCHANGED <<serial, live, jar, token, expired, gone, restore, missed>>
  BY DEF Denied, server
<1>2. fetch' = [fetch EXCEPT ![r].pc = "waiting"]
  BY DEF Denied
<1>3. \A n \in Navigations : restore[n].pc = "none"
  BY DEF Denied, ClientKept, OneRefreshEach
<1>4. ReplaysAreFresh'
  BY <1>1, <1>2 DEF ClientKept, ReplaysAreFresh, ClientTypeOK
<1>5. CASE promise[TabOf[r]] # NoFetch
  <2>1. UNCHANGED <<promise, refresh>>
    BY <1>5 DEF Denied
  <2>2. StaysLoggedIn' /\ RefreshesAreSound' /\ OneRefreshEach'
    BY <1>1, <1>3, <2>1 DEF ClientKept, StaysLoggedIn, RefreshesAreSound, FlightIsSound, OneRefreshEach
  <2>3. QED
    BY <1>4, <2>2 DEF ClientKept
<1>6. CASE promise[TabOf[r]] = NoFetch
  <2>1. \A q \in Fetches : refresh[q].pc = "none"
    BY <1>0, <1>6, RefreshConstants DEF ClientKept, OneRefreshEach
  <2>2. jar = serial
    BY <1>3, <2>1 DEF ClientKept, RefreshesAreSound
  <2>3. /\ promise' = [promise EXCEPT ![TabOf[r]] = r]
        /\ refresh' = [refresh EXCEPT ![r] = [pc |-> "sent", attempt |-> 0, serial |-> jar]]
    BY <1>6 DEF Denied
  <2>4. promise'[TabOf[r]] = r /\ refresh'[r] = [pc |-> "sent", attempt |-> 0, serial |-> serial]
    BY <1>0, <2>2, <2>3 DEF ClientTypeOK
  <2>5. \A q \in Fetches : q # r => refresh'[q] = refresh[q]
    BY <2>3 DEF ClientTypeOK
  <2>6. StaysLoggedIn' /\ RefreshesAreSound'
    BY <1>1, <2>2, <2>4, <2>5 DEF ClientKept, StaysLoggedIn, RefreshesAreSound, FlightIsSound
  <2>7. OneRefreshEach'
    BY <1>0, <1>1, <1>3, <2>1, <2>4, <2>5 DEF OneRefreshEach
  <2>8. QED
    BY <1>4, <2>6, <2>7 DEF ClientKept
<1>7. QED
  BY <1>5, <1>6

\* The server rotates the session for the one refresh of the tab.
LEMMA ServedKeeps ==
    ASSUME OneTabOpens, ClientTypeOK, Calm, ClientKept, NEW r \in Fetches, RefreshServed(r)
    PROVE  ClientKept'
<1>0. TabOf[r] \in Tabs /\ \A q \in Fetches : TabOf[q] = TabOf[r]
  BY RefreshConstants DEF OneTabOpens
<1>1. UNCHANGED <<live, jar, token, expired, gone, promise, fetch, restore, missed>>
  BY DEF RefreshServed, client
<1>2. refresh[r].pc = "sent" /\ refresh[r].serial = serial
  BY DEF RefreshServed, ClientKept, RefreshesAreSound, FlightIsSound
<1>3. /\ serial' = serial + 1
      /\ refresh' = [refresh EXCEPT ![r].pc = "rotated", ![r].serial = serial + 1]
  BY <1>2 DEF RefreshServed, Calm
<1>4. refresh'[r].pc = "rotated" /\ refresh'[r].serial = serial'
  BY <1>3 DEF ClientTypeOK, Flights
<1>5. \A q \in Fetches : q # r => refresh'[q] = refresh[q] /\ refresh[q].pc = "none"
  BY <1>0, <1>2, <1>3 DEF ClientTypeOK, ClientKept, OneRefreshEach
<1>6. \A n \in Navigations : restore[n].pc = "none"
  BY <1>2 DEF ClientKept, OneRefreshEach
<1>7. StaysLoggedIn' /\ RefreshesAreSound'
  BY <1>1, <1>4, <1>5, <1>6 DEF ClientKept, StaysLoggedIn, RefreshesAreSound, FlightIsSound
<1>8. OneRefreshEach'
  BY <1>1, <1>2, <1>5, <1>6 DEF ClientKept, OneRefreshEach
<1>9. ReplaysAreFresh'
  BY <1>1 DEF ClientKept, ReplaysAreFresh
<1>10. QED
  BY <1>7, <1>8, <1>9 DEF ClientKept

\* The answer brings a token that has not expired to all who wait.
LEMMA RefreshedKeeps ==
    ASSUME OneTabOpens, ClientTypeOK, Calm, ClientKept, NEW r \in Fetches, Refreshed(r)
    PROVE  ClientKept'
<1>0. TabOf[r] \in Tabs /\ \A q \in Fetches : TabOf[q] = TabOf[r]
  BY RefreshConstants DEF OneTabOpens
<1>1. UNCHANGED <<serial, live, expired, gone, restore, missed>>
  BY DEF Refreshed, server
<1>2. /\ refresh[r].pc = "rotated" /\ refresh[r].serial = serial
      /\ jar' = refresh[r].serial
      /\ token' = [token EXCEPT ![TabOf[r]] = @ + 1]
      /\ refresh' = [refresh EXCEPT ![r] = NoRefresh]
  BY DEF Refreshed, ClientKept, RefreshesAreSound, FlightIsSound
<1>3. refresh'[r].pc = "none"
  BY <1>2 DEF ClientTypeOK, NoRefresh
<1>4. \A q \in Fetches : q # r => refresh'[q] = refresh[q] /\ refresh[q].pc = "none"
  BY <1>0, <1>2 DEF ClientTypeOK, ClientKept, OneRefreshEach
<1>5. \A n \in Navigations : restore[n].pc = "none"
  BY <1>2 DEF ClientKept, OneRefreshEach
<1>6. StaysLoggedIn' /\ RefreshesAreSound'
  BY <1>1, <1>2, <1>3, <1>4, <1>5 DEF ClientKept, StaysLoggedIn, RefreshesAreSound, FlightIsSound
<1>7. OneRefreshEach'
  BY <1>1, <1>3, <1>4, <1>5 DEF OneRefreshEach
<1>8. /\ token[TabOf[r]] \in Nat /\ expired[TabOf[r]] \in Nat
      /\ expired[TabOf[r]] <= token[TabOf[r]]
      /\ token'[TabOf[r]] = token[TabOf[r]] + 1
      /\ \A t \in Tabs : t = TabOf[r]
  BY <1>0, <1>2 DEF ClientTypeOK, ClientKept, ReplaysAreFresh, OneTabOpens
<1>9. \A t \in Tabs : expired'[t] <= token'[t]
  BY <1>1, <1>8
<1>10. ASSUME NEW q \in Fetches, fetch'[q].replay
       PROVE  fetch'[q].pc # "denied" /\ (fetch'[q].pc = "sent" => fetch'[q].token > expired'[TabOf[q]])
  <2>1. fetch'[q] = IF q \in Waiting(TabOf[r])
                    THEN [pc |-> "sent", token |-> token[TabOf[r]] + 1, replay |-> TRUE] ELSE fetch[q]
    BY DEF Refreshed
  <2>2. CASE q \in Waiting(TabOf[r])
    BY <1>0, <1>1, <1>8, <2>1, <2>2
  <2>3. CASE q \notin Waiting(TabOf[r])
    BY <1>1, <1>10, <2>1, <2>3 DEF ClientKept, ReplaysAreFresh
  <2>4. QED
    BY <2>2, <2>3
<1>11. ReplaysAreFresh'
  BY <1>9, <1>10 DEF ReplaysAreFresh
<1>12. QED
  BY <1>6, <1>7, <1>11 DEF ClientKept

\* The guard restores the page before anything is sent.
LEMMA RestoreKeeps ==
    ASSUME OneTabOpens, ClientTypeOK, Calm, ClientKept,
           NEW n \in Navigations, Guard(n) \/ RestoreServed(n) \/ Restored(n)
    PROVE  ClientKept'
<1>0. TabOf[n] \in Tabs /\ (\A t \in Tabs : t = TabOf[n]) /\ (\A m \in Navigations : m = n)
  BY RefreshConstants DEF OneTabOpens
<1>1. UNCHANGED <<live, expired, gone, promise, refresh, fetch, missed>>
  BY DEF Guard, RestoreServed, Restored, server, client
<1>2. restore[n].pc # "none"
  BY DEF Guard, RestoreServed, Restored
<1>3. /\ \A t \in Tabs : token[t] = 0
      /\ \A r \in Fetches : refresh[r].pc = "none" /\ fetch[r].pc = "idle"
  BY <1>2 DEF ClientKept, OneRefreshEach
<1>4. /\ jar' = serial' \/ restore'[n].pc = "rotated"
      /\ restore'[n].pc \in {"none", "sent", "rotated"}
      /\ restore'[n].pc \in {"sent", "rotated"} => restore'[n].serial = serial'
      /\ restore'[n].pc # "none" => token' = token
      /\ \A t \in Tabs : expired'[t] <= token'[t]
  <2>1. CASE Guard(n)
    <3>1. jar = serial
      BY <1>0, <1>3, <2>1 DEF Guard, ClientKept, RefreshesAreSound
    <3>2. QED
      BY <2>1, <3>1 DEF Guard, ClientTypeOK, server, client, ClientKept, ReplaysAreFresh
  <2>2. CASE RestoreServed(n)
    <3>1. restore[n].serial = serial
      BY <2>2 DEF RestoreServed, ClientKept, RefreshesAreSound, FlightIsSound
    <3>2. QED
      BY <2>2, <3>1 DEF RestoreServed, Calm, ClientTypeOK, Flights, client, ClientKept, ReplaysAreFresh
  <2>3. CASE Restored(n)
    <3>1. restore[n].serial = serial
      BY <2>3 DEF Restored, ClientKept, RefreshesAreSound, FlightIsSound
    <3>2. jar' = serial' /\ restore'[n].pc = "none"
      BY <2>3, <3>1 DEF Restored, server, ClientTypeOK, NoRefresh
    <3>3. \A t \in Tabs : token'[t] = token[t] + 1 /\ expired[t] <= token[t] /\ token[t] \in Nat /\ expired[t] \in Nat
      BY <1>0, <2>3 DEF Restored, ClientTypeOK, ClientKept, ReplaysAreFresh
    <3>4. \A t \in Tabs : expired'[t] <= token'[t]
      BY <1>1, <3>3
    <3>5. QED
      BY <3>2, <3>4
  <2>4. QED
    BY <2>1, <2>2, <2>3
<1>5. StaysLoggedIn' /\ RefreshesAreSound'
  BY <1>0, <1>1, <1>3, <1>4 DEF ClientKept, StaysLoggedIn, RefreshesAreSound, FlightIsSound
<1>6. OneRefreshEach'
  BY <1>0, <1>1, <1>3, <1>4 DEF ClientKept, OneRefreshEach
<1>7. ReplaysAreFresh'
  BY <1>1, <1>3, <1>4 DEF ClientKept, ReplaysAreFresh
<1>8. QED
  BY <1>5, <1>6, <1>7 DEF ClientKept

\* A token does not expire while a request is replayed with it.
LEMMA ExpireKeeps ==
    ASSUME OneTabOpens, ClientTypeOK, Calm, ClientKept, NEW t \in Tabs, Expire(t)
    PROVE  ClientKept'
<1>1. UNCHANGED <<serial, live, jar, token, gone, promise, refresh, fetch, restore, missed>>
  BY DEF Expire, client
<1>2. StaysLoggedIn' /\ RefreshesAreSound' /\ OneRefreshEach'
  BY <1>1 DEF ClientKept, StaysLoggedIn, RefreshesAreSound, FlightIsSound, OneRefreshEach
<1>3. \A u \in Tabs : u = t /\ expired'[u] = token[u] /\ token[u] \in Nat
  BY DEF OneTabOpens, Expire, ClientTypeOK
<1>4. \A r \in Fetches : fetch[r].pc = "sent" => ~fetch[r].replay
  BY <1>3, RefreshConstants DEF Expire, Of
<1>5. ReplaysAreFresh'
  BY <1>1, <1>3, <1>4 DEF ClientKept, ReplaysAreFresh
<1>6. QED
  BY <1>2, <1>5 DEF ClientKept

LEMMA RefreshInvInit ==
    ASSUME OneTabOpens, ClientInit
    PROVE  RefreshInv
<1>1. /\ [NoRefresh EXCEPT !.pc = "idle"] = [pc |-> "idle", attempt |-> 0, serial |-> 0]
      /\ [NoRefresh EXCEPT !.pc = "idle"] \in Flights /\ NoRefresh \in Flights
  BY DEF NoRefresh, Flights
<1>2. ClientTypeOK
  BY <1>1, RefreshConstants DEF ClientInit, ClientTypeOK, FetchStates
<1>3. StaysLoggedIn /\ RefreshesAreSound
  BY <1>1 DEF ClientInit, StaysLoggedIn, RefreshesAreSound, FlightIsSound, NoRefresh
<1>4. OneRefreshEach
  BY <1>1 DEF ClientInit, OneTabOpens, OneRefreshEach, NoRefresh
<1>5. ReplaysAreFresh
  BY RefreshConstants DEF ClientInit, ReplaysAreFresh
<1>6. QED
  BY <1>2, <1>3, <1>4, <1>5 DEF RefreshInv

LEMMA RefreshInvNext ==
    ASSUME OneTabOpens, RefreshInv, [ClientNext]_refreshVars
    PROVE  RefreshInv'
<1>1. ClientTypeOK /\ ClientTypeOK'
  BY ClientTypes DEF RefreshInv
<1>2. SUFFICES ASSUME Calm'
               PROVE  ClientKept'
  BY <1>1 DEF RefreshInv, Calm, ClientKept
<1>3. Calm
  <2>1. ASSUME NEW r \in Fetches, Send(r) \/ Progress(r) \/ Miss(r) \/ RefreshLost(r)
        PROVE  live' = live /\ (missed' = missed \/ missed' = missed + 1)
    <3>1. CASE Send(r) \/ Miss(r) \/ RefreshLost(r)
      BY <3>1 DEF Send, Miss, RefreshLost, server
    <3>2. CASE Serve(r) \/ Accepted(r) \/ Denied(r)
      BY <3>2 DEF Serve, Accepted, Denied, server
    <3>3. CASE RefreshServed(r) \/ Refreshed(r) \/ RefreshRetries(r) \/ RefreshFails(r)
      BY <3>3 DEF RefreshServed, Refreshed, RefreshRetries, RefreshFails, server
    <3>4. QED
      BY <2>1, <3>1, <3>2, <3>3 DEF Progress
  <2>2. ASSUME NEW n \in Navigations, Guard(n) \/ RestoreServed(n) \/ Restored(n) \/ RestoreFails(n)
        PROVE  live' = live /\ (missed' = missed \/ missed' = missed + 1)
    BY <2>2 DEF Guard, RestoreServed, Restored, RestoreFails, server
  <2>3. ASSUME NEW t \in Tabs, Expire(t)
        PROVE  live' = live /\ missed' = missed
    BY <2>3 DEF Expire
  <2>4. ASSUME Revoke \/ UNCHANGED refreshVars
        PROVE  (live' => live) /\ missed' = missed
    BY <2>4 DEF Revoke, refreshVars
  <2>5. (live' => live) /\ (missed' = missed \/ missed' = missed + 1)
    BY <2>1, <2>2, <2>3, <2>4 DEF ClientNext
  <2>6. QED
    BY <1>1, <1>2, <2>5 DEF Calm, ClientTypeOK
<1>4. ClientKept
  BY <1>3 DEF RefreshInv, Calm, ClientKept
<1>5. ASSUME NEW r \in Fetches, Send(r) \/ Progress(r) \/ Miss(r) \/ RefreshLost(r)
      PROVE  ClientKept'
  <2>1. \/ Send(r) \/ Serve(r) \/ Accepted(r)
        \/ Denied(r) /\ ~fetch[r].replay
        \/ RefreshServed(r) \/ Refreshed(r)
    BY <1>1, <1>2, <1>3, <1>4, <1>5, NobodyLeaves DEF Progress
  <2>2. QED
    BY <1>1, <1>3, <1>4, <2>1, RequestsKeep, DeniedKeeps, ServedKeeps, RefreshedKeeps
<1>6. ASSUME NEW n \in Navigations, Guard(n) \/ RestoreServed(n) \/ Restored(n) \/ RestoreFails(n)
      PROVE  ClientKept'
  BY <1>1, <1>2, <1>3, <1>4, <1>6, NobodyLeaves, RestoreKeeps
<1>7. ASSUME NEW t \in Tabs, Expire(t)
      PROVE  ClientKept'
  BY <1>1, <1>3, <1>4, <1>7, ExpireKeeps
<1>8. CASE Revoke
  BY <1>2, <1>8 DEF Revoke, Calm
<1>9. CASE UNCHANGED refreshVars
  BY <1>4, <1>9 DEF refreshVars, ClientKept, StaysLoggedIn, RefreshesAreSound, FlightIsSound, OneRefreshEach, ReplaysAreFresh
<1>10. QED
  BY <1>5, <1>6, <1>7, <1>8, <1>9 DEF ClientNext

\* While its session lives and no answer is lost, a browser's only tab stays
\* where it is: its requests share one refresh, which has the current serial,
\* and what is replayed afterwards is accepted (request.ts).
THEOREM OneTabStaysLoggedIn ==
    ASSUME OneTabOpens
    PROVE  ClientSpec => []StaysLoggedIn
<1>1. ClientInit => RefreshInv
  BY RefreshInvInit
<1>2. RefreshInv /\ [ClientNext]_refreshVars => RefreshInv'
  BY RefreshInvNext
<1>3. RefreshInv => StaysLoggedIn
  BY DEF RefreshInv, StaysLoggedIn
<1>4. QED
  BY <1>1, <1>2, <1>3, PTL DEF ClientSpec
=============================================================================
