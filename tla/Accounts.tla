------------------------------- MODULE Accounts -------------------------------
(***************************************************************************)
(* The rows of the table users under concurrent requests: administrators   *)
(* who change roles and states, users who change their profile, password   *)
(* or second factor or delete their account, and the bootstrap of an       *)
(* administrator when a process starts.                                    *)
(*                                                                         *)
(* A request is a chain of statements; each is a step.  Some write single  *)
(* columns (updateUserField), some read a row and save all of it (Update). *)
(***************************************************************************)
EXTENDS Naturals, FiniteSets

CONSTANTS
    Users,      \* ids of the table users
    NoUser,
    FirstAdmins, \* the administrators at the start
    Calls,      \* processes that serve requests
    MaxRequests, \* bounds of the model: requests, passwords and TOTP secrets
    MaxVersion

ASSUME AccountConstants ==
    /\ NoUser \notin Users
    /\ FirstAdmins \subseteq Users /\ FirstAdmins # {}
    /\ MaxRequests \in Nat /\ MaxVersion \in Nat \ {0}

VARIABLES
    row,      \* table users
    verified, \* history: the secret each user confirmed last with a code
    call,     \* what each request holds
    served    \* requests so far

accountVars == <<row, verified, call, served>>

\* Passwords, profiles and secrets are version numbers; secret 0 is "".
Gone == [role |-> "none", active |-> FALSE, password |-> 0, profile |-> 0,
         secret |-> 0, totp |-> FALSE]

Row(role, active) == [Gone EXCEPT !.role = role, !.active = active]

NoCall == [pc |-> "idle", user |-> NoUser, copy |-> Gone, op |-> "none"]

Exists(u) == row[u] # Gone

ActiveAdmins == {u \in Users : row[u].role = "admin" /\ row[u].active}

CountAdmins == Cardinality(ActiveAdmins)

-----------------------------------------------------------------------------
(* A request begins, its user or its target being u, with one read of u's  *)
(* row; it goes on to another statement; it ends.                          *)

Reads(r, u, op, pc) ==
    /\ call[r].pc = "idle" /\ served < MaxRequests /\ served' = served + 1
    /\ Exists(u)
    /\ call' = [call EXCEPT ![r] = [pc |-> pc, user |-> u, copy |-> row[u], op |-> op]]
    /\ UNCHANGED <<row, verified>>

Proceeds(r, pc) == call' = [call EXCEPT ![r].pc = pc] /\ UNCHANGED served
Ends(r) == call' = [call EXCEPT ![r] = NoCall] /\ UNCHANGED served

Sets(r, u, new) ==
    /\ row' = [row EXCEPT ![u] = IF Exists(u) THEN new ELSE Gone]

-----------------------------------------------------------------------------
(* Administrators.  StrictAdminMiddleware has read the caller's row.       *)

IsAdmin(by) == by \in ActiveAdmins

\* Nobody may change the own account; disabling and demoting look at the target.
AdminChanges(r, u, by) ==
    \E op \in {"disable", "enable", "demote", "promote"} :
      /\ IsAdmin(by) /\ by # u
      /\ Reads(r, u, op, IF op \in {"disable", "demote"} /\ row[u].role = "admin"
                         THEN "count" ELSE "write")

\* Mutation: the administrators are not counted.
CountsNothing(r) ==
    /\ call[r].pc = "count"
    /\ Proceeds(r, "write")
    /\ UNCHANGED <<row, verified>>

AdminCounts(r) ==
    /\ call[r].pc = "count"
    /\ IF CountAdmins <= 1 THEN Ends(r) ELSE Proceeds(r, "write")
    /\ UNCHANGED <<row, verified>>

\* UpdateStatus, UpdateRole and, last, the deletion of the account.
AdminWrites(r) ==
    LET u == call[r].user  op == call[r].op IN
    /\ call[r].pc = "write"
    /\ CASE op = "disable" -> Sets(r, u, [row[u] EXCEPT !.active = FALSE])
         [] op = "enable"  -> Sets(r, u, [row[u] EXCEPT !.active = TRUE])
         [] op = "demote"  -> Sets(r, u, [row[u] EXCEPT !.role = "user"])
         [] op = "promote" -> Sets(r, u, [row[u] EXCEPT !.role = "admin"])
         [] op = "delete"  -> Sets(r, u, Gone)
    /\ Ends(r)
    /\ UNCHANGED verified

CreateUser(r, u) ==
    /\ call[r].pc = "idle" /\ served < MaxRequests /\ served' = served + 1
    /\ ~Exists(u)
    /\ \E role \in {"user", "admin"} : row' = [row EXCEPT ![u] = Row(role, TRUE)]
    /\ verified' = [verified EXCEPT ![u] = 0]
    /\ UNCHANGED call

-----------------------------------------------------------------------------
(* Users: deletion of the own account, profile and password.               *)

Deletes(r, u) ==
    /\ row[u].active
    /\ Reads(r, u, "delete", IF row[u].role = "admin" THEN "count" ELSE "write")

\* UpdateUser, ChangePassword, VerifyUser and BootstrapAdmin.
Saves(r, u) ==
    \E op \in {"profile", "password", "bootstrap"} :
      /\ op # "bootstrap" => row[u].active
      /\ Reads(r, u, op, "save")

Changed(copy, op) ==
    CASE op = "profile"   -> [copy EXCEPT !.profile = (copy.profile + 1) % MaxVersion]
      [] op = "password"  -> [copy EXCEPT !.password = (copy.password + 1) % MaxVersion]
      [] op = "bootstrap" -> [copy EXCEPT !.role = "admin", !.active = TRUE]

\* Save writes every column as read, and inserts the row if it is gone.
SavesRow(r) ==
    /\ call[r].pc = "save"
    /\ row' = [row EXCEPT ![call[r].user] = Changed(call[r].copy, call[r].op)]
    /\ Ends(r)
    /\ UNCHANGED verified

-----------------------------------------------------------------------------
(* The second factor.                                                      *)

SetupReads(r, u) ==
    row[u].active /\ ~row[u].totp /\ Reads(r, u, "setup", "setup")

SetupWrites(r) ==
    LET u == call[r].user IN
    /\ call[r].pc = "setup" /\ row[u].secret < MaxVersion
    /\ Sets(r, u, [row[u] EXCEPT !.secret = row[u].secret + 1])
    /\ Ends(r)
    /\ UNCHANGED verified

\* The code is checked against the secret that was read.
EnableReads(r, u) ==
    /\ row[u].active /\ ~row[u].totp /\ row[u].secret # 0
    /\ Reads(r, u, "totp", "enable")

EnableWrites(r) ==
    LET u == call[r].user IN
    /\ call[r].pc = "enable"
    /\ Sets(r, u, [row[u] EXCEPT !.totp = TRUE])
    /\ verified' = [verified EXCEPT ![u] = call[r].copy.secret]
    /\ Ends(r)

DisableReads(r, u) == row[u].active /\ row[u].totp /\ Reads(r, u, "totp", "disable")

DisableWrites(r) ==
    LET u == call[r].user IN
    /\ call[r].pc = "disable"
    /\ Sets(r, u, [row[u] EXCEPT !.totp = FALSE])
    /\ Proceeds(r, "clear")
    /\ UNCHANGED verified

DisableClears(r) ==
    LET u == call[r].user IN
    /\ call[r].pc = "clear"
    /\ Sets(r, u, [row[u] EXCEPT !.secret = 0])
    /\ Ends(r)
    /\ UNCHANGED verified

-----------------------------------------------------------------------------
AccountInit ==
           /\ row = [u \in Users |-> IF u \in FirstAdmins THEN Row("admin", TRUE) ELSE Gone]
           /\ verified = [u \in Users |-> 0]
           /\ call = [r \in Calls |-> NoCall]
           /\ served = 0

AccountNext ==
           \E r \in Calls :
             \/ \E u \in Users : \/ \E by \in Users : AdminChanges(r, u, by)
                                 \/ CreateUser(r, u) \/ Deletes(r, u) \/ Saves(r, u)
                                 \/ SetupReads(r, u) \/ EnableReads(r, u) \/ DisableReads(r, u)
             \/ AdminCounts(r) \/ AdminWrites(r) \/ SavesRow(r)
             \/ SetupWrites(r) \/ EnableWrites(r) \/ DisableWrites(r) \/ DisableClears(r)

AccountSpec == AccountInit /\ [][AccountNext]_accountVars

-----------------------------------------------------------------------------
Versions == 0..MaxVersion

Rows == [role : {"none", "user", "admin"}, active : BOOLEAN, password : Versions, profile : Versions,
         secret : Versions, totp : BOOLEAN]

\* The requests that write at each statement.
WriteOps == {"disable", "enable", "demote", "promote", "delete"}
SaveOps == {"profile", "password", "bootstrap"}
AccountOps == WriteOps \cup SaveOps \cup {"none", "setup", "totp"}

\* Every variable has its type (domain.User); a request that has begun holds a
\* copy of a row.
AccountTypeOK ==
    /\ row \in [Users -> Rows] /\ \A u \in Users : row[u].role = "none" => ~Exists(u)
    /\ verified \in [Users -> Versions] /\ served \in Nat
    /\ call \in [Calls -> [pc : {"idle", "count", "write", "save", "setup", "enable", "disable", "clear"},
                           user : Users \cup {NoUser}, copy : Rows, op : AccountOps]]
    /\ \A r \in Calls : /\ call[r].pc # "idle" => call[r].user \in Users /\ call[r].copy.role # "none"
                        /\ call[r].pc \in {"count", "write"} => call[r].op \in WriteOps
                        /\ call[r].pc = "save" => call[r].op \in SaveOps

\* There is always an active administrator (ErrLastActiveAdmin; the guards of
\* UpdateUserStatus, UpdateUserRole and DeleteUser).
AdminRemains == ActiveAdmins # {}

\* Who has the second factor enabled once proved to have the very secret that
\* logins will ask for (SetupTOTP, EnableTOTP, DisableTOTP).
TotpVerified ==
    \A u \in Users : row[u].totp => row[u].secret # 0 /\ row[u].secret = verified[u]

OneAtATime == \A p, q \in Calls : p = q

\* The row is still what the request read, but for the second factor that it
\* has disabled itself.
CopyCurrent(r) ==
    LET u == call[r].user IN
    IF call[r].pc = "clear" THEN ~row[u].totp ELSE row[u] = call[r].copy

\* What the guards of a request found holds until it writes.
GuardsHold(r) ==
    LET u == call[r].user IN
    /\ call[r].pc = "write" /\ call[r].op \in {"disable", "demote", "delete"} /\ row[u].role = "admin" =>
         ActiveAdmins \ {u} # {}
    /\ call[r].pc = "setup" => ~row[u].totp
    /\ call[r].pc = "enable" => row[u].secret # 0

\* If requests come one at a time, an active administrator remains, and who has
\* the second factor enabled has proved to have its secret, also across the
\* statements of a request (ErrLastActiveAdmin; EnableTOTP). With two at once
\* each may be counted while the other is still there.
AccountsKept ==
    /\ AccountTypeOK
    /\ OneAtATime => /\ AdminRemains /\ TotpVerified
                     /\ \A r \in Calls : call[r].pc # "idle" => CopyCurrent(r) /\ GuardsHold(r)
=============================================================================
