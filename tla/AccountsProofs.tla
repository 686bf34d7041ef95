---------------------------- MODULE AccountsProofs ----------------------------
(***************************************************************************)
(* Proofs about Accounts, for any users, administrators and bounds:        *)
(* requests that come one at a time keep an administrator and confirmed    *)
(* second factors; with any number of them at once, a save of a whole row  *)
(* takes back what was written after it was read, and nothing else.        *)
(***************************************************************************)
EXTENDS Accounts, FiniteSetTheorems, TLAPS

Held == [pc : {"idle", "count", "write", "save", "setup", "enable", "disable", "clear"},
         user : Users \cup {NoUser}, copy : Rows, op : AccountOps]

LEMMA GoneIsARow ==
    /\ 0 \in Versions
    /\ Gone \in Rows /\ Gone.role = "none" /\ ~Gone.totp /\ ~Gone.active /\ Gone.secret = 0
    /\ \A role \in {"user", "admin"} : /\ Row(role, TRUE) \in Rows /\ Row(role, TRUE).role = role
                                       /\ Row(role, TRUE).active /\ ~Row(role, TRUE).totp
<1>1. 0 \in Versions
  BY AccountConstants DEF Versions
<1>2. Gone \in Rows /\ Gone.role = "none" /\ ~Gone.totp /\ ~Gone.active /\ Gone.secret = 0
  BY <1>1 DEF Gone, Rows
<1>3. ASSUME NEW role \in {"user", "admin"}
      PROVE  /\ Row(role, TRUE) \in Rows /\ Row(role, TRUE).role = role
             /\ Row(role, TRUE).active /\ ~Row(role, TRUE).totp
  BY <1>2 DEF Row, Rows
<1>4. QED
  BY <1>1, <1>2, <1>3

LEMMA Typed ==
    ASSUME AccountTypeOK
    PROVE  /\ row \in [Users -> Rows] /\ verified \in [Users -> Versions] /\ served \in Nat
           /\ call \in [Calls -> Held] /\ NoCall \in Held
           /\ \A u \in Users : Exists(u) <=> row[u].role # "none"
BY GoneIsARow DEF AccountTypeOK, Held, NoCall, AccountOps, Exists

-----------------------------------------------------------------------------
(* What the statements of a request do to the rows and to the request.     *)

\* A request begins with the copy of a row.
LEMMA ReadsTyped ==
    ASSUME AccountTypeOK, NEW r \in Calls, NEW u \in Users, NEW op \in AccountOps,
           NEW at \in {"count", "write", "save", "setup", "enable", "disable"}, Reads(r, u, op, at),
           at \in {"count", "write"} => op \in WriteOps, at = "save" => op \in SaveOps
    PROVE  /\ AccountTypeOK' /\ row' = row /\ verified' = verified /\ Exists(u)
           /\ call'[r] = [pc |-> at, user |-> u, copy |-> row[u], op |-> op]
           /\ \A p \in Calls \ {r} : call'[p] = call[p]
<1>1. /\ call' = [call EXCEPT ![r] = [pc |-> at, user |-> u, copy |-> row[u], op |-> op]]
      /\ served' = served + 1 /\ row' = row /\ verified' = verified /\ Exists(u)
  BY DEF Reads
<1>2. [pc |-> at, user |-> u, copy |-> row[u], op |-> op] \in Held
  BY Typed DEF Held
<1>3. call' \in [Calls -> Held] /\ row[u].role # "none"
  BY <1>1, <1>2, Typed
<1>4. /\ call'[r] = [pc |-> at, user |-> u, copy |-> row[u], op |-> op]
      /\ \A p \in Calls \ {r} : call'[p] = call[p]
  BY <1>1, Typed
<1>5. AccountTypeOK'
  BY <1>1, <1>3, <1>4 DEF AccountTypeOK, Held, Exists
<1>6. QED
  BY <1>1, <1>4, <1>5

\* A request goes on to another statement with what it holds, or ends, and
\* the row of its user is another one.
LEMMA WritesTyped ==
    ASSUME AccountTypeOK, NEW r \in Calls, call[r].pc # "idle",
           NEW new \in Rows, new = Gone \/ new.role # "none",
           row' = [row EXCEPT ![call[r].user] = new],
           NEW at \in {"idle", "write", "clear"}, at = "write" => call[r].pc = "count",
           IF at = "idle" THEN Ends(r) ELSE Proceeds(r, at),
           verified' \in [Users -> Versions]
    PROVE  /\ AccountTypeOK' /\ call[r].user \in Users /\ row'[call[r].user] = new
           /\ \A u \in Users : u # call[r].user => row'[u] = row[u]
           /\ at # "idle" => call'[r] = [call[r] EXCEPT !.pc = at]
           /\ at = "idle" => call'[r] = NoCall
           /\ \A p \in Calls \ {r} : call'[p] = call[p]
<1> DEFINE held == IF at = "idle" THEN NoCall ELSE [call[r] EXCEPT !.pc = at]
<1>1. call[r].user \in Users /\ call[r] \in Held /\ call[r].copy.role # "none"
  BY Typed DEF AccountTypeOK
<1>2. call' = [call EXCEPT ![r] = held] /\ served' = served
  BY <1>1, Typed DEF Ends, Proceeds, Held
<1>3. /\ held \in Held
      /\ held.pc # "idle" => held.user \in Users /\ held.copy.role # "none"
      /\ held.pc \in {"count", "write"} => held.op \in WriteOps
      /\ held.pc # "save"
  BY <1>1, Typed DEF AccountTypeOK, Held, NoCall
<1>4. call' \in [Calls -> Held] /\ call'[r] = held /\ \A p \in Calls \ {r} : call'[p] = call[p]
  BY <1>2, <1>3, Typed
<1> HIDE DEF held
<1>5. /\ row' \in [Users -> Rows] /\ row'[call[r].user] = new
      /\ \A u \in Users : u # call[r].user => row'[u] = row[u]
  BY <1>1, Typed
<1>6. \A u \in Users : row'[u].role = "none" => row'[u] = Gone
  BY <1>5, Typed DEF Exists
<1>7. AccountTypeOK'
  BY <1>2, <1>3, <1>4, <1>5, <1>6, Typed DEF AccountTypeOK, Held, Exists
<1>8. QED
  BY <1>1, <1>4, <1>5, <1>7 DEF held

-----------------------------------------------------------------------------
(* What the statements keep.                                               *)

\* The guard of a read is that of the write it precedes.
LEMMA ReadsKeeps ==
    ASSUME AccountsKept, NEW r \in Calls, NEW u \in Users, NEW op \in AccountOps,
           NEW at \in {"count", "write", "save", "setup", "enable", "disable"}, Reads(r, u, op, at),
           at \in {"count", "write"} => op \in WriteOps, at = "save" => op \in SaveOps,
           at = "write" /\ op \in {"disable", "demote", "delete"} => row[u].role # "admin",
           at = "setup" => ~row[u].totp, at = "enable" => row[u].secret # 0
    PROVE  AccountsKept'
<1>1. AccountTypeOK
  BY DEF AccountsKept
<1>2. /\ AccountTypeOK' /\ row' = row /\ verified' = verified
      /\ call'[r] = [pc |-> at, user |-> u, copy |-> row[u], op |-> op]
  BY ZenonT(40), <1>1, ReadsTyped
<1>3. ASSUME OneAtATime
      PROVE  /\ AdminRemains' /\ TotpVerified'
             /\ \A p \in Calls : call'[p].pc # "idle" => CopyCurrent(p)' /\ GuardsHold(p)'
  <2>1. AdminRemains' /\ TotpVerified'
    BY <1>2, <1>3 DEF AccountsKept, AdminRemains, ActiveAdmins, TotpVerified
  <2>2. CopyCurrent(r)' /\ GuardsHold(r)'
    BY <1>2 DEF CopyCurrent, GuardsHold
  <2>3. \A p \in Calls : p = r
    BY <1>3 DEF OneAtATime
  <2>4. QED
    BY <2>1, <2>2, <2>3
<1>4. QED
  BY <1>2, <1>3 DEF AccountsKept, OneAtATime

\* A write that leaves an active administrator and a confirmed second factor.
LEMMA WritesKeeps ==
    ASSUME AccountsKept, NEW r \in Calls, call[r].pc # "idle",
           NEW new \in Rows, new = Gone \/ new.role # "none",
           row' = [row EXCEPT ![call[r].user] = new],
           NEW at \in {"idle", "clear"},
           IF at = "idle" THEN Ends(r) ELSE Proceeds(r, at),
           verified' \in [Users -> Versions],
           \A u \in Users : u # call[r].user => verified'[u] = verified[u],
           OneAtATime =>
             /\ \/ new.role = row[call[r].user].role /\ new.active = row[call[r].user].active
                \/ new.role = "admin" /\ new.active
                \/ row[call[r].user].role # "admin"
                \/ ActiveAdmins \ {call[r].user} # {}
             /\ new.totp => new.secret # 0 /\ new.secret = verified'[call[r].user]
             /\ at = "clear" => ~new.totp
    PROVE  AccountsKept'
<1> DEFINE u == call[r].user
<1>1. AccountTypeOK
  BY DEF AccountsKept
<1>2. /\ AccountTypeOK' /\ u \in Users /\ row'[u] = new
      /\ \A v \in Users : v # u => row'[v] = row[v]
      /\ at # "idle" => call'[r] = [call[r] EXCEPT !.pc = at]
      /\ at = "idle" => call'[r] = NoCall
  BY <1>1, WritesTyped
<1>3. ASSUME OneAtATime
      PROVE  /\ AdminRemains' /\ TotpVerified'
             /\ \A p \in Calls : call'[p].pc # "idle" => CopyCurrent(p)' /\ GuardsHold(p)'
  <2>1. AdminRemains'
    <3>1. PICK a \in ActiveAdmins : TRUE
      BY <1>3 DEF AccountsKept, AdminRemains
    <3>2. CASE new.role = "admin" /\ new.active
      BY <1>2, <3>2 DEF AdminRemains, ActiveAdmins
    <3>3. CASE ActiveAdmins \ {u} # {}
      BY <1>2, <3>3 DEF AdminRemains, ActiveAdmins
    <3>4. CASE row[u].role # "admin" \/ (new.role = row[u].role /\ new.active = row[u].active)
      BY <1>2, <3>1, <3>4 DEF AdminRemains, ActiveAdmins
    <3>5. QED
      BY <1>3, <3>2, <3>3, <3>4
  <2>2. TotpVerified'
    BY <1>2, <1>3 DEF AccountsKept, TotpVerified
  <2>3. call'[r].pc # "idle" => CopyCurrent(r)' /\ GuardsHold(r)'
    <3>1. CASE at = "idle"
      BY <1>2, <3>1 DEF NoCall
    <3>2. CASE at = "clear"
      <4>1. call[r] \in Held
        BY <1>1, Typed
      <4>2. call'[r].pc = "clear" /\ call'[r].user = u /\ ~row'[u].totp
        BY <1>2, <1>3, <3>2, <4>1 DEF Held
      <4>3. QED
        BY <4>2 DEF CopyCurrent, GuardsHold
    <3>3. QED
      BY <3>1, <3>2
  <2>4. \A p \in Calls : p = r
    BY <1>3 DEF OneAtATime
  <2>5. QED
    BY <2>1, <2>2, <2>3, <2>4
<1>4. QED
  BY <1>2, <1>3 DEF AccountsKept, OneAtATime

\* What a request knows of its user when it is alone.
LEMMA AtStatement ==
    ASSUME AccountsKept, NEW r \in Calls, call[r].pc # "idle"
    PROVE  /\ AccountTypeOK /\ call[r] \in Held /\ call[r].user \in Users /\ row[call[r].user] \in Rows
           /\ call[r].copy \in Rows /\ call[r].copy.role # "none"
           /\ verified \in [Users -> Versions]
           /\ OneAtATime => /\ CopyCurrent(r) /\ GuardsHold(r)
                            /\ row[call[r].user].totp => /\ row[call[r].user].secret # 0
                                                         /\ row[call[r].user].secret = verified[call[r].user]
<1>1. AccountTypeOK /\ call[r] \in Held /\ call[r].user \in Users
  BY Typed DEF AccountsKept, AccountTypeOK
<1>2. QED
  BY <1>1, Typed DEF AccountsKept, AccountTypeOK, TotpVerified, Held

\* updateUserField changes a row that is there.
LEMMA SetsKeeps ==
    ASSUME AccountsKept, NEW r \in Calls, call[r].pc # "idle",
           NEW new \in Rows, new = Gone \/ (row[call[r].user].role # "none" => new.role # "none"),
           Sets(r, call[r].user, new),
           NEW at \in {"idle", "clear"},
           IF at = "idle" THEN Ends(r) ELSE Proceeds(r, at),
           verified' \in [Users -> Versions],
           \A u \in Users : u # call[r].user => verified'[u] = verified[u],
           OneAtATime =>
             /\ \/ new.role = row[call[r].user].role /\ new.active = row[call[r].user].active
                \/ new.role = "admin" /\ new.active
                \/ row[call[r].user].role # "admin"
                \/ ActiveAdmins \ {call[r].user} # {}
             /\ new.totp => new.secret # 0 /\ new.secret = verified'[call[r].user]
             /\ at = "clear" => ~new.totp
    PROVE  AccountsKept'
<1> DEFINE written == IF row[call[r].user].role # "none" THEN new ELSE Gone
<1>1. AccountTypeOK /\ call[r].user \in Users
  BY AtStatement
<1>2. row' = [row EXCEPT ![call[r].user] = written]
  BY <1>1, Typed DEF Sets
<1>3. /\ written \in Rows /\ (written = Gone \/ written.role # "none")
      /\ written.totp => row[call[r].user].role # "none" /\ new.totp /\ written.secret = new.secret
  BY GoneIsARow
<1>4. OneAtATime =>
        /\ \/ written.role = row[call[r].user].role /\ written.active = row[call[r].user].active
           \/ written.role = "admin" /\ written.active
           \/ row[call[r].user].role # "admin"
           \/ ActiveAdmins \ {call[r].user} # {}
        /\ written.totp => written.secret # 0 /\ written.secret = verified'[call[r].user]
        /\ at = "clear" => ~written.totp
  BY <1>3
<1> HIDE DEF written
<1>5. QED
  BY <1>2, <1>3, <1>4, WritesKeeps

-----------------------------------------------------------------------------
(* The actions.                                                            *)

LEMMA BeginKeeps ==
    ASSUME AccountsKept, NEW r \in Calls, NEW u \in Users,
           \/ \E by \in Users : AdminChanges(r, u, by)
           \/ Deletes(r, u) \/ Saves(r, u)
           \/ SetupReads(r, u) \/ EnableReads(r, u) \/ DisableReads(r, u)
    PROVE  AccountsKept'
<1>1. CASE \E by \in Users : AdminChanges(r, u, by)
  <2>1. PICK op \in {"disable", "enable", "demote", "promote"} :
          Reads(r, u, op, IF op \in {"disable", "demote"} /\ row[u].role = "admin" THEN "count" ELSE "write")
    BY <1>1 DEF AdminChanges
  <2>2. CASE op \in {"disable", "demote"} /\ row[u].role = "admin"
    BY <2>1, <2>2, ReadsKeeps DEF AccountOps, WriteOps
  <2>3. CASE ~(op \in {"disable", "demote"} /\ row[u].role = "admin")
    BY <2>1, <2>3, ReadsKeeps DEF AccountOps, WriteOps
  <2>4. QED
    BY <2>2, <2>3
<1>2. CASE Deletes(r, u)
  <2>1. CASE row[u].role = "admin"
    BY <1>2, <2>1, ReadsKeeps DEF Deletes, AccountOps, WriteOps
  <2>2. CASE row[u].role # "admin"
    BY <1>2, <2>2, ReadsKeeps DEF Deletes, AccountOps, WriteOps
  <2>3. QED
    BY <2>1, <2>2
<1>3. CASE Saves(r, u)
  <2>1. PICK op \in {"profile", "password", "bootstrap"} : Reads(r, u, op, "save")
    BY <1>3 DEF Saves
  <2>2. QED
    BY <2>1, ReadsKeeps DEF AccountOps, SaveOps
<1>4. CASE SetupReads(r, u)
  BY <1>4, ReadsKeeps DEF SetupReads, AccountOps
<1>5. CASE EnableReads(r, u)
  BY <1>5, ReadsKeeps DEF EnableReads, AccountOps
<1>6. CASE DisableReads(r, u)
  BY <1>6, ReadsKeeps DEF DisableReads, AccountOps
<1>7. QED
  BY <1>1, <1>2, <1>3, <1>4, <1>5, <1>6

LEMMA CreateUserKeeps ==
    ASSUME AccountsKept, NEW r \in Calls, NEW u \in Users, CreateUser(r, u)
    PROVE  AccountsKept'
<1>1. /\ AccountTypeOK /\ call[r].pc = "idle" /\ served' = served + 1 /\ call' = call
      /\ verified' = [verified EXCEPT ![u] = 0] /\ row[u].role = "none"
  BY Typed DEF AccountsKept, CreateUser
<1>2. PICK role \in {"user", "admin"} : row' = [row EXCEPT ![u] = Row(role, TRUE)]
  BY DEF CreateUser
<1>3. /\ Row(role, TRUE) \in Rows /\ Row(role, TRUE).role = role /\ ~Row(role, TRUE).totp
      /\ 0 \in Versions
  BY GoneIsARow
<1> DEFINE new == Row(role, TRUE)
<1>4. /\ row' \in [Users -> Rows] /\ row'[u] = Row(role, TRUE)
      /\ \A v \in Users : v # u => row'[v] = row[v] /\ verified'[v] = verified[v]
      /\ verified' \in [Users -> Versions] /\ served' \in Nat
  <2>1. row \in [Users -> Rows] /\ verified \in [Users -> Versions] /\ served \in Nat
    BY <1>1 DEF AccountTypeOK
  <2>2. row' = [row EXCEPT ![u] = new] /\ new \in Rows
    BY <1>2, <1>3
  <2> HIDE DEF new
  <2>3. row' \in [Users -> Rows] /\ row'[u] = new /\ \A v \in Users : v # u => row'[v] = row[v]
    BY <2>1, <2>2
  <2>4. /\ verified' \in [Users -> Versions] /\ served' \in Nat
        /\ \A v \in Users : v # u => verified'[v] = verified[v]
    BY <1>1, <1>3, <2>1
  <2>5. QED
    BY <2>3, <2>4 DEF new
<1> HIDE DEF new
<1>5. AccountTypeOK'
  BY <1>1, <1>3, <1>4, Typed DEF AccountTypeOK, Exists
<1>6. ASSUME OneAtATime
      PROVE  /\ AdminRemains' /\ TotpVerified'
             /\ \A p \in Calls : call'[p].pc # "idle" => CopyCurrent(p)' /\ GuardsHold(p)'
  <2>1. AdminRemains' /\ TotpVerified'
    BY ZenonT(40), <1>1, <1>3, <1>4, <1>6 DEF AccountsKept, AdminRemains, ActiveAdmins, TotpVerified
  <2>2. \A p \in Calls : p = r
    BY <1>6 DEF OneAtATime
  <2>3. QED
    BY <1>1, <2>1, <2>2
<1>7. QED
  BY <1>5, <1>6 DEF AccountsKept, OneAtATime

\* The target is not the only one that is counted.
LEMMA AdminCountsKeeps ==
    ASSUME IsFiniteSet(Users), AccountsKept, NEW r \in Calls, AdminCounts(r)
    PROVE  AccountsKept'
<1> DEFINE u == call[r].user
           at == IF CountAdmins <= 1 THEN "idle" ELSE "write"
<1>1. /\ call[r].pc = "count" /\ call[r].pc # "idle" /\ row' = row /\ verified' = verified
      /\ IF at = "idle" THEN Ends(r) ELSE Proceeds(r, at)
  BY DEF AdminCounts
<1>2. /\ AccountTypeOK /\ call[r] \in Held /\ u \in Users /\ row[u] \in Rows
      /\ OneAtATime => CopyCurrent(r)
  BY <1>1, AtStatement
<1>3. /\ row' = [row EXCEPT ![u] = row[u]] /\ (row[u] = Gone \/ row[u].role # "none")
      /\ verified' \in [Users -> Versions]
  BY <1>1, <1>2, Typed DEF Exists
<1>4. at \in {"idle", "write", "clear"}
  OBVIOUS
<1>5. /\ AccountTypeOK'
      /\ at # "idle" => call'[r] = [call[r] EXCEPT !.pc = at]
      /\ at = "idle" => call'[r] = NoCall
  BY <1>1, <1>2, <1>3, <1>4, WritesTyped
<1>6. at = "write" => ActiveAdmins \ {u} # {}
  <2>1. SUFFICES ASSUME ActiveAdmins \subseteq {u}
                 PROVE  CountAdmins <= 1
    OBVIOUS
  <2>2. IsFiniteSet({u}) /\ Cardinality({u}) = 1
    BY FS_Singleton
  <2>3. Cardinality(ActiveAdmins) <= 1
    BY <2>1, <2>2, FS_Subset
  <2>4. QED
    BY <2>3 DEF CountAdmins
<1>7. ASSUME OneAtATime
      PROVE  /\ AdminRemains' /\ TotpVerified'
             /\ \A p \in Calls : call'[p].pc # "idle" => CopyCurrent(p)' /\ GuardsHold(p)'
  <2>1. AdminRemains' /\ TotpVerified'
    BY <1>1, <1>7 DEF AccountsKept, AdminRemains, ActiveAdmins, TotpVerified
  <2>2. call'[r].pc # "idle" => CopyCurrent(r)' /\ GuardsHold(r)'
    <3>1. CASE at = "idle"
      BY <1>5, <3>1 DEF NoCall
    <3>2. CASE at = "write"
      <4>1. /\ call'[r].pc = "write" /\ call'[r].user = u /\ call'[r].copy = call[r].copy
        BY <1>2, <1>5, <3>2 DEF Held
      <4>2. CopyCurrent(r)'
        BY <1>1, <1>2, <1>7, <4>1 DEF CopyCurrent
      <4>3. GuardsHold(r)'
        BY <1>1, <1>6, <3>2, <4>1 DEF GuardsHold, ActiveAdmins
      <4>4. QED
        BY <4>2, <4>3
    <3>3. QED
      BY <3>1, <3>2
  <2>3. \A p \in Calls : p = r
    BY <1>7 DEF OneAtATime
  <2>4. QED
    BY <2>1, <2>2, <2>3
<1>8. QED
  BY <1>5, <1>7 DEF AccountsKept, OneAtATime

LEMMA AdminWritesKeeps ==
    ASSUME AccountsKept, NEW r \in Calls, AdminWrites(r)
    PROVE  AccountsKept'
<1> DEFINE u == call[r].user
           Writes(new) == /\ new \in Rows /\ Sets(r, u, new)
                          /\ new = Gone \/ (row[u].role # "none" => new.role # "none")
                          /\ new.totp => row[u].totp /\ new.secret = row[u].secret
                          /\ \/ new.role = row[u].role /\ new.active = row[u].active
                             \/ call[r].op \in {"disable", "demote", "delete"}
                             \/ new.role = "admin" /\ new.active
                             \/ row[u].role # "admin"
                             \/ new.role = row[u].role /\ new.active
<1>1. /\ call[r].pc = "write" /\ call[r].pc # "idle" /\ Ends(r) /\ verified' = verified
  BY DEF AdminWrites
<1>2. /\ AccountTypeOK /\ u \in Users /\ row[u] \in Rows /\ verified \in [Users -> Versions]
      /\ call[r].op \in WriteOps
      /\ OneAtATime => /\ GuardsHold(r)
                       /\ row[u].totp => row[u].secret # 0 /\ row[u].secret = verified[u]
  BY <1>1, AtStatement DEF AccountTypeOK
<1>3. PICK new : Writes(new)
  <2>1. CASE call[r].op = "disable"
    <3>1. Writes([row[u] EXCEPT !.active = FALSE])
      BY <1>2, <2>1 DEF AdminWrites, Rows
    <3>2. QED
      BY <3>1
  <2>2. CASE call[r].op = "enable"
    <3>1. Writes([row[u] EXCEPT !.active = TRUE])
      BY <1>2, <2>2 DEF AdminWrites, Rows
    <3>2. QED
      BY <3>1
  <2>3. CASE call[r].op = "demote"
    <3>1. Writes([row[u] EXCEPT !.role = "user"])
      BY <1>2, <2>3 DEF AdminWrites, Rows
    <3>2. QED
      BY <3>1
  <2>4. CASE call[r].op = "promote"
    <3>1. [row[u] EXCEPT !.role = "admin"] \in Rows
      BY <1>2 DEF Rows
    <3>2. Writes([row[u] EXCEPT !.role = "admin"])
      BY <1>2, <2>4, <3>1 DEF AdminWrites, Rows
    <3>3. QED
      BY <3>2
  <2>5. CASE call[r].op = "delete"
    <3>1. Writes(Gone)
      BY <1>2, <2>5, GoneIsARow DEF AdminWrites
    <3>2. QED
      BY <3>1
  <2>6. QED
    BY <1>2, <2>1, <2>2, <2>3, <2>4, <2>5 DEF WriteOps
<1>4. OneAtATime =>
        /\ \/ new.role = row[u].role /\ new.active = row[u].active
           \/ new.role = "admin" /\ new.active
           \/ row[u].role # "admin"
           \/ ActiveAdmins \ {u} # {}
        /\ new.totp => new.secret # 0 /\ new.secret = verified'[u]
  BY <1>1, <1>2, <1>3 DEF GuardsHold
<1>5. QED
  BY <1>1, <1>2, <1>3, <1>4, SetsKeeps

LEMMA SavesRowKeeps ==
    ASSUME AccountsKept, NEW r \in Calls, SavesRow(r)
    PROVE  AccountsKept'
<1> DEFINE u == call[r].user
           copy == call[r].copy
           new == Changed(copy, call[r].op)
<1>1. /\ call[r].pc = "save" /\ call[r].pc # "idle" /\ Ends(r) /\ verified' = verified
      /\ row' = [row EXCEPT ![u] = new]
  BY DEF SavesRow
<1>2. /\ AccountTypeOK /\ u \in Users /\ row[u] \in Rows /\ verified \in [Users -> Versions]
      /\ copy \in Rows /\ copy.role # "none" /\ call[r].op \in SaveOps
      /\ OneAtATime => /\ CopyCurrent(r)
                       /\ row[u].totp => row[u].secret # 0 /\ row[u].secret = verified[u]
  BY <1>1, AtStatement DEF AccountTypeOK
<1>3. /\ new \in Rows /\ new.role # "none" /\ new.totp = copy.totp /\ new.secret = copy.secret
      /\ \/ new.role = copy.role /\ new.active = copy.active
         \/ new.role = "admin" /\ new.active
  <2>1. \A n \in Versions : (n + 1) % MaxVersion \in Versions
    BY AccountConstants DEF Versions
  <2>2. CASE call[r].op = "profile"
    <3>1. new = [copy EXCEPT !.profile = (copy.profile + 1) % MaxVersion]
      BY <2>2 DEF Changed
    <3>2. QED
      BY <1>2, <2>1, <3>1 DEF Rows
  <2>3. CASE call[r].op = "password"
    <3>1. new = [copy EXCEPT !.password = (copy.password + 1) % MaxVersion]
      BY <2>3 DEF Changed
    <3>2. QED
      BY <1>2, <2>1, <3>1 DEF Rows
  <2>4. CASE call[r].op = "bootstrap"
    <3>1. new = [copy EXCEPT !.role = "admin", !.active = TRUE]
      BY <2>4 DEF Changed
    <3>2. QED
      BY <1>2, <3>1 DEF Rows
  <2>5. QED
    BY <1>2, <2>2, <2>3, <2>4 DEF SaveOps
<1> HIDE DEF new
<1>4. OneAtATime =>
        /\ \/ new.role = row[u].role /\ new.active = row[u].active
           \/ new.role = "admin" /\ new.active
           \/ row[u].role # "admin"
           \/ ActiveAdmins \ {u} # {}
        /\ new.totp => new.secret # 0 /\ new.secret = verified'[u]
  BY <1>1, <1>2, <1>3 DEF CopyCurrent
<1>5. QED
  BY <1>1, <1>2, <1>3, <1>4, WritesKeeps

LEMMA TotpKeeps ==
    ASSUME AccountsKept, NEW r \in Calls,
           SetupWrites(r) \/ EnableWrites(r) \/ DisableWrites(r) \/ DisableClears(r)
    PROVE  AccountsKept'
<1> DEFINE u == call[r].user
<1>1. call[r].pc \in {"setup", "enable", "disable", "clear"} /\ call[r].pc # "idle"
  BY DEF SetupWrites, EnableWrites, DisableWrites, DisableClears
<1>2. /\ AccountTypeOK /\ u \in Users /\ row[u] \in Rows /\ verified \in [Users -> Versions]
      /\ call[r].copy \in Rows /\ call[r].copy.secret \in Versions
      /\ row[u].role # "none" \/ row[u] = Gone
      /\ OneAtATime => /\ CopyCurrent(r) /\ GuardsHold(r)
                       /\ row[u].totp => row[u].secret # 0 /\ row[u].secret = verified[u]
  BY <1>1, AtStatement, Typed DEF Exists, Rows
<1>3. CASE SetupWrites(r)
  <2> DEFINE new == [row[u] EXCEPT !.secret = row[u].secret + 1]
  <2>1. row[u].secret + 1 \in Versions
    BY <1>2, <1>3, AccountConstants DEF SetupWrites, Rows, Versions
  <2>2. /\ new \in Rows /\ new.role = row[u].role /\ new.active = row[u].active /\ new.totp = row[u].totp
    BY <1>2, <2>1 DEF Rows
  <2>3. /\ Sets(r, u, new) /\ Ends(r) /\ verified' = verified
    BY <1>3 DEF SetupWrites
  <2>4. OneAtATime => ~new.totp
    BY <1>2, <1>3, <2>2 DEF SetupWrites, GuardsHold
  <2> HIDE DEF new
  <2>5. QED
    BY <1>1, <1>2, <2>2, <2>3, <2>4, SetsKeeps
<1>4. CASE EnableWrites(r)
  <2> DEFINE new == [row[u] EXCEPT !.totp = TRUE]
  <2>1. /\ new \in Rows /\ new.role = row[u].role /\ new.active = row[u].active
        /\ new.secret = row[u].secret
    BY <1>2 DEF Rows
  <2>2. /\ Sets(r, u, new) /\ Ends(r) /\ verified' = [verified EXCEPT ![u] = call[r].copy.secret]
    BY <1>4 DEF EnableWrites
  <2>3. OneAtATime => new.secret # 0 /\ new.secret = verified'[u]
    BY <1>2, <1>4, <2>1, <2>2 DEF EnableWrites, GuardsHold, CopyCurrent
  <2>4. /\ verified' \in [Users -> Versions] /\ \A v \in Users : v # u => verified'[v] = verified[v]
    BY <1>2, <2>2
  <2> HIDE DEF new
  <2>5. QED
    BY <1>1, <1>2, <2>1, <2>2, <2>3, <2>4, SetsKeeps
<1>5. CASE DisableWrites(r)
  <2> DEFINE new == [row[u] EXCEPT !.totp = FALSE]
  <2>1. /\ new \in Rows /\ new.role = row[u].role /\ new.active = row[u].active /\ ~new.totp
    BY <1>2 DEF Rows
  <2>2. /\ Sets(r, u, new) /\ Proceeds(r, "clear") /\ verified' = verified
    BY <1>5 DEF DisableWrites
  <2> HIDE DEF new
  <2>3. QED
    BY <1>1, <1>2, <2>1, <2>2, SetsKeeps
<1>6. CASE DisableClears(r)
  <2> DEFINE new == [row[u] EXCEPT !.secret = 0]
  <2>1. /\ new \in Rows /\ new.role = row[u].role /\ new.active = row[u].active
        /\ new.totp = row[u].totp
    BY <1>2, AccountConstants DEF Rows, Versions
  <2>2. /\ Sets(r, u, new) /\ Ends(r) /\ verified' = verified
    BY <1>6 DEF DisableClears
  <2>3. OneAtATime => ~new.totp
    BY <1>2, <1>6, <2>1 DEF DisableClears, CopyCurrent
  <2> HIDE DEF new
  <2>4. QED
    BY <1>1, <1>2, <2>1, <2>2, <2>3, SetsKeeps
<1>7. QED
  BY <1>3, <1>4, <1>5, <1>6

-----------------------------------------------------------------------------
(* All steps.                                                              *)

LEMMA InitHolds == AccountInit => AccountsKept
<1> SUFFICES ASSUME AccountInit
             PROVE  AccountsKept
  OBVIOUS
<1>1. AccountTypeOK
  <2>1. Row("admin", TRUE) \in Rows /\ Gone \in Rows /\ 0 \in Versions /\ Row("admin", TRUE).role = "admin"
    BY GoneIsARow
  <2>2. NoCall \in Held /\ NoCall.pc = "idle"
    BY <2>1 DEF NoCall, Held, AccountOps
  <2>3. QED
    BY <2>1, <2>2 DEF AccountInit, AccountTypeOK, Held, Exists
<1>2. AdminRemains
  BY GoneIsARow, AccountConstants DEF AccountInit, AdminRemains, ActiveAdmins
<1>3. TotpVerified
  BY GoneIsARow DEF AccountInit, TotpVerified
<1>4. \A r \in Calls : call[r].pc = "idle"
  BY DEF AccountInit, NoCall
<1>5. QED
  BY <1>1, <1>2, <1>3, <1>4 DEF AccountsKept

LEMMA NextKeeps ==
    ASSUME IsFiniteSet(Users)
    PROVE  AccountsKept /\ [AccountNext]_accountVars => AccountsKept'
<1> SUFFICES ASSUME AccountsKept, [AccountNext]_accountVars
             PROVE  AccountsKept'
  OBVIOUS
<1>1. CASE UNCHANGED accountVars
  BY <1>1 DEF accountVars, AccountsKept, AccountTypeOK, Exists, OneAtATime, AdminRemains, ActiveAdmins, TotpVerified,
              CopyCurrent, GuardsHold
<1>2. ASSUME NEW r \in Calls, NEW u \in Users,
             \/ \E by \in Users : AdminChanges(r, u, by)
             \/ CreateUser(r, u) \/ Deletes(r, u) \/ Saves(r, u)
             \/ SetupReads(r, u) \/ EnableReads(r, u) \/ DisableReads(r, u)
      PROVE  AccountsKept'
  BY <1>2, BeginKeeps, CreateUserKeeps
<1>3. ASSUME NEW r \in Calls,
             \/ AdminCounts(r) \/ AdminWrites(r) \/ SavesRow(r)
             \/ SetupWrites(r) \/ EnableWrites(r) \/ DisableWrites(r) \/ DisableClears(r)
      PROVE  AccountsKept'
  BY <1>3, AdminCountsKeeps, AdminWritesKeeps, SavesRowKeeps, TotpKeeps
<1>4. QED
  BY <1>1, <1>2, <1>3 DEF AccountNext

\* For requests that come one at a time there is always an active
\* administrator, whoever disables, demotes or deletes whom, and who has the
\* second factor enabled has confirmed the secret that logins will ask for
\* (ErrLastActiveAdmin; SetupTOTP, EnableTOTP, DisableTOTP).
THEOREM AdministratorsRemain ==
    ASSUME IsFiniteSet(Users)
    PROVE  AccountSpec => []AccountsKept
<1>1. AccountsKept /\ [AccountNext]_accountVars => AccountsKept'
  BY NextKeeps
<1>2. QED
  BY <1>1, InitHolds, PTL DEF AccountSpec

-----------------------------------------------------------------------------
(* Saves of whole rows, with any number of requests at once.               *)

\* history: the requests in progress whose row was changed since they read it
VARIABLE overtaken

Overtakes ==
    overtaken' = {r \in Calls : /\ call[r].pc # "idle" /\ call'[r].pc # "idle"
                                /\ r \in overtaken \/ row'[call[r].user] # row[call[r].user]}

OvertakenSpec ==
    AccountInit /\ overtaken = {} /\ [][AccountNext /\ Overtakes]_<<accountVars, overtaken>>

\* What the requests of administrators and of the second factor change.
SameGuarded(a, b) ==
    a.role = b.role /\ a.active = b.active /\ a.totp = b.totp /\ a.secret = b.secret

\* A save for a profile or a password puts role, state and second factor back to
\* what the request read, a deleted account included ("only the fields that
\* may be changed", user_service.go:509, is not so); if nobody changed the row
\* meanwhile it leaves them as they are.
SaveTakesBack ==
    \A r \in Calls :
      call[r].pc = "save" /\ call[r].op # "bootstrap" /\ call'[r].pc = "idle" =>
        LET u == call[r].user IN
        /\ SameGuarded(row'[u], call[r].copy)
        /\ r \notin overtaken => SameGuarded(row'[u], row[u])

\* A request that was not overtaken holds the row as it is.
CopiesHold ==
    /\ AccountTypeOK
    /\ \A r \in Calls : call[r].pc # "idle" /\ r \notin overtaken => row[call[r].user] = call[r].copy

\* What a step does to a request: nothing, or it begins it with a read, ends it
\* or takes it to another statement.
LEMMA CallSteps ==
    ASSUME AccountTypeOK, AccountNext, NEW r \in Calls
    PROVE  \/ call'[r] = call[r]
           \/ call[r].pc = "idle" /\ row' = row /\ call'[r].copy = row[call'[r].user]
           \/ call[r].pc # "idle" /\ call'[r].pc = "idle" /\ (call[r].pc = "save" => SavesRow(r))
           \/ /\ call[r].pc \notin {"idle", "save"} /\ call'[r].pc # "idle"
              /\ call'[r].user = call[r].user /\ call'[r].copy = call[r].copy
<1>0. call \in [Calls -> Held] /\ NoCall.pc = "idle"
  BY Typed DEF NoCall
<1> DEFINE Begun(u, op, at) == [pc |-> at, user |-> u, copy |-> row[u], op |-> op]
           Begins(p) == /\ call[p].pc = "idle" /\ row' = row
                        /\ \E u, op, at : call' = [call EXCEPT ![p] = Begun(u, op, at)]
           Finishes(p) == /\ call[p].pc # "idle" /\ call' = [call EXCEPT ![p] = NoCall]
                          /\ call[p].pc = "save" => SavesRow(p)
           Goes(p) == /\ call[p].pc \notin {"idle", "save"}
                      /\ \E at \in {"write", "clear"} : call' = [call EXCEPT ![p].pc = at]
<1>1. PICK p \in Calls : call' = call \/ Begins(p) \/ Finishes(p) \/ Goes(p)
  <2>1. ASSUME NEW p \in Calls, NEW u, NEW op, NEW at, Reads(p, u, op, at)
        PROVE  Begins(p)
    BY <2>1 DEF Reads
  <2>2. ASSUME NEW p \in Calls, NEW u \in Users,
               \/ \E by \in Users : AdminChanges(p, u, by)
               \/ CreateUser(p, u) \/ Deletes(p, u) \/ Saves(p, u)
               \/ SetupReads(p, u) \/ EnableReads(p, u) \/ DisableReads(p, u)
        PROVE  call' = call \/ Begins(p)
    BY <2>1, <2>2 DEF AdminChanges, CreateUser, Deletes, Saves, SetupReads, EnableReads, DisableReads
  <2>3. ASSUME NEW p \in Calls, AdminCounts(p) \/ DisableWrites(p)
        PROVE  Finishes(p) \/ Goes(p)
    BY <2>3 DEF AdminCounts, DisableWrites, Ends, Proceeds
  <2>4. ASSUME NEW p \in Calls,
               \/ AdminWrites(p) \/ SavesRow(p) \/ SetupWrites(p) \/ EnableWrites(p) \/ DisableClears(p)
        PROVE  Finishes(p)
    <3>1. call[p].pc # "idle" /\ (call[p].pc = "save" => SavesRow(p))
      BY <2>4 DEF AdminWrites, SavesRow, SetupWrites, EnableWrites, DisableClears
    <3>2. Ends(p)
      BY <2>4 DEF AdminWrites, SavesRow, SetupWrites, EnableWrites, DisableClears
    <3>3. QED
      BY <3>1, <3>2 DEF Ends
  <2> HIDE DEF Begins, Finishes, Goes
  <2>5. QED
    BY <2>2, <2>3, <2>4 DEF AccountNext
<1>2. CASE p # r
  BY <1>0, <1>1, <1>2
<1>3. CASE p = r /\ (call' = call \/ Finishes(p))
  BY <1>0, <1>3
<1>4. CASE p = r /\ Begins(p)
  BY <1>0, <1>4
<1>5. CASE p = r /\ Goes(p)
  BY <1>0, <1>5 DEF Held
<1>6. QED
  BY <1>1, <1>2, <1>3, <1>4, <1>5

LEMMA CopiesHoldOn ==
    ASSUME CopiesHold, AccountTypeOK', AccountNext, Overtakes
    PROVE  CopiesHold'
<1>1. ASSUME NEW r \in Calls, call'[r].pc # "idle", r \notin overtaken'
      PROVE  row'[call'[r].user] = call'[r].copy
  <2>1. CASE call[r].pc = "idle"
    BY <1>1, <2>1, CallSteps DEF CopiesHold
  <2>2. CASE call[r].pc # "idle"
    <3>1. r \notin overtaken /\ row'[call[r].user] = row[call[r].user]
      BY <1>1, <2>2 DEF Overtakes
    <3>2. call'[r].user = call[r].user /\ call'[r].copy = call[r].copy
      BY <1>1, <2>2, CallSteps DEF CopiesHold
    <3>3. QED
      BY <2>2, <3>1, <3>2 DEF CopiesHold
  <2>3. QED
    BY <2>1, <2>2
<1>2. QED
  BY <1>1 DEF CopiesHold

\* However many requests overlap, a save for a profile or a password takes role,
\* state and second factor back to what it read: it undoes what others wrote in
\* between and changes nothing if nobody did (UpdateUser and ChangePassword
\* save the whole row).
THEOREM SavesTheirOwnFields ==
    ASSUME IsFiniteSet(Users)
    PROVE  OvertakenSpec => [][SaveTakesBack]_<<accountVars, overtaken>>
<1>1. AccountsKept /\ CopiesHold /\ [AccountNext /\ Overtakes]_<<accountVars, overtaken>> =>
        [SaveTakesBack]_<<accountVars, overtaken>>
  <2> SUFFICES ASSUME CopiesHold, AccountNext, Overtakes, NEW r \in Calls,
                      call[r].pc = "save", call[r].op # "bootstrap", call'[r].pc = "idle"
               PROVE  LET u == call[r].user IN
                      /\ SameGuarded(row'[u], call[r].copy)
                      /\ r \notin overtaken => SameGuarded(row'[u], row[u])
    BY DEF SaveTakesBack
  <2>1. SavesRow(r)
    BY CallSteps DEF CopiesHold
  <2>2. /\ call[r].user \in Users /\ row \in [Users -> Rows] /\ call[r].op \in {"profile", "password"}
        /\ call[r].copy \in Rows
    BY Typed DEF CopiesHold, AccountTypeOK, SaveOps
  <2>3. row'[call[r].user] = Changed(call[r].copy, call[r].op)
    BY <2>1, <2>2 DEF SavesRow
  <2>4. SameGuarded(row'[call[r].user], call[r].copy)
    BY <2>2, <2>3 DEF Changed, Rows, SameGuarded
  <2>5. r \notin overtaken => row[call[r].user] = call[r].copy
    BY DEF CopiesHold
  <2>6. QED
    BY <2>4, <2>5
<1>2. AccountsKept /\ CopiesHold /\ [AccountNext /\ Overtakes]_<<accountVars, overtaken>> =>
        AccountsKept' /\ CopiesHold'
  <2>1. ASSUME AccountsKept, CopiesHold, AccountNext, Overtakes
        PROVE  AccountsKept' /\ CopiesHold'
    <3>1. AccountsKept'
      BY <2>1, NextKeeps
    <3>2. QED
      BY <2>1, <3>1, CopiesHoldOn DEF AccountsKept
  <2>2. ASSUME AccountsKept, CopiesHold, UNCHANGED <<accountVars, overtaken>>
        PROVE  AccountsKept' /\ CopiesHold'
    <3>1. AccountsKept'
      BY <2>2, NextKeeps
    <3>2. QED
      BY <2>2, <3>1 DEF AccountsKept, CopiesHold, accountVars
  <2>3. QED
    BY <2>1, <2>2
<1>3. AccountInit /\ overtaken = {} => AccountsKept /\ CopiesHold
  <2>1. AccountInit => AccountsKept /\ \A r \in Calls : call[r].pc = "idle"
    BY InitHolds DEF AccountInit, NoCall
  <2>2. QED
    BY <2>1 DEF CopiesHold, AccountsKept
<1>4. QED
  BY <1>1, <1>2, <1>3, PTL DEF OvertakenSpec
=============================================================================
