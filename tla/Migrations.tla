------------------------------ MODULE Migrations ------------------------------
(***************************************************************************)
(* Processes of several binaries that start over one database: each loads  *)
(* the history of schema migrations, applies what its own list has and the *)
(* history lacks, one transaction per migration, and serves.  A binary is  *)
(* the number of migrations it knows.  Whatever fails ends the process,    *)
(* whose transaction is rolled back, and a supervisor starts it again.     *)
(***************************************************************************)
EXTENDS Naturals

CONSTANTS
    Processes,
    Binary,    \* the highest version that the binary of a process knows
    OneWriter, \* SQLite: one writing transaction at a time
    MaxFaults  \* bound of the model: crashes and failing statements

ASSUME MigrationConstants ==
    /\ Binary \in [Processes -> Nat \ {0}]
    /\ OneWriter \in BOOLEAN
    /\ MaxFaults \in Nat

VARIABLES
    history, \* versions in schema_migrations
    effects, \* how often the changes of a version were committed
    phase,
    applied, \* appliedVersions of migrate, and what it applied itself
    faults

vars == <<history, effects, phase, applied, faults>>

Versions == UNION {1..Binary[p] : p \in Processes}
IsNewest(p) == \A q \in Processes : Binary[q] <= Binary[p]
Pending(p) == 1..Binary[p] \ applied[p]
Lowest(S) == {v \in S : \A w \in S : v <= w}
InTransaction == {p \in Processes : phase[p] = "upgrading"}

Goes(p, to) == phase' = [phase EXCEPT ![p] = to]
GoesDown(p) == Goes(p, "down") /\ UNCHANGED <<history, effects, applied>>

TypeOK ==
    /\ history \subseteq Versions
    /\ effects \in [Versions -> Nat]
    /\ phase \in [Processes -> {"down", "pending", "upgrading", "serving"}]
    /\ applied \in [Processes -> SUBSET Versions]
    /\ faults \in 0..MaxFaults

-----------------------------------------------------------------------------
\* Mutation: the newest version counts as unknown.
KnowsOneLess(p) == history \subseteq 1..(Binary[p] - 1)

\* No record of a version that the binary lacks.
Knows(p) == history \subseteq 1..Binary[p]

\* The history is loaded once; a process that meets an unknown version ends.
LoadHistory(p) ==
    /\ phase[p] = "down" /\ Knows(p)
    /\ applied' = [applied EXCEPT ![p] = history]
    /\ Goes(p, "pending")
    /\ UNCHANGED <<history, effects, faults>>

\* The transaction of the next pending migration begins: its up function.
Upgrade(p) ==
    /\ phase[p] = "pending" /\ Pending(p) # {}
    /\ OneWriter => InTransaction = {}
    /\ Goes(p, "upgrading")
    /\ UNCHANGED <<history, effects, applied, faults>>

\* SQLite: the wait for the other transaction may end in an error.
Locked(p) ==
    /\ phase[p] = "pending" /\ Pending(p) # {}
    /\ OneWriter /\ InTransaction # {}
    /\ GoesDown(p) /\ UNCHANGED faults

\* The transaction is rolled back and the error ends the process.
Failed(p) == GoesDown(p)

\* Mutation: the record is written with ON CONFLICT DO NOTHING.
ConflictIgnored(v) == FALSE

\* Another process committed the version meanwhile: the record of this one
\* violates the primary key.
Conflict(v) == v \in history

\* The record of the migration, and the commit of both.
Commit(p) ==
    /\ phase[p] = "upgrading"
    /\ UNCHANGED faults
    /\ \E v \in Lowest(Pending(p)) :
         \/ Conflict(v) /\ Failed(p)
         \/ /\ ~Conflict(v)
            /\ history' = history \cup {v}
            /\ effects' = [effects EXCEPT ![v] = @ + 1]
            /\ applied' = [applied EXCEPT ![p] = @ \cup {v}]
            /\ Goes(p, "pending")

Fault == faults < MaxFaults /\ faults' = faults + 1

UpgradeFails(p) == phase[p] = "upgrading" /\ Fault /\ Failed(p)

Serve(p) ==
    /\ phase[p] = "pending" /\ Pending(p) = {}
    /\ Goes(p, "serving")
    /\ UNCHANGED <<history, effects, applied, faults>>

Crash(p) == phase[p] # "down" /\ Fault /\ GoesDown(p)

\* The administrator ends a process of an older binary.
Stop(p) == phase[p] = "serving" /\ ~IsNewest(p) /\ GoesDown(p) /\ UNCHANGED faults

-----------------------------------------------------------------------------
Init ==
    /\ \E n \in {0} \cup Versions :
         /\ history = 1..n
         /\ effects = [v \in Versions |-> IF v <= n THEN 1 ELSE 0]
    /\ phase = [p \in Processes |-> "down"]
    /\ applied = [p \in Processes |-> {}]
    /\ faults = 0

Start(p) == LoadHistory(p) \/ Upgrade(p) \/ Locked(p) \/ Commit(p) \/ Serve(p)

Next == \E p \in Processes : Start(p) \/ UpgradeFails(p) \/ Crash(p) \/ Stop(p)

Spec == Init /\ [][Next]_vars

\* A supervisor starts a process again, whose statements return.
FairSpec == Spec /\ \A p \in Processes : WF_vars(Start(p))

-----------------------------------------------------------------------------
\* The changes of a migration are committed once, and recorded exactly when
\* they are, whatever processes start at once ("each migration and its history
\* record share one transaction", migrate).
EffectsOnce == \A v \in Versions : effects[v] = IF v \in history THEN 1 ELSE 0

\* Migrations are applied in order without gaps, and a process serves only a
\* database that has all of its binary's ("a failed upgrade stops startup").
UpgradedInOrder ==
    /\ \A v \in history : 1..v \subseteq history
    /\ \A p \in Processes : phase[p] = "serving" => 1..Binary[p] \subseteq history

\* A process does not skip what is not recorded.
AppliedRecorded == \A p \in Processes : applied[p] \subseteq history

\* The inductive invariant: a serving process owes its versions to what it
\* found recorded or recorded itself.
MigrationInv ==
    /\ TypeOK
    /\ EffectsOnce
    /\ UpgradedInOrder
    /\ AppliedRecorded

\* The newest binary serves in the end, however often it loses a migration to
\* another process: a failed upgrade is safe to retry.
NewestServes ==
    \A p \in Processes : IsNewest(p) => <>[](phase[p] = "serving")

\* An older binary refuses to start on a database that has newer migrations
\* (the check of migrate; Readme-EN.md:554). It fails: the history is read
\* once, and a newer binary may commit its migration after that.
OlderRefuses ==
    [][\A p \in Processes : phase[p] # "serving" /\ phase'[p] = "serving" => Knows(p)]_vars
=============================================================================
