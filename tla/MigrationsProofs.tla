--------------------------- MODULE MigrationsProofs ---------------------------
(***************************************************************************)
(* Schema migrations: proofs for any processes and binaries.               *)
(***************************************************************************)
EXTENDS Migrations, TLAPS

\* The versions of a binary are versions, and no version is missing below one.
LEMMA VersionsBelow ==
    /\ Versions \subseteq Nat \ {0}
    /\ \A p \in Processes : 1..Binary[p] \subseteq Versions
    /\ \A v \in Versions : 1..v \subseteq Versions
  BY MigrationConstants DEF Versions

\* The lowest pending version follows recorded ones only.
LEMMA LowestFollows ==
    ASSUME TypeOK, AppliedRecorded, NEW p \in Processes, NEW v \in Lowest(Pending(p))
    PROVE  /\ v \in Versions /\ v \in 1..Binary[p]
           /\ 1..v \subseteq history \cup {v}
<1>1. v \in 1..Binary[p] /\ \A w \in Pending(p) : v <= w
  BY DEF Lowest, Pending
<1>2. v \in Versions
  BY <1>1, VersionsBelow
<1>3. ASSUME NEW w \in 1..v, w # v
      PROVE  w \in history
  <2>1. w \in 1..Binary[p] /\ ~(v <= w)
    BY <1>1, <1>3, MigrationConstants
  <2>2. w \in applied[p]
    BY <1>1, <2>1 DEF Pending
  <2>3. QED
    BY <2>2 DEF AppliedRecorded
<1>4. QED
  BY <1>1, <1>2, <1>3

\* What a step does to the history: nothing, or one version is recorded by a
\* transaction that ends.
Recorded(p, v) ==
    /\ v \in Lowest(Pending(p)) \ history
    /\ phase[p] = "upgrading"
    /\ history' = history \cup {v}
    /\ effects' = [effects EXCEPT ![v] = @ + 1]
    /\ applied' = [applied EXCEPT ![p] = @ \cup {v}]
    /\ phase' = [phase EXCEPT ![p] = "pending"]
    /\ faults' = faults

Loaded(p) ==
    /\ Knows(p)
    /\ applied' = [applied EXCEPT ![p] = history]
    /\ phase' = [phase EXCEPT ![p] = "pending"]
    /\ UNCHANGED <<history, effects, faults>>

Moved(p) ==
    /\ \/ \E to \in {"down", "upgrading"} : phase' = [phase EXCEPT ![p] = to]
       \/ Pending(p) = {} /\ phase' = [phase EXCEPT ![p] = "serving"]
    /\ UNCHANGED <<history, effects, applied>>
    /\ faults' \in {faults, faults + 1} /\ (faults' # faults => faults < MaxFaults)

LEMMA Steps ==
    ASSUME [Next]_vars
    PROVE  \/ UNCHANGED vars
           \/ \E p \in Processes : Loaded(p) \/ Moved(p) \/ \E v \in Versions : Recorded(p, v)
<1>1. CASE UNCHANGED vars
  BY <1>1
<1>2. ASSUME NEW p \in Processes, LoadHistory(p)
      PROVE  Loaded(p)
  BY <1>2 DEF LoadHistory, Loaded, Goes
<1>3. ASSUME NEW p \in Processes,
             Upgrade(p) \/ Locked(p) \/ Serve(p) \/ UpgradeFails(p) \/ Crash(p) \/ Stop(p)
      PROVE  Moved(p)
  BY <1>3 DEF Upgrade, Locked, Serve, UpgradeFails, Crash, Stop, Moved, Goes, GoesDown, Failed, Fault
<1>4. ASSUME NEW p \in Processes, Commit(p)
      PROVE  Moved(p) \/ \E v \in Versions : Recorded(p, v)
  <2>1. PICK v \in Lowest(Pending(p)) :
          \/ Conflict(v) /\ Failed(p)
          \/ /\ ~Conflict(v)
             /\ history' = history \cup {v}
             /\ effects' = [effects EXCEPT ![v] = @ + 1]
             /\ applied' = [applied EXCEPT ![p] = @ \cup {v}]
             /\ Goes(p, "pending")
    BY <1>4 DEF Commit
  <2>2. v \in Versions /\ phase[p] = "upgrading" /\ faults' = faults
    BY <1>4, VersionsBelow DEF Commit, Lowest, Pending
  <2>3. CASE Failed(p)
    BY <2>2, <2>3 DEF Failed, GoesDown, Goes, Moved
  <2>4. QED
    BY <2>1, <2>2, <2>3 DEF Recorded, Conflict, Goes
<1>5. QED
  BY <1>1, <1>2, <1>3, <1>4 DEF Next, Start

LEMMA InitInv == Init => MigrationInv
<1> SUFFICES ASSUME Init PROVE MigrationInv
  OBVIOUS
<1>1. PICK n \in {0} \cup Versions :
        /\ history = 1..n
        /\ effects = [v \in Versions |-> IF v <= n THEN 1 ELSE 0]
  BY DEF Init
<1>2. n \in Nat /\ history \subseteq Versions /\ \A v \in Versions : v \in Nat \ {0}
  BY <1>1, VersionsBelow
<1>3. TypeOK
  BY <1>1, <1>2, MigrationConstants DEF Init, TypeOK
<1>4. EffectsOnce
  BY <1>1, <1>2 DEF EffectsOnce
<1>5. UpgradedInOrder /\ AppliedRecorded
  BY <1>1, <1>2 DEF Init, UpgradedInOrder, AppliedRecorded
<1>6. QED
  BY <1>3, <1>4, <1>5 DEF MigrationInv

LEMMA StepInv ==
    ASSUME MigrationInv, [Next]_vars
    PROVE  MigrationInv'
<1> USE DEF MigrationInv
<1>1. CASE UNCHANGED vars
  BY <1>1 DEF vars, TypeOK, EffectsOnce, UpgradedInOrder, AppliedRecorded
<1>2. ASSUME NEW p \in Processes, Loaded(p)
      PROVE  MigrationInv'
  <2>1. TypeOK'
    BY <1>2 DEF Loaded, TypeOK
  <2>2. EffectsOnce' /\ AppliedRecorded'
    BY <1>2 DEF Loaded, TypeOK, EffectsOnce, AppliedRecorded
  <2>3. UpgradedInOrder'
    BY <1>2 DEF Loaded, TypeOK, UpgradedInOrder
  <2>4. QED
    BY <2>1, <2>2, <2>3
<1>3. ASSUME NEW p \in Processes, Moved(p)
      PROVE  MigrationInv'
  <2>1. TypeOK'
    BY <1>3, MigrationConstants DEF Moved, TypeOK
  <2>2. EffectsOnce' /\ AppliedRecorded'
    BY <1>3 DEF Moved, EffectsOnce, AppliedRecorded
  <2>3. UpgradedInOrder'
    BY <1>3 DEF Moved, TypeOK, UpgradedInOrder, AppliedRecorded, Pending
  <2>4. QED
    BY <2>1, <2>2, <2>3
<1>4. ASSUME NEW p \in Processes, NEW v \in Versions, Recorded(p, v)
      PROVE  MigrationInv'
  <2>1. /\ v \in Versions /\ v \in Nat /\ v \in 1..Binary[p] /\ v \notin history
        /\ 1..v \subseteq history \cup {v}
    BY <1>4, LowestFollows, VersionsBelow DEF Recorded
  <2>2. TypeOK'
    BY <1>4, <2>1 DEF Recorded, TypeOK
  <2>3. EffectsOnce'
    BY <1>4, <2>1 DEF Recorded, TypeOK, EffectsOnce
  <2>4. AppliedRecorded'
    BY <1>4 DEF Recorded, TypeOK, AppliedRecorded
  <2>5. UpgradedInOrder'
    BY <1>4, <2>1 DEF Recorded, TypeOK, UpgradedInOrder
  <2>6. QED
    BY <2>2, <2>3, <2>4, <2>5
<1>5. QED
  BY <1>1, <1>2, <1>3, <1>4, Steps

-----------------------------------------------------------------------------
\* The inductive invariant of migrate.
THEOREM MigrationInvHolds == Spec => []MigrationInv
<1>1. QED
  BY InitInv, StepInv, PTL DEF Spec

\* Whatever processes start at once, the changes of a version are committed
\* once, with its record.
THEOREM MigrationsCommitOnce == Spec => []EffectsOnce
<1>1. MigrationInv => EffectsOnce
  BY DEF MigrationInv
<1>2. QED
  BY <1>1, MigrationInvHolds, PTL

\* The history has no gaps, and a process serves a database that has all the
\* versions of its binary.
THEOREM MigrationsInOrder == Spec => []UpgradedInOrder
<1>1. MigrationInv => UpgradedInOrder
  BY DEF MigrationInv
<1>2. QED
  BY <1>1, MigrationInvHolds, PTL
=============================================================================
