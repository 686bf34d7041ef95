----------------------------- MODULE StorageProofs -----------------------------
(***************************************************************************)
(* MediaRoots: with one process, the mutex of UpdateRoot, CreateRoot,      *)
(* DeleteRoot and StartScan keeps roots apart and indexed files under the  *)
(* path of their root, whatever scans and probes do meanwhile; and with    *)
(* any number of processes a record of health is never replaced by that of *)
(* an older check.  MediaProbe: what one probe reports is what it saw.     *)
(***************************************************************************)
EXTENDS MediaRoots, MediaProbe, TLAPS

LEMMA InitTyped == Init => TypeOK
<1> SUFFICES ASSUME Init PROVE TypeOK
  OBVIOUS
<1>1. root \in [Roots -> RootRows] /\ \A r \in Roots : Exists(r) => root[r].path \in Paths
  <2>1. \A r \in Roots : root[r] \in RootRows /\ (Exists(r) => root[r].path \in Paths)
    <3>1. TAKE r \in Roots
    <3>2. CASE r \in DOMAIN FirstRoots
      <4>1. FirstRoots[r] \in Paths /\ root[r] = [path |-> FirstRoots[r], enabled |-> TRUE]
        BY <3>2, RootConstants DEF Init
      <4>2. QED
        BY <4>1 DEF RootRows
    <3>3. CASE r \notin DOMAIN FirstRoots
      <4>1. root[r] = Absent
        BY <3>3 DEF Init
      <4>2. QED
        BY <4>1 DEF RootRows, Absent, Exists
    <3>4. QED
      BY <3>2, <3>3
  <2>2. root = [r \in Roots |-> root[r]]
    BY DEF Init
  <2>3. QED
    BY <2>1, <2>2
<1>2. health \in [Roots -> HealthRows] /\ scan \in [Roots -> ScanRows]
      /\ \A r \in Roots : scan[r].status # "running"
  BY DEF Init, NoHealth, NoScan, HealthRows, ScanRows
<1>3. call \in [Servers -> Calls] /\ \A s \in Servers : call[s].pc = "idle"
  BY DEF Init, NoCall, Absent, Calls, RootRows
<1>4. probe \in [Probers -> Probes] /\ \A q \in Probers : probe[q].pc = "idle"
  BY DEF Init, NoProbe, Probes
<1>5. QED
  BY <1>1, <1>2, <1>3, <1>4 DEF Init, TypeOK, Updates

-----------------------------------------------------------------------------
(* What a step writes.                                                     *)

LEMMA CallTyped ==
    ASSUME TypeOK, NEW s \in Servers, NEW c \in Calls, call' = [call EXCEPT ![s] = c],
           c.pc # "idle" => c.root \in Roots,
           c.pc \in {"create"} \cup Updates => c.copy.path \in Paths
    PROVE  /\ call' \in [Servers -> Calls]
           /\ \A t \in Servers : /\ call'[t].pc # "idle" => call'[t].root \in Roots
                                 /\ call'[t].pc \in {"create"} \cup Updates => call'[t].copy.path \in Paths
           /\ call'[s] = c
  BY DEF TypeOK

LEMMA ProbeTyped ==
    ASSUME TypeOK, NEW q \in Probers, NEW h \in Probes, probe' = [probe EXCEPT ![q] = h],
           h.pc # "idle" => h.root \in Roots,
           h.pc = "save" => h.status # "none"
    PROVE  /\ probe' \in [Probers -> Probes]
           /\ \A p \in Probers : /\ probe'[p].pc # "idle" => probe'[p].root \in Roots
                                 /\ probe'[p].pc = "save" => probe'[p].status # "none"
  BY DEF TypeOK

LEMMA RootTyped ==
    ASSUME TypeOK, NEW r \in Roots, NEW new \in RootRows, new # Absent => new.path \in Paths,
           root' = [root EXCEPT ![r] = new]
    PROVE  /\ root' \in [Roots -> RootRows] /\ \A o \in Roots : Exists(o)' => root'[o].path \in Paths
           /\ root'[r] = new /\ \A o \in Roots : o # r => root'[o] = root[o]
  BY DEF TypeOK, Exists

LEMMA UpsertTyped ==
    ASSUME TypeOK, NEW r \in Roots, NEW h \in HealthRows
    PROVE  /\ Upsert(r, h) \in [Roots -> HealthRows]
           /\ \A o \in Roots : Upsert(r, h)[o].checked >= health[o].checked
  BY DEF TypeOK, Upsert, HealthRows

LEMMA SameHealthIsNewer ==
    ASSUME TypeOK, health' = health
    PROVE  KeepsNewer /\ health' \in [Roots -> HealthRows]
<1>1. \A r \in Roots : health[r].checked \in Nat
  BY DEF TypeOK, HealthRows
<1>2. QED
  BY <1>1 DEF TypeOK, KeepsNewer

LEMMA IdleIsTyped == NoCall \in Calls /\ NoCall.pc = "idle" /\ NoProbe \in Probes /\ NoProbe.pc = "idle"
                     /\ NoHealth \in HealthRows /\ NoScan \in ScanRows /\ NoScan.status = "none"
                     /\ Absent \in RootRows
  BY DEF NoCall, NoProbe, NoHealth, NoScan, Absent, Calls, Probes, HealthRows, ScanRows, RootRows

\* A step of a call that changes no root, no scan and no file.
LEMMA CallKeeps ==
    ASSUME RootsSound, NEW s \in Servers, NEW c \in Calls, call' = [call EXCEPT ![s] = c],
           c.pc # "idle" => c.root \in Roots,
           c.pc \in {"create"} \cup Updates => c.copy.path \in Paths,
           UNCHANGED <<root, scan, files, probe, mounted>>,
           health' \in [Roots -> HealthRows],
           clock' \in Nat, edits' \in Nat, scans' \in Nat, flips' \in Nat,
           OneProcess => FoundHolds(s)'
    PROVE  RootsSound'
<1>1. TypeOK'
  BY CallTyped DEF RootsSound, TypeOK, Exists
<1>2. OneProcess => NoOverlap' /\ IndexedPathKept'
  BY DEF RootsSound, NoOverlap, IndexedPathKept, Exists
<1>3. OneProcess => \A t \in Servers : FoundHolds(t)'
  BY DEF OneProcess
<1>4. QED
  BY <1>1, <1>2, <1>3 DEF RootsSound, OneProcess

-----------------------------------------------------------------------------
(* The actions.                                                            *)

LEMMA CreateChecksKeeps ==
    ASSUME RootsSound, NEW s \in Servers, NEW r \in Roots, NEW p \in Paths, CreateChecks(s, r, p)
    PROVE  RootsSound' /\ KeepsNewer
<1> DEFINE c == [NoCall EXCEPT !.pc = "create", !.root = r, !.copy = [path |-> p, enabled |-> TRUE]]
<1>1. /\ c \in Calls /\ c.pc = "create" /\ c.root = r /\ c.copy.path = p
  BY DEF NoCall, Calls, Absent, RootRows
<1>2. /\ call' = [call EXCEPT ![s] = c] /\ ~Overlaps(r, p) /\ edits' = edits + 1
      /\ UNCHANGED <<root, health, scan, files, probe, mounted, clock, scans, flips>>
  BY DEF CreateChecks, Edit
<1> HIDE DEF c
<1>3. TypeOK /\ call'[s] = c
  BY <1>1, <1>2 DEF RootsSound, TypeOK
<1>4. FoundHolds(s)'
  BY <1>1, <1>2, <1>3 DEF FoundHolds, Overlaps, Exists, Updates
<1>5. /\ clock' \in Nat /\ edits' \in Nat /\ scans' \in Nat /\ flips' \in Nat
  BY <1>2, <1>3 DEF TypeOK
<1>6. KeepsNewer /\ health' \in [Roots -> HealthRows]
  BY <1>2, <1>3, SameHealthIsNewer
<1>7. QED
  BY <1>1, <1>2, <1>4, <1>5, <1>6, CallKeeps

LEMMA UpdateFindsKeeps ==
    ASSUME RootsSound, NEW s \in Servers, NEW r \in Roots, NEW p \in Paths, NEW enabled \in BOOLEAN,
           UpdateFinds(s, r, p, enabled)
    PROVE  RootsSound' /\ KeepsNewer
<1> DEFINE c == [pc |-> "active", root |-> r, copy |-> [path |-> p, enabled |-> enabled],
                 moved |-> p # root[r].path]
<1>1. /\ c \in Calls /\ c.pc = "active" /\ c.root = r /\ c.copy.path = p
      /\ c.moved = (c.copy.path # root[r].path)
  BY DEF Calls, RootRows, Updates
<1>2. /\ call' = [call EXCEPT ![s] = c] /\ Exists(r) /\ edits' = edits + 1
      /\ UNCHANGED <<root, health, scan, files, probe, mounted, clock, scans, flips>>
  BY DEF UpdateFinds, Edit
<1> HIDE DEF c
<1>3. TypeOK /\ call'[s] = c
  BY <1>1, <1>2 DEF RootsSound, TypeOK
<1>4. FoundHolds(s)'
  BY <1>1, <1>2, <1>3 DEF FoundHolds, Exists, Updates
<1>5. /\ clock' \in Nat /\ edits' \in Nat /\ scans' \in Nat /\ flips' \in Nat
  BY <1>2, <1>3 DEF TypeOK
<1>6. KeepsNewer /\ health' \in [Roots -> HealthRows]
  BY <1>2, <1>3, SameHealthIsNewer
<1>7. QED
  BY <1>1, <1>2, <1>4, <1>5, <1>6, CallKeeps

\* A call that goes on to another query, or returns.
LEMMA GoesKeeps ==
    ASSUME RootsSound, NEW s \in Servers, NEW at \in {"overlap", "count", "save", "idle"},
           call[s].pc \in Updates,
           IF at = "idle" THEN Returns(s) ELSE Goes(s, at),
           UNCHANGED <<root, health, scan, files, probe, mounted, counters>>,
           OneProcess /\ at # "idle" =>
             /\ Exists(call[s].root) /\ call[s].moved = (call[s].copy.path # root[call[s].root].path)
             /\ at \in {"overlap", "count"} => call[s].moved
             /\ ~Active(call[s].root)
             /\ at \in {"count", "save"} /\ call[s].moved => ~Overlaps(call[s].root, call[s].copy.path)
             /\ at = "save" /\ call[s].moved => ~Indexed(call[s].root)
    PROVE  RootsSound' /\ KeepsNewer
<1> DEFINE c == IF at = "idle" THEN NoCall ELSE [call[s] EXCEPT !.pc = at]
<1>1. TypeOK /\ call[s] \in Calls /\ call[s].root \in Roots /\ call[s].copy.path \in Paths
  BY DEF RootsSound, TypeOK, Updates
<1>2. /\ call' = [call EXCEPT ![s] = c] /\ call'[s] = c
  BY <1>1 DEF Goes, Returns, TypeOK
<1>3. c \in Calls /\ c.pc = at /\ (at # "idle" => c.root = call[s].root /\ c.copy = call[s].copy /\ c.moved = call[s].moved)
  BY <1>1, IdleIsTyped DEF Calls, Updates
<1> HIDE DEF c
<1>4. OneProcess => FoundHolds(s)'
  <2>1. CASE at = "idle"
    BY <1>2, <1>3, <2>1 DEF FoundHolds, Updates
  <2>2. CASE at # "idle"
    <3>1. PICK r : r = call[s].root /\ r = call'[s].root
      BY <1>2, <1>3, <2>2
    <3>2. /\ Exists(r)' <=> Exists(r)
          /\ Active(r)' <=> Active(r)
          /\ Indexed(r)' <=> Indexed(r)
          /\ \A p : Overlaps(r, p)' <=> Overlaps(r, p)
      BY DEF Exists, Active, Indexed, Overlaps
    <3>3. QED
      BY <1>2, <1>3, <2>2, <3>1, <3>2 DEF FoundHolds, Updates
  <2>3. QED
    BY <2>1, <2>2
<1>5. /\ c.pc # "idle" => c.root \in Roots
      /\ c.pc \in {"create"} \cup Updates => c.copy.path \in Paths
  BY <1>1, <1>3 DEF Updates
<1>6. /\ clock' \in Nat /\ edits' \in Nat /\ scans' \in Nat /\ flips' \in Nat
  BY <1>1 DEF TypeOK, counters
<1>7. KeepsNewer /\ health' \in [Roots -> HealthRows]
  BY <1>1, SameHealthIsNewer
<1>8. QED
  BY <1>2, <1>3, <1>4, <1>5, <1>6, <1>7, CallKeeps

LEMMA UpdateChecksKeep ==
    ASSUME RootsSound, NEW s \in Servers,
           UpdateChecksScan(s) \/ UpdateChecksOverlap(s) \/ UpdateCountsMusic(s)
    PROVE  RootsSound' /\ KeepsNewer
<1>1. OneProcess => FoundHolds(s)
  BY DEF RootsSound
<1>2. CASE UpdateChecksScan(s)
  <2> DEFINE at == IF Active(call[s].root) THEN "idle" ELSE IF call[s].moved THEN "overlap" ELSE "save"
  <2>1. /\ call[s].pc = "active" /\ IF at = "idle" THEN Returns(s) ELSE Goes(s, at)
        /\ UNCHANGED <<root, health, scan, files, probe, mounted, counters>>
    BY <1>2 DEF UpdateChecksScan, Locked
  <2>2. QED
    BY <1>1, <2>1, GoesKeeps DEF FoundHolds, Updates
<1>3. CASE UpdateChecksOverlap(s)
  <2> DEFINE at == IF Overlaps(call[s].root, call[s].copy.path) THEN "idle" ELSE "count"
  <2>1. /\ call[s].pc = "overlap" /\ IF at = "idle" THEN Returns(s) ELSE Goes(s, at)
        /\ UNCHANGED <<root, health, scan, files, probe, mounted, counters>>
    BY <1>3 DEF UpdateChecksOverlap, Locked
  <2>2. QED
    BY <1>1, <2>1, GoesKeeps DEF FoundHolds, Updates
<1>4. CASE UpdateCountsMusic(s)
  <2> DEFINE at == IF Indexed(call[s].root) THEN "idle" ELSE "save"
  <2>1. /\ call[s].pc = "count" /\ IF at = "idle" THEN Returns(s) ELSE Goes(s, at)
        /\ UNCHANGED <<root, health, scan, files, probe, mounted, counters>>
    BY <1>4 DEF UpdateCountsMusic, Locked
  <2>2. QED
    BY <1>1, <2>1, GoesKeeps DEF FoundHolds, Updates
<1>5. QED
  BY <1>2, <1>3, <1>4

LEMMA StartFindsKeeps ==
    ASSUME RootsSound, NEW s \in Servers, NEW r \in Roots, StartFinds(s, r)
    PROVE  RootsSound' /\ KeepsNewer
<1> DEFINE c == [NoCall EXCEPT !.pc = "start", !.root = r]
<1>1. /\ c \in Calls /\ c.pc = "start" /\ c.root = r
  BY IdleIsTyped DEF NoCall, Calls
<1>2. /\ call' = [call EXCEPT ![s] = c] /\ scans' = scans + 1
      /\ UNCHANGED <<root, health, scan, files, probe, mounted, clock, edits, flips>>
  BY DEF StartFinds
<1> HIDE DEF c
<1>3. TypeOK /\ call'[s] = c
  BY <1>1, <1>2 DEF RootsSound, TypeOK
<1>4. FoundHolds(s)'
  BY <1>1, <1>2, <1>3 DEF FoundHolds, Updates
<1>5. /\ clock' \in Nat /\ edits' \in Nat /\ scans' \in Nat /\ flips' \in Nat
  BY <1>2, <1>3 DEF TypeOK
<1>6. KeepsNewer /\ health' \in [Roots -> HealthRows]
  BY <1>2, <1>3, SameHealthIsNewer
<1>7. "start" \notin {"create"} \cup Updates
  BY DEF Updates
<1>8. QED
  BY <1>1, <1>2, <1>4, <1>5, <1>6, <1>7, CallKeeps

\* The reset is dated after every record that it is compared with, or is dropped.
LEMMA UpdateResetsKeeps ==
    ASSUME RootsSound, NEW s \in Servers, UpdateResets(s)
    PROVE  RootsSound' /\ KeepsNewer
<1> DEFINE r == call[s].root
           h == [status |-> "unknown", checked |-> clock, path |-> call[s].copy.path]
<1>1. TypeOK /\ call[s].pc = "reset" /\ r \in Roots /\ call[s].copy.path \in Paths
  BY DEF RootsSound, TypeOK, UpdateResets, Locked, Updates
<1>2. /\ health' = Upsert(r, h) /\ h \in HealthRows
      /\ UNCHANGED <<root, scan, files, probe, mounted, clock, edits, scans, flips>>
      /\ call' = [call EXCEPT ![s] = NoCall]
  BY <1>1 DEF UpdateResets, Returns, HealthRows, TypeOK, counters
<1> HIDE DEF h, r
<1>3. KeepsNewer /\ health' \in [Roots -> HealthRows]
  BY <1>1, <1>2, UpsertTyped DEF KeepsNewer
<1>4. FoundHolds(s)'
  <2>1. call'[s] = NoCall
    BY <1>1, <1>2 DEF TypeOK
  <2>2. QED
    BY <2>1, IdleIsTyped DEF FoundHolds, Updates
<1>5. NoCall.pc \notin {"create"} \cup Updates
  BY IdleIsTyped DEF Updates
<1>6. clock' \in Nat /\ edits' \in Nat /\ scans' \in Nat /\ flips' \in Nat
  BY <1>1, <1>2 DEF TypeOK
<1>7. QED
  BY <1>2, <1>3, <1>4, <1>5, <1>6, IdleIsTyped, CallKeeps

\* A root gets a path that overlaps no other one, or keeps the one it has; it
\* gets another one, or goes, only without tracks and scans.
LEMMA RootKeeps ==
    ASSUME RootsSound, NEW r \in Roots, NEW new \in RootRows, root' = [root EXCEPT ![r] = new],
           new # Absent => new.path \in Paths,
           UNCHANGED <<scan, files>>, TypeOK',
           OneProcess => /\ \A s \in Servers : FoundHolds(s)'
                         /\ new = Absent \/ ~Overlaps(r, new.path) \/ (Exists(r) /\ new.path = root[r].path)
                         /\ (Exists(r) /\ new.path = root[r].path) \/ (~Indexed(r) /\ scan[r].status # "running")
    PROVE  RootsSound'
<1>1. TypeOK
  BY DEF RootsSound
<1>2. root'[r] = new /\ \A o \in Roots : o # r => root'[o] = root[o]
  BY <1>1, RootTyped
<1>3. Absent.path = <<>> /\ <<>> \notin Paths
  BY RootConstants DEF Absent
<1>4. OneProcess => NoOverlap'
  <2> SUFFICES ASSUME OneProcess PROVE NoOverlap'
    OBVIOUS
  <2>1. NoOverlap
    BY DEF RootsSound
  <2>2. \A p, q : Overlap(p, q) <=> Overlap(q, p)
    BY DEF Overlap
  <2>3. new # Absent => /\ ~Overlap(ManagedPath, new.path)
                        /\ \A o \in Roots \ {r} : Exists(o) => ~Overlap(root[o].path, new.path)
    BY <2>1, <2>2 DEF Overlaps, NoOverlap
  <2>4. ASSUME NEW a \in Roots, NEW o \in Roots, root'[a] # Absent
        PROVE  /\ ~Overlap(ManagedPath, root'[a].path)
               /\ root'[o] # Absent /\ a # o => ~Overlap(root'[o].path, root'[a].path)
    BY <1>2, <2>1, <2>2, <2>3, <2>4 DEF NoOverlap, Exists
  <2>5. QED
    BY <2>4 DEF NoOverlap, Exists
<1>5. OneProcess => IndexedPathKept'
  <2> SUFFICES ASSUME OneProcess, NEW o \in Roots, NEW p \in Paths,
                      <<o, p>> \in files \/ scan[o] = [status |-> "running", path |-> p]
               PROVE  root'[o].path = p
    BY DEF IndexedPathKept
  <2>1. root[o].path = p
    BY DEF RootsSound, IndexedPathKept
  <2>2. Indexed(o) \/ scan[o].status = "running"
    BY DEF Indexed
  <2>3. QED
    BY <1>2, <2>1, <2>2
<1>6. QED
  BY <1>4, <1>5 DEF RootsSound, OneProcess

LEMMA CreateInsertsKeeps ==
    ASSUME RootsSound, NEW s \in Servers, CreateInserts(s)
    PROVE  RootsSound' /\ KeepsNewer
<1> DEFINE r == call[s].root
           new == IF Exists(r) THEN root[r] ELSE call[s].copy
<1>1. /\ TypeOK /\ call[s].pc = "create" /\ r \in Roots /\ call[s] \in Calls /\ call[s].copy.path \in Paths
  BY DEF RootsSound, TypeOK, CreateInserts, Locked
<1>2. /\ root' = [root EXCEPT ![r] = new] /\ new \in RootRows /\ (new # Absent => new.path \in Paths)
      /\ call' = [call EXCEPT ![s] = NoCall]
      /\ UNCHANGED <<health, scan, files, probe, mounted, clock, edits, scans, flips>>
  <2>1. root' = [root EXCEPT ![r] = new]
    BY <1>1 DEF CreateInserts, TypeOK
  <2>2. new \in RootRows /\ (new # Absent => new.path \in Paths)
    BY <1>1 DEF TypeOK, Exists, Calls
  <2>3. QED
    BY <2>1, <2>2 DEF CreateInserts, Returns, counters
<1>3. NoCall.pc \notin {"create"} \cup Updates /\ call'[s] = NoCall
  BY <1>1, <1>2, IdleIsTyped DEF Updates, TypeOK
<1>4. TypeOK'
  <2> HIDE DEF new, r
  <2>1. root' \in [Roots -> RootRows] /\ \A o \in Roots : Exists(o)' => root'[o].path \in Paths
    BY <1>1, <1>2, RootTyped
  <2>2. /\ call' \in [Servers -> Calls]
        /\ \A t \in Servers : /\ call'[t].pc # "idle" => call'[t].root \in Roots
                              /\ call'[t].pc \in {"create"} \cup Updates => call'[t].copy.path \in Paths
    BY <1>1, <1>2, <1>3, IdleIsTyped, CallTyped
  <2>3. QED
    BY <1>1, <1>2, <2>1, <2>2 DEF TypeOK
<1>5. ASSUME OneProcess
      PROVE  /\ \A t \in Servers : FoundHolds(t)'
             /\ new = Absent \/ ~Overlaps(r, new.path) \/ (Exists(r) /\ new.path = root[r].path)
             /\ (Exists(r) /\ new.path = root[r].path) \/ (~Indexed(r) /\ scan[r].status # "running")
  <2>1. FoundHolds(s) /\ \A t \in Servers : t = s
    BY <1>5 DEF RootsSound, OneProcess
  <2>2. FoundHolds(s)'
    BY <1>3, IdleIsTyped DEF FoundHolds, Updates
  <2>3. ~Exists(r) => ~Overlaps(r, new.path)
    BY <1>1, <2>1 DEF FoundHolds
  <2>4. ~Exists(r) => ~Indexed(r) /\ scan[r].status # "running"
    <3>1. SUFFICES ASSUME ~Exists(r), Indexed(r) \/ scan[r].status = "running" PROVE FALSE
      OBVIOUS
    <3>2. root[r].path \notin Paths
      BY <3>1, RootConstants DEF Exists, Absent
    <3>3. IndexedPathKept
      BY <1>5 DEF RootsSound
    <3>4. PICK p \in Paths : <<r, p>> \in files \/ scan[r] = [status |-> "running", path |-> p]
      <4>1. scan[r] \in ScanRows /\ (scan[r].status = "running" => scan[r].path \in Paths)
        BY <1>1 DEF TypeOK
      <4>2. QED
        BY <3>1, <4>1 DEF Indexed, ScanRows
    <3>5. QED
      BY <1>1, <3>2, <3>3, <3>4 DEF IndexedPathKept
  <2>5. QED
    BY <2>1, <2>2, <2>3, <2>4
<1>6. KeepsNewer
  BY <1>1, <1>2, SameHealthIsNewer
<1> HIDE DEF new, r
<1>7. QED
  BY <1>1, <1>2, <1>4, <1>5, <1>6, RootKeeps

LEMMA UpdateSavesKeeps ==
    ASSUME RootsSound, NEW s \in Servers, UpdateSaves(s)
    PROVE  RootsSound' /\ KeepsNewer
<1> DEFINE r == call[s].root
           new == call[s].copy
           c == [call[s] EXCEPT !.pc = "reset"]
<1>1. /\ TypeOK /\ call[s].pc = "save" /\ r \in Roots /\ call[s] \in Calls
      /\ new.path \in Paths /\ new \in RootRows
  BY DEF RootsSound, TypeOK, UpdateSaves, Locked, Updates, Calls
<1>2. /\ root' = [root EXCEPT ![r] = new] /\ call' = [call EXCEPT ![s] = c]
      /\ UNCHANGED <<health, scan, files, probe, mounted, clock, edits, scans, flips>>
  BY <1>1 DEF UpdateSaves, Goes, TypeOK, counters
<1>3. c \in Calls /\ c.pc = "reset" /\ c.root = r /\ c.copy = new /\ call'[s] = c
  BY <1>1, <1>2 DEF Calls, Updates, TypeOK
<1> HIDE DEF c
<1>4. TypeOK'
  <2>1. root' \in [Roots -> RootRows] /\ \A o \in Roots : Exists(o)' => root'[o].path \in Paths
    BY <1>1, <1>2, RootTyped
  <2>2. /\ call' \in [Servers -> Calls]
        /\ \A t \in Servers : /\ call'[t].pc # "idle" => call'[t].root \in Roots
                              /\ call'[t].pc \in {"create"} \cup Updates => call'[t].copy.path \in Paths
    BY <1>1, <1>2, <1>3, CallTyped
  <2>3. QED
    BY <1>1, <1>2, <2>1, <2>2 DEF TypeOK
<1>5. ASSUME OneProcess
      PROVE  /\ \A t \in Servers : FoundHolds(t)'
             /\ ~Overlaps(r, new.path) \/ (Exists(r) /\ new.path = root[r].path)
             /\ (Exists(r) /\ new.path = root[r].path) \/ (~Indexed(r) /\ scan[r].status # "running")
  <2>1. FoundHolds(s) /\ \A t \in Servers : t = s
    BY <1>5 DEF RootsSound, OneProcess
  <2>2. FoundHolds(s)'
    BY <1>3 DEF FoundHolds, Updates
  <2>3. /\ ~Overlaps(r, new.path) \/ (Exists(r) /\ new.path = root[r].path)
        /\ (Exists(r) /\ new.path = root[r].path) \/ (~Indexed(r) /\ scan[r].status # "running")
    BY <1>1, <2>1 DEF FoundHolds, Updates, Active
  <2>4. QED
    BY <2>1, <2>2, <2>3
<1>6. KeepsNewer
  BY <1>1, <1>2, SameHealthIsNewer
<1> HIDE DEF new, r
<1>7. QED
  BY <1>1, <1>2, <1>4, <1>5, <1>6, RootKeeps

LEMMA DeleteRootKeeps ==
    ASSUME RootsSound, NEW s \in Servers, NEW r \in Roots, DeleteRoot(s, r)
    PROVE  RootsSound' /\ KeepsNewer
<1>1. /\ TypeOK /\ call[s].pc = "idle" /\ ~Active(r) /\ ~Indexed(r) /\ edits' = edits + 1
      /\ root' = [root EXCEPT ![r] = Absent] /\ health' = [health EXCEPT ![r] = NoHealth]
      /\ UNCHANGED <<scan, files, call, probe, mounted, clock, scans, flips>>
  BY DEF RootsSound, DeleteRoot, Locked, Edit
<1>2. /\ root' \in [Roots -> RootRows] /\ \A o \in Roots : Exists(o)' => root'[o].path \in Paths
      /\ root'[r] = Absent
  BY <1>1, IdleIsTyped, RootTyped
<1>3. /\ health' \in [Roots -> HealthRows]
      /\ \A o \in Roots : o # r => health'[o] = health[o] /\ health[o].checked \in Nat
  BY <1>1, IdleIsTyped DEF TypeOK, HealthRows
<1>4. TypeOK'
  BY <1>1, <1>2, <1>3 DEF TypeOK
<1>5. KeepsNewer
  BY <1>2, <1>3 DEF KeepsNewer, Exists
<1>6. ASSUME OneProcess PROVE \A t \in Servers : FoundHolds(t)'
  BY <1>1, <1>6 DEF OneProcess, FoundHolds, Updates
<1>7. scan[r].status # "running"
  BY <1>1 DEF Active
<1>8. QED
  BY <1>1, <1>4, <1>5, <1>6, <1>7, IdleIsTyped, RootKeeps

-----------------------------------------------------------------------------
(* Scans.  None is active while a call has found that none is.             *)

LEMMA ScanKeeps ==
    ASSUME RootsSound, TypeOK', NEW r \in Roots, NEW new \in ScanRows, scan' = [scan EXCEPT ![r] = new],
           UNCHANGED <<root, health>>,
           OneProcess =>
             /\ \A o \in Roots, p \in Paths : <<o, p>> \in files' /\ <<o, p>> \notin files =>
                  o = r /\ scan[r] = [status |-> "running", path |-> p]
             /\ new.status = "running" => new.path = root[r].path
             /\ \/ call' = call /\ scan[r].status # "none"
                \/ \A s \in Servers : call'[s].pc = "idle"
    PROVE  RootsSound' /\ KeepsNewer
<1>1. TypeOK /\ scan'[r] = new /\ \A o \in Roots : o # r => scan'[o] = scan[o]
  BY DEF RootsSound, TypeOK
<1>2. KeepsNewer
  BY <1>1, SameHealthIsNewer
<1>3. OneProcess => NoOverlap'
  BY DEF RootsSound, NoOverlap, Exists
<1>4. OneProcess => IndexedPathKept'
  <2> SUFFICES ASSUME OneProcess, NEW o \in Roots, NEW p \in Paths,
                      <<o, p>> \in files' \/ scan'[o] = [status |-> "running", path |-> p]
               PROVE  root'[o].path = p
    BY DEF IndexedPathKept
  <2>1. <<o, p>> \in files \/ scan[o] = [status |-> "running", path |-> p] => root[o].path = p
    BY DEF RootsSound, IndexedPathKept
  <2>2. CASE <<o, p>> \in files'
    BY <2>1, <2>2
  <2>3. CASE scan'[o] = [status |-> "running", path |-> p]
    BY <1>1, <2>1, <2>3
  <2>4. QED
    BY <2>2, <2>3
<1>5. OneProcess => \A s \in Servers : FoundHolds(s)'
  <2> SUFFICES ASSUME OneProcess, NEW s \in Servers PROVE FoundHolds(s)'
    OBVIOUS
  <2>1. FoundHolds(s)
    BY DEF RootsSound
  <2>2. CASE call'[s].pc = "idle"
    BY <2>2 DEF FoundHolds, Updates
  <2>3. CASE call' = call /\ scan[r].status # "none"
    <3>0. PICK o : o = call[s].root /\ o = call'[s].root
      BY <2>3
    <3>1. call[s].pc \in {"overlap", "count", "save"} => o # r /\ o \in Roots
      BY <1>1, <2>1, <2>3, <3>0 DEF FoundHolds, Active, TypeOK, Updates
    <3>2. call[s].pc \in {"overlap", "count", "save"} => ~Active(o)'
      BY <1>1, <2>1, <3>0, <3>1 DEF FoundHolds, Active
    <3>3. o # r /\ o \in Roots /\ ~Indexed(o) => ~Indexed(o)'
      BY DEF Indexed
    <3>4. \A p : Overlaps(o, p)' <=> Overlaps(o, p)
      BY DEF Overlaps, Exists
    <3>5. Exists(o)' <=> Exists(o)
      BY DEF Exists
    <3>6. QED
      BY <2>1, <2>3, <3>0, <3>1, <3>2, <3>3, <3>4, <3>5 DEF FoundHolds
  <2>4. QED
    BY <2>2, <2>3
<1>6. QED
  BY <1>2, <1>3, <1>4, <1>5 DEF RootsSound, OneProcess

LEMMA StartCreatesKeeps ==
    ASSUME RootsSound, NEW s \in Servers, StartCreates(s)
    PROVE  RootsSound' /\ KeepsNewer
<1> DEFINE r == call[s].root
           new == IF Active(r) THEN scan[r] ELSE [scan[r] EXCEPT !.status = "pending"]
<1>1. /\ TypeOK /\ call[s].pc = "start" /\ r \in Roots /\ scan[r] \in ScanRows
      /\ scan[r].status = "running" => scan[r].path \in Paths
      /\ IndexedPathKept \/ ~OneProcess
  BY DEF RootsSound, TypeOK, StartCreates, Locked
<1>2. /\ scan' = [scan EXCEPT ![r] = new] /\ call' = [call EXCEPT ![s] = NoCall]
      /\ UNCHANGED <<root, health, files, probe, mounted, clock, edits, scans, flips>>
  BY <1>1 DEF StartCreates, Returns, counters, TypeOK
<1>3. new \in ScanRows /\ (new.status = "running" => new = scan[r])
  BY <1>1 DEF ScanRows
<1> HIDE DEF new
<1>4. /\ call' \in [Servers -> Calls] /\ call'[s] = NoCall
      /\ \A t \in Servers : /\ call'[t].pc # "idle" => call'[t].root \in Roots
                            /\ call'[t].pc \in {"create"} \cup Updates => call'[t].copy.path \in Paths
  BY <1>1, <1>2, IdleIsTyped, CallTyped DEF Updates
<1>5. scan' \in [Roots -> ScanRows] /\ \A o \in Roots : scan'[o].status = "running" => scan'[o].path \in Paths
  BY <1>1, <1>2, <1>3 DEF TypeOK
<1>6. TypeOK'
  BY <1>1, <1>2, <1>4, <1>5 DEF TypeOK, Exists
<1>7. OneProcess => /\ new.status = "running" => new.path = root[r].path
                    /\ \A t \in Servers : call'[t].pc = "idle"
  <2>1. OneProcess /\ new.status = "running" => new.path = root[r].path
    BY <1>1, <1>3 DEF IndexedPathKept, ScanRows
  <2>2. QED
    BY <1>4, <2>1, IdleIsTyped DEF OneProcess
<1> HIDE DEF r
<1>8. QED
  BY <1>1, <1>2, <1>3, <1>6, <1>7, ScanKeeps

LEMMA ScanStepKeeps ==
    ASSUME RootsSound, NEW r \in Roots, Scan(r)
    PROVE  RootsSound' /\ KeepsNewer
<1>1. /\ TypeOK /\ scan[r] \in ScanRows /\ root[r] \in RootRows
      /\ scan[r].status = "running" => scan[r].path \in Paths
      /\ Exists(r) => root[r].path \in Paths
      /\ OneProcess => IndexedPathKept
  BY DEF RootsSound, TypeOK
<1>2. CASE ScanBegins(r)
  <2> DEFINE new == IF Exists(r) /\ root[r].enabled
                    THEN [status |-> "running", path |-> root[r].path] ELSE NoScan
  <2>1. /\ scan[r].status = "pending" /\ scan' = [scan EXCEPT ![r] = new]
        /\ UNCHANGED <<root, health, files, call, probe, mounted, clock, edits, scans, flips>>
    BY <1>2 DEF ScanBegins, counters
  <2>2. /\ new \in ScanRows /\ (new.status = "running" => new.path = root[r].path /\ new.path \in Paths)
    BY <1>1 DEF NoScan, ScanRows
  <2> HIDE DEF new
  <2>3. TypeOK'
    BY <1>1, <2>1, <2>2 DEF TypeOK, Exists
  <2>4. QED
    BY <2>1, <2>2, <2>3, ScanKeeps
<1>3. CASE ScanIndexes(r)
  <2> DEFINE new == scan[r]
  <2>1. /\ scan[r].status = "running" /\ scan' = scan /\ files' = files \cup {<<r, scan[r].path>>}
        /\ UNCHANGED <<root, health, call, probe, mounted, clock, edits, scans, flips>>
    BY <1>3 DEF ScanIndexes, counters
  <2>2. scan' = [scan EXCEPT ![r] = new] /\ scan[r] = [status |-> "running", path |-> scan[r].path]
    BY <1>1, <2>1 DEF TypeOK, ScanRows
  <2>3. TypeOK'
    BY <1>1, <2>1 DEF TypeOK, Exists
  <2>4. OneProcess => new.path = root[r].path
    BY <1>1, <2>1, <2>2 DEF IndexedPathKept
  <2>5. \A o \in Roots, p \in Paths : <<o, p>> \in files' /\ <<o, p>> \notin files =>
          o = r /\ scan[r] = [status |-> "running", path |-> p]
    BY <2>1, <2>2
  <2>6. QED
    BY <1>1, <2>1, <2>2, <2>3, <2>4, <2>5, ScanKeeps
<1>4. CASE ScanEnds(r)
  <2>1. /\ scan[r].status = "running" /\ scan' = [scan EXCEPT ![r] = NoScan]
        /\ UNCHANGED <<root, health, files, call, probe, mounted, clock, edits, scans, flips>>
    BY <1>4 DEF ScanEnds, counters
  <2>2. TypeOK'
    BY <1>1, <2>1, IdleIsTyped DEF TypeOK, Exists
  <2>3. QED
    BY <2>1, <2>2, IdleIsTyped, ScanKeeps
<1>5. QED
  BY <1>2, <1>3, <1>4 DEF Scan

-----------------------------------------------------------------------------
(* Probes, storage and the clock leave roots, scans, files and calls.      *)

LEMMA RestKeeps ==
    ASSUME RootsSound, TypeOK', UNCHANGED <<root, scan, files, call>>
    PROVE  RootsSound'
<1>1. OneProcess => NoOverlap' /\ IndexedPathKept'
  BY DEF RootsSound, NoOverlap, IndexedPathKept, Exists
<1>2. OneProcess => \A s \in Servers : FoundHolds(s)'
  BY DEF RootsSound, FoundHolds, Overlaps, Exists, Active, Indexed
<1>3. QED
  BY <1>1, <1>2 DEF RootsSound, OneProcess

LEMMA ProbeKeeps ==
    ASSUME RootsSound, NEW q \in Probers, Probe(q)
    PROVE  RootsSound' /\ KeepsNewer
<1>1. TypeOK /\ probe[q] \in Probes /\ (probe[q].pc # "idle" => probe[q].root \in Roots)
      /\ (probe[q].pc = "save" => probe[q].status # "none") /\ clock \in Nat
  BY DEF RootsSound, TypeOK
<1>2. ASSUME NEW h \in Probes, probe' = [probe EXCEPT ![q] = h], h.pc # "idle" => h.root \in Roots,
             h.pc = "save" => h.status # "none", health' \in [Roots -> HealthRows],
             UNCHANGED <<root, scan, files, call, mounted, clock, edits, scans, flips>>
      PROVE  RootsSound'
  <2>1. TypeOK'
    <3>1. /\ probe' \in [Probers -> Probes]
          /\ \A p \in Probers : /\ probe'[p].pc # "idle" => probe'[p].root \in Roots
                                /\ probe'[p].pc = "save" => probe'[p].status # "none"
      BY <1>1, <1>2, ProbeTyped
    <3>2. QED
      BY <1>1, <1>2, <3>1 DEF TypeOK, Exists
  <2>2. QED
    BY <1>2, <2>1, RestKeeps
<1>3. CASE \E r \in Roots : ProbeResolves(q, r)
  <2>1. PICK r \in Roots : ProbeResolves(q, r)
    BY <1>3
  <2> DEFINE h == [NoProbe EXCEPT !.pc = "begin", !.root = r, !.path = root[r].path]
  <2>2. /\ probe' = [probe EXCEPT ![q] = h]
        /\ UNCHANGED <<root, health, scan, files, call, mounted, clock, edits, scans, flips>>
    BY <2>1 DEF ProbeResolves, counters
  <2>3. h \in Probes /\ h.pc = "begin" /\ h.root = r
    BY <1>1 DEF NoProbe, Probes, TypeOK, RootRows
  <2> HIDE DEF h
  <2>4. QED
    BY <1>1, <1>2, <2>2, <2>3, SameHealthIsNewer
<1>4. CASE ProbeBegins(q)
  <2> DEFINE h == [probe[q] EXCEPT !.pc = "look", !.at = clock]
  <2>1. /\ probe[q].pc = "begin" /\ probe' = [probe EXCEPT ![q] = h]
        /\ UNCHANGED <<root, health, scan, files, call, mounted, clock, edits, scans, flips>>
    BY <1>1, <1>4 DEF ProbeBegins, counters, TypeOK
  <2>2. h \in Probes /\ h.pc = "look" /\ h.root = probe[q].root
    BY <1>1 DEF Probes
  <2> HIDE DEF h
  <2>3. QED
    BY <1>1, <1>2, <2>1, <2>2, SameHealthIsNewer
<1>5. CASE ProbeLooks(q)
  <2> DEFINE h == [probe[q] EXCEPT !.pc = "save", !.status =
                     IF probe[q].path \in mounted THEN "online" ELSE "offline"]
  <2>1. /\ probe[q].pc = "look" /\ probe' = [probe EXCEPT ![q] = h]
        /\ UNCHANGED <<root, health, scan, files, call, mounted, clock, edits, scans, flips>>
    BY <1>1, <1>5 DEF ProbeLooks, counters, TypeOK
  <2>2. h \in Probes /\ h.pc = "save" /\ h.root = probe[q].root /\ h.status # "none"
    BY <1>1 DEF Probes
  <2> HIDE DEF h
  <2>3. QED
    BY <1>1, <1>2, <2>1, <2>2, SameHealthIsNewer
<1>6. CASE ProbeSaves(q)
  <2> DEFINE n == [status |-> probe[q].status, checked |-> probe[q].at, path |-> probe[q].path]
             r == probe[q].root
  <2>1. /\ probe[q].pc = "save" /\ health' = Upsert(r, n) /\ probe' = [probe EXCEPT ![q] = NoProbe]
        /\ UNCHANGED <<root, scan, files, call, mounted, clock, edits, scans, flips>>
    BY <1>6 DEF ProbeSaves, counters
  <2>2. n \in HealthRows /\ r \in Roots
    BY <1>1, <2>1 DEF Probes, HealthRows
  <2> HIDE DEF n, r
  <2>3. KeepsNewer /\ health' \in [Roots -> HealthRows]
    BY <1>1, <2>1, <2>2, UpsertTyped DEF KeepsNewer
  <2>4. QED
    BY <1>1, <1>2, <2>1, <2>3, IdleIsTyped
<1>7. QED
  BY <1>3, <1>4, <1>5, <1>6 DEF Probe

LEMMA OutsideKeeps ==
    ASSUME RootsSound, \/ \E p \in Paths : Flip(p)
                       \/ Tick \/ UNCHANGED vars
    PROVE  RootsSound' /\ KeepsNewer
<1>1. TypeOK
  BY DEF RootsSound
<1>2. UNCHANGED <<root, health, scan, files, call, probe>>
  BY DEF Flip, Tick, vars
<1>3. TypeOK'
  <2>1. CASE \E p \in Paths : Flip(p)
    BY <1>1, <1>2, <2>1 DEF TypeOK, Exists, Flip
  <2>2. CASE Tick
    BY <1>1, <1>2, <2>2 DEF TypeOK, Exists, Tick
  <2>3. CASE UNCHANGED vars
    BY <1>1, <1>2, <2>3 DEF TypeOK, Exists, vars
  <2>4. QED
    BY <2>1, <2>2, <2>3
<1>4. QED
  BY <1>1, <1>2, <1>3, RestKeeps, SameHealthIsNewer

-----------------------------------------------------------------------------
LEMMA InitSound == Init => RootsSound
<1> SUFFICES ASSUME Init PROVE RootsSound
  OBVIOUS
<1>1. TypeOK
  BY InitTyped
<1>2. \A s \in Servers : call[s].pc = "idle"
  BY DEF Init, NoCall
<1>3. \A s \in Servers : FoundHolds(s)
  BY <1>2 DEF FoundHolds, Updates
<1>4. NoOverlap
  <2>1. \A r \in Roots :
          IF r \in DOMAIN FirstRoots THEN root[r].path = FirstRoots[r] ELSE ~Exists(r)
    BY DEF Init, Exists
  <2>2. QED
    BY <2>1, RootConstants DEF NoOverlap
<1>5. IndexedPathKept
  BY DEF Init, IndexedPathKept, NoScan
<1>6. QED
  BY <1>1, <1>3, <1>4, <1>5 DEF RootsSound

LEMMA NextKeeps == RootsSound /\ [Next]_vars => RootsSound' /\ KeepsNewer
<1> SUFFICES ASSUME RootsSound, [Next]_vars PROVE RootsSound' /\ KeepsNewer
  OBVIOUS
<1>1. CASE \E s \in Servers : Call(s)
  <2>1. PICK s \in Servers : Call(s)
    BY <1>1
  <2>2. CASE \E r \in Roots, p \in Paths : CreateChecks(s, r, p)
    BY <2>2, CreateChecksKeeps
  <2>3. CASE \E r \in Roots, p \in Paths, e \in BOOLEAN : UpdateFinds(s, r, p, e)
    BY <2>3, UpdateFindsKeeps
  <2>4. CASE \E r \in Roots : DeleteRoot(s, r)
    BY <2>4, DeleteRootKeeps
  <2>5. CASE \E r \in Roots : StartFinds(s, r)
    BY <2>5, StartFindsKeeps
  <2>6. QED
    BY <2>1, <2>2, <2>3, <2>4, <2>5, CreateInsertsKeeps, UpdateChecksKeep, UpdateSavesKeeps,
       UpdateResetsKeeps, StartCreatesKeeps DEF Call
<1>2. CASE \E r \in Roots : Scan(r)
  BY <1>2, ScanStepKeeps
<1>3. CASE \E q \in Probers : Probe(q)
  BY <1>3, ProbeKeeps
<1>4. QED
  BY <1>1, <1>2, <1>3, OutsideKeeps DEF Next

\* In one process roots never overlap and keep the path their files were
\* indexed under (CreateRoot, UpdateRoot, DeleteRoot, StartScan).
THEOREM RootsKeepTheirFiles == Spec => []RootsSound
<1>1. Init => RootsSound
  BY InitSound
<1>2. RootsSound /\ [Next]_vars => RootsSound'
  BY NextKeeps
<1>3. QED
  BY <1>1, <1>2, PTL DEF Spec

\* In any number of processes, a check never replaces the record of a newer
\* check of the same root (UpsertRootState).
THEOREM NewerChecksStay == Spec => HealthMonotone
<1>1. Init => RootsSound
  BY InitSound
<1>2. RootsSound /\ [Next]_vars => RootsSound'
  BY NextKeeps
<1>3. RootsSound /\ [Next]_vars => [KeepsNewer]_vars
  BY NextKeeps
<1>4. QED
  BY <1>1, <1>2, <1>3, PTL DEF Spec, HealthMonotone

-----------------------------------------------------------------------------
(* MediaProbe.                                                             *)

LEMMA ClassifiedShape ==
    ASSUME spec \in Specs, NEW e \in Errors, NEW isRoot \in BOOLEAN
    PROVE  \A r \in {Classified(e, isRoot), ClassifiedTarget(e), ClassifiedTarget("not_exist")} :
             /\ r \in Results /\ r.status = "offline"
             /\ ~r.retryable => r.code = "permission_denied"
<1>1. \A code \in Codes, b \in BOOLEAN :
        Failed(code, b) \in Results /\ Failed(code, b).status = "offline"
        /\ Failed(code, b).code = code /\ Failed(code, b).retryable = b
  BY DEF Failed, Results
<1>2. ASSUME NEW x \in {"not_exist", "permission", "stale", "timeout", "other"}, NEW b \in BOOLEAN
      PROVE  /\ Classified(x, b) \in Results /\ Classified(x, b).status = "offline"
             /\ ~Classified(x, b).retryable => Classified(x, b).code = "permission_denied"
  <2>1. CASE x = "not_exist"
    BY ZenonT(40), <1>1, <2>1 DEF Classified, Codes
  <2>2. CASE x = "permission"
    BY <1>1, <2>2 DEF Classified, Codes
  <2>3. CASE x \in {"stale", "timeout", "other"}
    BY ZenonT(40), <1>1, <2>3 DEF Classified, Codes
  <2>4. QED
    BY <2>1, <2>2, <2>3
<1>3. e \in {"not_exist", "permission", "stale", "timeout", "other"} /\ spec.sentinel \in BOOLEAN
  BY ProbeConstants DEF Specs
<1>4. /\ Classified(e, isRoot) \in Results /\ Classified(e, isRoot).status = "offline"
      /\ ~Classified(e, isRoot).retryable => Classified(e, isRoot).code = "permission_denied"
  BY <1>2, <1>3
<1>5. ASSUME NEW x \in {"not_exist", "permission", "stale", "timeout", "other"}
      PROVE  /\ ClassifiedTarget(x) \in Results /\ ClassifiedTarget(x).status = "offline"
             /\ ~ClassifiedTarget(x).retryable => ClassifiedTarget(x).code = "permission_denied"
  <2>1. CASE spec.sentinel /\ x = "not_exist"
    BY <1>1, <2>1 DEF ClassifiedTarget, Codes
  <2>2. CASE ~(spec.sentinel /\ x = "not_exist")
    <3>1. ClassifiedTarget(x) = Classified(x, ~spec.sentinel)
      BY <2>2 DEF ClassifiedTarget
    <3>2. QED
      BY ZenonT(40), <1>2, <1>3, <3>1
  <2>3. QED
    BY <2>1, <2>2
<1>6. QED
  BY <1>3, <1>4, <1>5

\* A look that ends the probe, or that passes to the next one.
LEMMA LookKeeps ==
    ASSUME ProbeSound, pc # "done", NEW next \in Points \cup {"done"}, Look(next),
           result' \in Results, warned' \in BOOLEAN,
           next = "done" <=> result'.status # "unknown",
           next # "done" => result' = Unknown,
           result'.status \in {"online", "degraded"} => pc = "read" /\ (spec.sentinel => attached),
           result'.status = "online" => ~warned',
           result'.status = "offline" /\ ~result'.retryable =>
             \/ result'.code \in {"permission_denied", "not_directory"}
             \/ result'.code = "invalid_probe_file" /\ pc = "stat" /\ attached,
           ~warned' => ~warned /\ (pc = "mount" /\ next # "done" => ~Mismatch(MountTable)),
           next \in {"stat", "read"} => pc \in {"mount", "stat"}
    PROVE  ProbeSound'
<1>1. /\ ProbeTypeOK /\ pc \in Points /\ pc' = next /\ seen' = [seen EXCEPT ![pc] = attached]
      /\ UNCHANGED <<spec, attached, moves>>
  BY DEF ProbeSound, ProbeTypeOK, Look
<1>2. /\ seen' \in [Points -> BOOLEAN] /\ seen'[pc] = attached
      /\ \A x \in Points : x # pc => seen'[x] = seen[x]
  BY <1>1 DEF ProbeTypeOK
<1>3. ProbeTypeOK'
  BY <1>1, <1>2 DEF ProbeTypeOK
<1>4. \A x : Mismatch(x)' <=> Mismatch(x)
  BY <1>1 DEF Mismatch
<1>5. pc = "mount" /\ ~Mismatch(MountTable) /\ Mismatch(LocalFs) => attached
  BY DEF MountTable
<1>6. MountSeen'
  BY <1>1, <1>2, <1>4, <1>5 DEF MountSeen, ProbeSound, Points
<1>7. AvailableProved'
  BY <1>1, <1>2, <1>4 DEF AvailableProved, MountSeen, ProbeSound, Points
<1>8. AwayIsRetryable'
  BY <1>1, <1>2 DEF AwayIsRetryable, Points
<1>9. QED
  BY <1>1, <1>3, <1>6, <1>7, <1>8 DEF ProbeSound

\* What a probe that ended did not see it does not report (mediafs.Probe).
THEOREM ProbeReportsWhatItSaw == ProbeSpec => []ProbeSound
<1>1. ProbeInit => ProbeSound
  <2> SUFFICES ASSUME ProbeInit PROVE ProbeSound
    OBVIOUS
  <2>1. /\ spec \in Specs /\ attached \in BOOLEAN /\ pc = "root" /\ warned = FALSE /\ moves = 0
        /\ result = Unknown /\ Unknown \in Results /\ Unknown.status = "unknown"
        /\ seen \in [Points -> BOOLEAN]
    BY DEF ProbeInit, Unknown, Results, Points, Codes
  <2>2. ProbeTypeOK
    BY <2>1 DEF ProbeTypeOK, Points
  <2>3. QED
    BY <2>1, <2>2 DEF ProbeSound, AvailableProved, AwayIsRetryable, MountSeen
<1>2. ProbeSound /\ [ProbeNext]_probeVars => ProbeSound'
  <2> SUFFICES ASSUME ProbeSound, [ProbeNext]_probeVars PROVE ProbeSound'
    OBVIOUS
  <2>1. /\ ProbeTypeOK /\ spec \in Specs /\ spec.sentinel \in BOOLEAN
        /\ pc # "done" => result = Unknown
        /\ result \in Results /\ warned \in BOOLEAN
    BY DEF ProbeSound, ProbeTypeOK, Specs
  <2>2. /\ Unknown \in Results /\ Unknown.status = "unknown"
        /\ \A code \in Codes, b \in BOOLEAN :
             Failed(code, b) \in Results /\ Failed(code, b).status = "offline"
             /\ Failed(code, b).code = code /\ Failed(code, b).retryable = b
    BY DEF Failed, Results, Unknown, Codes
  <2>3. CASE LooksAtRoot
    <3>1. pc = "root" /\ warned' = warned
      BY <2>3 DEF LooksAtRoot
    <3>2. CASE Passes("mount")
      BY <2>1, <2>2, <3>1, <3>2, LookKeeps DEF Passes, Points
    <3>3. CASE Fails(Failed("not_directory", FALSE))
      BY <2>1, <2>2, <3>1, <3>3, LookKeeps DEF Fails, Codes
    <3>4. ASSUME NEW e \in Errors, Fails(Classified(e, TRUE)) PROVE ProbeSound'
      BY <2>1, <3>1, <3>4, ClassifiedShape, LookKeeps DEF Fails, Codes
    <3>5. QED
      BY <2>3, <3>2, <3>3, <3>4 DEF LooksAtRoot
  <2>4. CASE LooksAtMount
    <3>1. pc = "mount" /\ Target \in {"stat", "read"}
      BY <2>4 DEF LooksAtMount, Target
    <3>2. CASE Fails(Failed("mount_mismatch", TRUE)) /\ UNCHANGED warned
      BY <2>1, <2>2, <3>1, <3>2, LookKeeps DEF Fails, Codes
    <3>3. CASE ~Mismatch(MountTable) /\ Passes(Target) /\ UNCHANGED warned
      BY <2>1, <2>2, <3>1, <3>3, LookKeeps DEF Passes, Points
    <3>4. CASE Passes(Target) /\ warned' = TRUE
      BY <2>1, <2>2, <3>1, <3>4, LookKeeps DEF Passes, Points
    <3>5. ASSUME NEW e \in Errors, Fails(Classified(e, TRUE)), UNCHANGED warned PROVE ProbeSound'
      BY <2>1, <3>1, <3>5, ClassifiedShape, LookKeeps DEF Fails, Codes
    <3>6. QED
      BY <2>4, <3>2, <3>3, <3>4, <3>5 DEF LooksAtMount
  <2>5. CASE LooksForSentinel
    <3>1. pc = "stat" /\ warned' = warned
      BY <2>5 DEF LooksForSentinel
    <3>2. CASE attached /\ Passes("read")
      BY <2>1, <2>2, <3>1, <3>2, LookKeeps DEF Passes, Points
    <3>3. CASE attached /\ Fails(Failed("invalid_probe_file", FALSE))
      BY <2>1, <2>2, <3>1, <3>3, LookKeeps DEF Fails, Codes
    <3>4. CASE Fails(ClassifiedTarget("not_exist"))
      <4>1. /\ ClassifiedTarget("not_exist") \in Results /\ ClassifiedTarget("not_exist").status = "offline"
            /\ ClassifiedTarget("not_exist").retryable
        BY ZenonT(40), <2>1, <2>2 DEF ClassifiedTarget, Classified, Codes
      <4>2. QED
        BY <2>1, <3>1, <3>4, <4>1, LookKeeps DEF Fails, Codes
    <3>5. ASSUME NEW e \in Errors, Fails(ClassifiedTarget(e)) PROVE ProbeSound'
      BY <2>1, <3>1, <3>5, ClassifiedShape, LookKeeps DEF Fails, Codes
    <3>6. QED
      BY <2>5, <3>2, <3>3, <3>4, <3>5 DEF LooksForSentinel
  <2>6. CASE ReadsTarget
    <3>1. pc = "read" /\ warned' = warned
      BY <2>6 DEF ReadsTarget
    <3>2. CASE (spec.sentinel => attached) /\ Fails(Available)
      <4>1. /\ Available \in Results /\ Available.status \in {"online", "degraded"}
            /\ Available.status = "online" => ~warned
        BY <2>1 DEF Available, Results, Codes
      <4>2. QED
        BY <2>1, <3>1, <3>2, <4>1, LookKeeps DEF Fails, Codes
    <3>3. CASE Fails(ClassifiedTarget("not_exist"))
      <4>1. /\ ClassifiedTarget("not_exist") \in Results /\ ClassifiedTarget("not_exist").status = "offline"
            /\ ClassifiedTarget("not_exist").retryable
        BY ZenonT(40), <2>1, <2>2 DEF ClassifiedTarget, Classified, Codes
      <4>2. QED
        BY <2>1, <3>1, <3>3, <4>1, LookKeeps DEF Fails, Codes
    <3>4. ASSUME NEW e \in Errors, Fails(ClassifiedTarget(e)) PROVE ProbeSound'
      BY <2>1, <3>1, <3>4, ClassifiedShape, LookKeeps DEF Fails, Codes
    <3>5. QED
      BY <2>6, <3>2, <3>3, <3>4 DEF ReadsTarget
  <2>7. CASE Remount \/ UNCHANGED probeVars
    <3>1. UNCHANGED <<spec, pc, result, warned, seen>>
      BY <2>7 DEF Remount, probeVars
    <3>2. attached' \in BOOLEAN /\ moves' \in Nat
      <4>1. attached \in BOOLEAN /\ moves \in Nat
        BY <2>1 DEF ProbeTypeOK
      <4>2. attached' = ~attached \/ attached' = attached
        BY <2>7 DEF Remount, probeVars
      <4>3. moves' = moves + 1 \/ moves' = moves
        BY <2>7 DEF Remount, probeVars
      <4>4. attached' \in BOOLEAN
        BY <4>1, <4>2
      <4>5. QED
        BY <4>1, <4>3, <4>4
    <3>3. QED
      BY <3>1, <3>2 DEF ProbeSound, ProbeTypeOK, AvailableProved, AwayIsRetryable, MountSeen, Mismatch
  <2>8. QED
    BY <2>3, <2>4, <2>5, <2>6, <2>7 DEF ProbeNext
<1>3. QED
  BY <1>1, <1>2, PTL DEF ProbeSpec
=============================================================================
