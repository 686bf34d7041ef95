------------------------------ MODULE MediaRoots ------------------------------
(***************************************************************************)
(* The registered roots of the media library: administrators who create,   *)
(* change and delete roots and start scans, in server processes that each  *)
(* serialise these calls with a mutex (rootMu) and share the database; the *)
(* scans that index files under a root's path; and the probes that record  *)
(* the health of a root's storage, which nothing serialises.               *)
(*                                                                         *)
(* A path is the sequence of its elements.  Scans appear only by what they *)
(* mean for roots: they are started, resolve the root, index files and end *)
(* (MediaScan has the rest).                                               *)
(***************************************************************************)
EXTENDS Naturals, SequencesExt

CONSTANTS
    Roots,     \* ids of the table media_library_roots
    Paths,     \* directories an administrator may register
    ManagedPath, \* server.upload_dir
    Servers,   \* processes, each with its rootMu
    Probers,   \* probes in flight
    NoRoot,
    FirstRoots,  \* the roots registered at the start, with their paths
    MaxEdits,  \* bounds of the model: changes, scans
    MaxScans,
    MaxFlips,  \* losses and returns of storage
    MaxClock   \* the clock stops here

\* filesystemPathsOverlap.
Overlap(p, q) == IsPrefix(p, q) \/ IsPrefix(q, p)

\* The roots that are registered at the start passed the check of CreateRoot;
\* "/" is a prefix of the managed directory and cannot be registered.
ASSUME RootConstants ==
    /\ NoRoot \notin Roots /\ <<>> \notin Paths
    /\ \A r \in DOMAIN FirstRoots :
         /\ r \in Roots /\ FirstRoots[r] \in Paths /\ ~Overlap(ManagedPath, FirstRoots[r])
         /\ \A o \in DOMAIN FirstRoots \ {r} : ~Overlap(FirstRoots[o], FirstRoots[r])
    /\ MaxEdits \in Nat /\ MaxScans \in Nat /\ MaxFlips \in Nat /\ MaxClock \in Nat

VARIABLES
    root,    \* media_library_roots
    health,  \* media_library_root_states
    scan,    \* the active scan of each root
    files,   \* media_files: root and the path it was indexed under
    call,    \* what each process's administrator holds, within rootMu
    probe,   \* what each probe holds
    mounted, \* the paths whose storage can be read
    clock, edits, scans, flips

vars == <<root, health, scan, files, call, probe, mounted, clock, edits, scans, flips>>
counters == <<clock, edits, scans, flips>>

Absent == [path |-> <<>>, enabled |-> FALSE]
Exists(r) == root[r] # Absent

NoHealth == [status |-> "none", checked |-> 0, path |-> <<>>]
NoScan == [status |-> "none", path |-> <<>>]
NoCall == [pc |-> "idle", root |-> NoRoot, copy |-> Absent, moved |-> FALSE]
NoProbe == [pc |-> "idle", root |-> NoRoot, path |-> <<>>, at |-> 0, status |-> "none"]

\* ensureRootDoesNotOverlap.
Overlaps(r, p) ==
    \/ Overlap(ManagedPath, p)
    \/ \E o \in Roots \ {r} : Exists(o) /\ Overlap(root[o].path, p)

Active(r) == scan[r].status # "none"
Indexed(r) == \E p \in Paths : <<r, p>> \in files

Edit == edits < MaxEdits /\ edits' = edits + 1
Locked(s, pc) == call[s].pc = pc   \* the process's call has rootMu
Goes(s, pc) == call' = [call EXCEPT ![s].pc = pc]
Returns(s) == call' = [call EXCEPT ![s] = NoCall]

-----------------------------------------------------------------------------
(* CreateRoot.                                                             *)

CreateChecks(s, r, p) ==
    /\ Locked(s, "idle") /\ Edit
    /\ ~Overlaps(r, p)
    /\ call' = [call EXCEPT ![s] = [NoCall EXCEPT !.pc = "create", !.root = r,
                                      !.copy = [path |-> p, enabled |-> TRUE]]]
    /\ UNCHANGED <<root, health, scan, files, probe, mounted, clock, scans, flips>>

CreateInserts(s) ==
    /\ Locked(s, "create")
    /\ root' = IF Exists(call[s].root) THEN root   \* the id is taken: another one
               ELSE [root EXCEPT ![call[s].root] = call[s].copy]
    /\ Returns(s)
    /\ UNCHANGED <<health, scan, files, probe, mounted, counters>>

-----------------------------------------------------------------------------
(* UpdateRoot: one step per query.                                         *)

UpdateFinds(s, r, p, enabled) ==
    /\ Locked(s, "idle") /\ Edit
    /\ Exists(r)
    /\ call' = [call EXCEPT ![s] = [pc |-> "active", root |-> r,
                  copy |-> [path |-> p, enabled |-> enabled],
                  moved |-> p # root[r].path]]
    /\ UNCHANGED <<root, health, scan, files, probe, mounted, clock, scans, flips>>

UpdateChecksScan(s) ==
    /\ Locked(s, "active")
    /\ IF Active(call[s].root) THEN Returns(s)
       ELSE Goes(s, IF call[s].moved THEN "overlap" ELSE "save")
    /\ UNCHANGED <<root, health, scan, files, probe, mounted, counters>>

UpdateChecksOverlap(s) ==
    /\ Locked(s, "overlap")
    /\ IF Overlaps(call[s].root, call[s].copy.path) THEN Returns(s) ELSE Goes(s, "count")
    /\ UNCHANGED <<root, health, scan, files, probe, mounted, counters>>

\* Mutation: a root with tracks may move.
UpdateCountsNothing(s) ==
    /\ Locked(s, "count")
    /\ Goes(s, "save")
    /\ UNCHANGED <<root, health, scan, files, probe, mounted, counters>>

UpdateCountsMusic(s) ==
    /\ Locked(s, "count")
    /\ IF Indexed(call[s].root) THEN Returns(s) ELSE Goes(s, "save")
    /\ UNCHANGED <<root, health, scan, files, probe, mounted, counters>>

\* Save writes the whole row and brings back one that was deleted meanwhile.
UpdateSaves(s) ==
    /\ Locked(s, "save")
    /\ root' = [root EXCEPT ![call[s].root] = call[s].copy]
    /\ Goes(s, "reset")
    /\ UNCHANGED <<health, scan, files, probe, mounted, counters>>

\* Mutation: the last writer wins.
UpsertAlways(r, h) == [health EXCEPT ![r] = h]

\* The WHERE clause of UpsertRootState: never over a newer check.
Upsert(r, h) ==
    IF h.checked >= health[r].checked THEN [health EXCEPT ![r] = h] ELSE health

\* checkedAt is the time after the save.
UpdateResets(s) ==
    /\ Locked(s, "reset")
    /\ health' = Upsert(call[s].root,
                   [status |-> "unknown", checked |-> clock, path |-> call[s].copy.path])
    /\ Returns(s)
    /\ UNCHANGED <<root, scan, files, probe, mounted, counters>>

-----------------------------------------------------------------------------
(* DeleteRoot is one transaction.                                          *)

DeleteRoot(s, r) ==
    /\ Locked(s, "idle") /\ Edit
    /\ Exists(r) /\ ~Active(r) /\ ~Indexed(r)
    /\ root' = [root EXCEPT ![r] = Absent]
    /\ health' = [health EXCEPT ![r] = NoHealth]
    /\ UNCHANGED <<scan, files, call, probe, mounted, clock, scans, flips>>

-----------------------------------------------------------------------------
(* StartScan and what a scan does to its root.                             *)

StartFinds(s, r) ==
    /\ Locked(s, "idle") /\ scans < MaxScans /\ scans' = scans + 1
    /\ Exists(r) /\ root[r].enabled
    /\ call' = [call EXCEPT ![s] = [NoCall EXCEPT !.pc = "start", !.root = r]]
    /\ UNCHANGED <<root, health, scan, files, probe, mounted, clock, edits, flips>>

StartCreates(s) ==
    /\ Locked(s, "start")
    /\ scan' = IF Active(call[s].root) THEN scan
               ELSE [scan EXCEPT ![call[s].root].status = "pending"]
    /\ Returns(s)
    /\ UNCHANGED <<root, health, files, probe, mounted, counters>>

\* runScanJob resolves the root; a scan of a missing or disabled root fails.
ScanBegins(r) ==
    /\ scan[r].status = "pending"
    /\ scan' = [scan EXCEPT ![r] = IF Exists(r) /\ root[r].enabled
                  THEN [status |-> "running", path |-> root[r].path] ELSE NoScan]
    /\ UNCHANGED <<root, health, files, call, probe, mounted, counters>>

ScanIndexes(r) ==
    /\ scan[r].status = "running"
    /\ files' = files \cup {<<r, scan[r].path>>}
    /\ UNCHANGED <<root, health, scan, call, probe, mounted, counters>>

ScanEnds(r) ==
    /\ scan[r].status = "running"
    /\ scan' = [scan EXCEPT ![r] = NoScan]
    /\ UNCHANGED <<root, health, files, call, probe, mounted, counters>>

-----------------------------------------------------------------------------
(* probeResolvedRoot, by the health worker, an administrator, a scan or a  *)
(* playback request.  The root is resolved first, the time is taken when   *)
(* Probe begins, and the storage is looked at some time later.             *)

ProbeResolves(q, r) ==
    /\ probe[q].pc = "idle" /\ Exists(r) /\ root[r].enabled
    /\ probe' = [probe EXCEPT ![q] = [NoProbe EXCEPT !.pc = "begin", !.root = r,
                                        !.path = root[r].path]]
    /\ UNCHANGED <<root, health, scan, files, call, mounted, counters>>

ProbeBegins(q) ==
    /\ probe[q].pc = "begin"
    /\ probe' = [probe EXCEPT ![q].pc = "look", ![q].at = clock]
    /\ UNCHANGED <<root, health, scan, files, call, mounted, counters>>

ProbeLooks(q) ==
    /\ probe[q].pc = "look"
    /\ probe' = [probe EXCEPT ![q].pc = "save", ![q].status =
                   IF probe[q].path \in mounted THEN "online" ELSE "offline"]
    /\ UNCHANGED <<root, health, scan, files, call, mounted, counters>>

\* Mutation: only successes are recorded.
ProbeSavesSuccess(q) ==
    /\ probe[q].pc = "save"
    /\ health' = IF probe[q].status = "offline" THEN health
                 ELSE Upsert(probe[q].root, [status |-> probe[q].status,
                        checked |-> probe[q].at, path |-> probe[q].path])
    /\ probe' = [probe EXCEPT ![q] = NoProbe]
    /\ UNCHANGED <<root, scan, files, call, mounted, counters>>

ProbeSaves(q) ==
    /\ probe[q].pc = "save"
    /\ health' = Upsert(probe[q].root, [status |-> probe[q].status,
                   checked |-> probe[q].at, path |-> probe[q].path])
    /\ probe' = [probe EXCEPT ![q] = NoProbe]
    /\ UNCHANGED <<root, scan, files, call, mounted, counters>>

Flip(p) ==
    /\ flips < MaxFlips /\ flips' = flips + 1
    /\ mounted' = IF p \in mounted THEN mounted \ {p} ELSE mounted \cup {p}
    /\ UNCHANGED <<root, health, scan, files, call, probe, clock, edits, scans>>

Tick ==
    /\ clock < MaxClock /\ clock' = clock + 1
    /\ UNCHANGED <<root, health, scan, files, call, probe, mounted, edits, scans, flips>>

-----------------------------------------------------------------------------
Init ==
    /\ root = [r \in Roots |-> IF r \in DOMAIN FirstRoots
                 THEN [path |-> FirstRoots[r], enabled |-> TRUE] ELSE Absent]
    /\ health = [r \in Roots |-> NoHealth]
    /\ scan = [r \in Roots |-> NoScan]
    /\ files = {}
    /\ call = [s \in Servers |-> NoCall]
    /\ probe = [q \in Probers |-> NoProbe]
    /\ mounted = Paths
    /\ clock = 1 /\ edits = 0 /\ scans = 0 /\ flips = 0

Call(s) ==
    \/ \E r \in Roots :
         \/ \E p \in Paths : CreateChecks(s, r, p)
         \/ \E p \in Paths, e \in BOOLEAN : UpdateFinds(s, r, p, e)
         \/ DeleteRoot(s, r) \/ StartFinds(s, r)
    \/ CreateInserts(s) \/ UpdateChecksScan(s) \/ UpdateChecksOverlap(s)
    \/ UpdateCountsMusic(s) \/ UpdateSaves(s) \/ UpdateResets(s) \/ StartCreates(s)

Scan(r) == ScanBegins(r) \/ ScanIndexes(r) \/ ScanEnds(r)

Probe(q) ==
    \/ \E r \in Roots : ProbeResolves(q, r)
    \/ ProbeBegins(q) \/ ProbeLooks(q) \/ ProbeSaves(q)

Next ==
    \/ \E s \in Servers : Call(s)
    \/ \E r \in Roots : Scan(r)
    \/ \E q \in Probers : Probe(q)
    \/ \E p \in Paths : Flip(p)
    \/ Tick

Spec == Init /\ [][Next]_vars

\* healthWorker ticks for ever and probes every enabled root; calls return.
Fairness ==
    /\ \A q \in Probers : WF_vars(Probe(q))
    /\ \A q \in Probers, r \in Roots : SF_vars(ProbeResolves(q, r))
    /\ WF_vars(Tick)

FairSpec == Spec /\ Fairness

-----------------------------------------------------------------------------
RootRows == [path : Paths \cup {<<>>}, enabled : BOOLEAN]
HealthRows == [status : {"none", "unknown", "online", "offline"}, checked : Nat, path : Paths \cup {<<>>}]
ScanRows == [status : {"none", "pending", "running"}, path : Paths \cup {<<>>}]
Updates == {"active", "overlap", "count", "save", "reset"}
Calls == [pc : {"idle", "create", "start"} \cup Updates, root : Roots \cup {NoRoot},
          copy : RootRows, moved : BOOLEAN]
Probes == [pc : {"idle", "begin", "look", "save"}, root : Roots \cup {NoRoot},
           path : Paths \cup {<<>>}, at : Nat, status : {"none", "online", "offline"}]

\* Every variable has its type.
TypeOK ==
    /\ root \in [Roots -> RootRows] /\ \A r \in Roots : Exists(r) => root[r].path \in Paths
    /\ health \in [Roots -> HealthRows]
    /\ scan \in [Roots -> ScanRows]
    /\ \A r \in Roots : scan[r].status = "running" => scan[r].path \in Paths
    /\ files \subseteq Roots \X Paths /\ mounted \subseteq Paths
    /\ call \in [Servers -> Calls] /\ probe \in [Probers -> Probes]
    /\ \A s \in Servers : /\ call[s].pc # "idle" => call[s].root \in Roots
                          /\ call[s].pc \in {"create"} \cup Updates => call[s].copy.path \in Paths
    /\ \A q \in Probers : /\ probe[q].pc # "idle" => probe[q].root \in Roots
                          /\ probe[q].pc = "save" => probe[q].status # "none"
    /\ clock \in Nat /\ edits \in Nat /\ scans \in Nat /\ flips \in Nat

\* Registered roots overlap neither each other nor the managed directory
\* (ErrMediaRootOverlap), so that a file has one source key.
NoOverlap ==
    \A r, o \in Roots :
      Exists(r) => /\ ~Overlap(ManagedPath, root[r].path)
                   /\ Exists(o) /\ r # o => ~Overlap(root[o].path, root[r].path)

\* Indexed files belong to a root that exists and still has the path they were
\* indexed under (ErrMediaRootPathLocked, ErrMediaRootInUse); so does a scan
\* that is running.
IndexedPathKept ==
    \A r \in Roots : \A p \in Paths :
      (<<r, p>> \in files \/ scan[r] = [status |-> "running", path |-> p])
        => root[r].path = p

\* What a call has found out still holds while it has the mutex.
FoundHolds(s) ==
    LET r == call[s].root  at == call[s].pc IN
    /\ at = "create" => ~Overlaps(r, call[s].copy.path)
    /\ at \in Updates \ {"reset"} =>
         Exists(r) /\ call[s].moved = (call[s].copy.path # root[r].path)
    /\ at \in {"overlap", "count"} => call[s].moved
    /\ at \in {"overlap", "count", "save"} => ~Active(r)
    /\ at \in {"count", "save"} /\ call[s].moved => ~Overlaps(r, call[s].copy.path)
    /\ at = "save" /\ call[s].moved => ~Indexed(r)

OneProcess == \A s, t \in Servers : s = t

\* If one process changes roots, its mutex suffices: they overlap neither each
\* other nor the managed directory, indexed files belong to a root that still
\* has their path, and so does a running scan.
RootsSound ==
    /\ TypeOK
    /\ OneProcess => NoOverlap /\ IndexedPathKept /\ \A s \in Servers : FoundHolds(s)

\* A check never replaces the record of a newer check of the same root,
\* however long it took (UpsertRootState).
KeepsNewer ==
    \A r \in Roots : Exists(r) /\ Exists(r)' =>
        health'[r].checked >= health[r].checked

HealthMonotone == [][KeepsNewer]_vars

\* Recorded health is that of the storage the root has now: a change of the
\* path resets it (media_library_service.go:245). It fails: a probe that read
\* the old path may begin its record after the reset.
HealthOfCurrentPath ==
    \A r \in Roots :
      (Exists(r) /\ health[r].status \in {"online", "offline"}
        /\ \A s \in Servers : call[s].pc # "reset") => health[r].path = root[r].path

\* The health of an enabled root is what its storage is (healthWorker).
HealthIsTrue(r) ==
    Exists(r) /\ root[r].enabled =>
      health[r].status = IF root[r].path \in mounted THEN "online" ELSE "offline"
=============================================================================
