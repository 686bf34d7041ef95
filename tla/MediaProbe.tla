------------------------------ MODULE MediaProbe ------------------------------
(***************************************************************************)
(* One probe of a storage root (mediafs.Probe) against storage that is     *)
(* mounted and unmounted while the probe runs.  Under the mount point lies *)
(* an ordinary directory, which is what an unmounted root shows.           *)
(*                                                                         *)
(* A step is one look at the system: Lstat of the root, the mount table,   *)
(* Lstat and read of the probe target.  What a look finds depends on       *)
(* whether the storage is mounted at that moment, and may be an error.     *)
(***************************************************************************)
EXTENDS Naturals

CONSTANTS
    Kinds,       \* storage_kind: "auto", "local", "managed", "nfs", "smb"
    Filesystems, \* what may be mounted
    LocalFs,     \* the filesystem under the mount point
    Errors,      \* errors of a look: classes of classifyError
    MaxMoves     \* bound of the model: mounts and unmounts

ASSUME ProbeConstants ==
    /\ LocalFs \in Filesystems /\ MaxMoves \in Nat
    /\ Errors \subseteq {"not_exist", "permission", "stale", "timeout", "other"}

VARIABLES
    spec,    \* the RootSpec and the storage's own filesystem
    attached, \* is the storage mounted?
    pc,      \* the next look
    result,  \* status, code and retryable of the Result
    warned,  \* is the identity of the mount unknown?
    seen,    \* history: was the storage mounted at each look
    moves

probeVars == <<spec, attached, pc, result, warned, seen, moves>>

Specs == [kind : Kinds, expected : Filesystems \cup {""}, sentinel : BOOLEAN,
          fs : Filesystems]

Unknown == [status |-> "unknown", code |-> "not_checked", retryable |-> FALSE]

Failed(code, retryable) ==
    [status |-> "offline", code |-> code, retryable |-> retryable]

\* classifyError and classifyPlatformError: all but a lack of permission may
\* go away by itself.
Classified(e, isRoot) ==
    CASE e = "not_exist"  -> Failed(IF isRoot THEN "mount_missing" ELSE "path_missing", TRUE)
      [] e = "permission" -> Failed("permission_denied", FALSE)
      [] e = "stale"      -> Failed("stale_handle", TRUE)
      [] e = "timeout"    -> Failed("io_timeout", TRUE)
      [] e = "other"      -> Failed("read_failed", TRUE)

\* classifyError, with the code of a missing sentinel.
ClassifiedTarget(e) ==
    IF spec.sentinel /\ e = "not_exist" THEN Failed("probe_file_missing", TRUE)
    ELSE Classified(e, ~spec.sentinel)

\* mountMismatch of a known filesystem.
Mismatch(actual) ==
    \/ spec.expected # "" /\ actual # "remote" /\ actual # spec.expected
    \/ spec.kind = "nfs" /\ actual \notin {"nfs", "nfs4", "remote"}
    \/ spec.kind = "smb" /\ actual \notin {"cifs", "smbfs", "smb3", "remote"}

\* inspectPlatformMount: the mount with the longest mount point above the root.
MountTable == IF attached THEN spec.fs ELSE LocalFs

Look(next) == pc' = next /\ seen' = [seen EXCEPT ![pc] = attached] /\ UNCHANGED <<spec, attached, moves>>

Target == IF spec.sentinel THEN "stat" ELSE "read"

Available == [status |-> IF warned THEN "degraded" ELSE "online",
              code |-> "available", retryable |-> FALSE]

Fails(r) == result' = r /\ Look("done")
Passes(next) == UNCHANGED result /\ Look(next)

-----------------------------------------------------------------------------
\* Lstat of the root: the mounted directory or the one below.
LooksAtRoot ==
    /\ pc = "root"
    /\ \/ Passes("mount")
       \/ Fails(Failed("not_directory", FALSE))
       \/ \E e \in Errors : Fails(Classified(e, TRUE))
    /\ UNCHANGED warned

LooksAtMount ==
    /\ pc = "mount"
    /\ \/ Mismatch(MountTable) /\ Fails(Failed("mount_mismatch", TRUE)) /\ UNCHANGED warned
       \/ ~Mismatch(MountTable) /\ Passes(Target) /\ UNCHANGED warned
       \/ Passes(Target) /\ warned' = TRUE
       \/ \E e \in Errors : Fails(Classified(e, TRUE)) /\ UNCHANGED warned

\* The sentinel is on the storage, not in the directory below the mount point.
LooksForSentinel ==
    /\ pc = "stat"
    /\ \/ attached /\ Passes("read")
       \/ attached /\ Fails(Failed("invalid_probe_file", FALSE))
       \/ ~attached /\ Fails(ClassifiedTarget("not_exist"))
       \/ \E e \in Errors : Fails(ClassifiedTarget(e))
    /\ UNCHANGED warned

\* Mutation: the sentinel is read as a directory is, whatever it holds.
ReadsAnything ==
    /\ pc = "read"
    /\ \/ Fails(Available)
       \/ \E e \in Errors : Fails(ClassifiedTarget(e))
    /\ UNCHANGED warned

\* readProbeTarget: the sentinel, or an entry of the directory; an empty one
\* will do.
ReadsTarget ==
    /\ pc = "read"
    /\ \/ /\ spec.sentinel => attached
          /\ Fails(Available)
       \/ spec.sentinel /\ ~attached /\ Fails(ClassifiedTarget("not_exist"))
       \/ \E e \in Errors : Fails(ClassifiedTarget(e))
    /\ UNCHANGED warned

Remount ==
    /\ pc # "done" /\ moves < MaxMoves /\ moves' = moves + 1
    /\ attached' = ~attached
    /\ UNCHANGED <<spec, pc, result, warned, seen>>

ProbeInit ==
    /\ spec \in Specs
    /\ attached \in BOOLEAN
    /\ pc = "root" /\ result = Unknown /\ warned = FALSE /\ moves = 0
    /\ seen = [p \in {"root", "mount", "stat", "read"} |-> FALSE]

ProbeNext == LooksAtRoot \/ LooksAtMount \/ LooksForSentinel \/ ReadsTarget \/ Remount

ProbeSpec == ProbeInit /\ [][ProbeNext]_probeVars
-----------------------------------------------------------------------------
Codes == {"not_checked", "available", "mount_missing", "path_missing", "probe_file_missing", "permission_denied",
          "stale_handle", "io_timeout", "read_failed", "not_directory", "mount_mismatch", "invalid_probe_file"}
Results == [status : {"unknown", "online", "degraded", "offline"}, code : Codes, retryable : BOOLEAN]
Points == {"root", "mount", "stat", "read"}

\* Every variable has its type.
ProbeTypeOK ==
    /\ spec \in Specs /\ attached \in BOOLEAN /\ warned \in BOOLEAN /\ moves \in Nat
    /\ pc \in Points \cup {"done"} /\ result \in Results
    /\ seen \in [Points -> BOOLEAN]
    /\ pc = "done" <=> result.status # "unknown"

\* Storage that is reported available although it comes and goes was there when
\* the sentinel was read, if the root has one, and when the mount table was
\* read, if the table tells it from what lies below (Probe, mountMismatch).
AvailableProved ==
    /\ result.status \in {"online", "degraded"} /\ spec.sentinel => seen["read"]
    /\ result.status = "online" /\ Mismatch(LocalFs) => seen["mount"]

\* A root that is reported as its own fault, not to be retried, was either
\* refused access or is, where the probe looked, no directory or no regular
\* file: never a mount that was only away (classifyError).
AwayIsRetryable ==
    (result.status = "offline" /\ ~result.retryable) =>
      \/ result.code \in {"permission_denied", "not_directory"}
      \/ result.code = "invalid_probe_file" /\ seen["stat"]

\* What the mount table told while the probe goes on.
MountSeen == pc \in {"stat", "read"} /\ ~warned /\ Mismatch(LocalFs) => seen["mount"]

\* Storage that is reported available although it comes and goes was there
\* when the probe looked, and storage that is only away is probed again.
ProbeSound ==
    /\ ProbeTypeOK /\ AvailableProved /\ AwayIsRetryable /\ MountSeen
    /\ pc # "done" => result = Unknown
    /\ result.status = "online" => ~warned
=============================================================================
