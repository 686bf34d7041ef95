----------------------------- MODULE AnalysisJob -----------------------------
(***************************************************************************)
(* What the analysis queue promises the one who submits a job: a job is    *)
(* tried at most MaxTries times for every submission, one try at a time; a *)
(* try that was asked to stop is the last one; and a job that left the queue *)
(* comes back only when it is submitted again.  Nothing here knows of rows, *)
(* leases, workers or callers.                                             *)
(***************************************************************************)
EXTENDS Naturals

CONSTANTS Keys, MaxTries

VARIABLES
    phase,  \* where the job of a key is
    tries   \* the tries its last submission has used

vars == <<phase, tries>>

Phases == {"none", "waiting", "trying", "stopping", "settled"}

TypeOK ==
    /\ phase \in [Keys -> Phases]
    /\ tries \in [Keys -> 0..MaxTries]

Init ==
    /\ phase = [k \in Keys |-> "none"]
    /\ tries = [k \in Keys |-> 0]

-----------------------------------------------------------------------------
(* The steps of one job, from phase p with t tries to phase q with u.      *)

Submit(p, t, q, u) ==
    p \in {"none", "settled"} /\ q = "waiting" /\ u = 0

Try(p, t, q, u) ==
    p = "waiting" /\ t < MaxTries /\ q = "trying" /\ u = t + 1

Retry(p, t, q, u) ==
    p = "trying" /\ t < MaxTries /\ q = "waiting" /\ u = t

AskToStop(p, t, q, u) ==
    p = "trying" /\ q = "stopping" /\ u = t

Settle(p, t, q, u) ==
    p \in {"waiting", "trying", "stopping"} /\ q = "settled" /\ u = t

Remove(p, t, q, u) ==
    p # "none" /\ q = "none" /\ u = 0

\* What the queue owes a job it has accepted.
Serve(p, t, q, u) ==
    \/ Try(p, t, q, u)
    \/ Retry(p, t, q, u)
    \/ Settle(p, t, q, u)

JobStep(p, t, q, u) ==
    \/ Submit(p, t, q, u)
    \/ Serve(p, t, q, u)
    \/ AskToStop(p, t, q, u)
    \/ Remove(p, t, q, u)
    \/ p = q /\ t = u

\* One step may move many jobs: recovery, supersession and the deletion of a
\* track update sets of rows.
Next ==
    /\ phase' \in [Keys -> Phases]
    /\ tries' \in [Keys -> 0..MaxTries]
    /\ \A k \in Keys : JobStep(phase[k], tries[k], phase'[k], tries'[k])

Spec == Init /\ [][Next]_vars
=============================================================================
