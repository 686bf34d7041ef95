------------------------- MODULE EnqueueTransaction -------------------------
(***************************************************************************)
(* Enqueue, statement by statement, in calls of several processes.         *)
(* AnalysisQueue has the count and the insertion only, as one step on the  *)
(* connection of SQLite (OneWriter); transactions of PostgreSQL read what  *)
(* is committed when a statement begins.  The last statement of a branch   *)
(* commits: the row or the key that it writes is locked until then.        *)
(***************************************************************************)
EXTENDS Naturals, FiniteSets

CONSTANTS
    JobKeys, Calls, Nobody,
    KeyOf,      \* the idempotency key of every call
    Forced,     \* the calls with force
    QueueLimit,
    OneWriter,
    MaxRuns, MaxDeletes \* bounds of the model: claims, deletions

ASSUME EnqueueConstants ==
    /\ QueueLimit \in Nat /\ OneWriter \in BOOLEAN /\ Forced \subseteq Calls
    /\ KeyOf \in [Calls -> JobKeys] /\ Nobody \notin Calls
    /\ MaxRuns \in Nat /\ MaxDeletes \in Nat

VARIABLES
    status, \* committed rows: "absent", "pending", "running" or "settled"
    id,     \* of the last row of every key
    read,   \* the id that a call has looked up
    pc,     \* of every call, the next statement or "done"
    answer, \* what it returned
    writer, \* the call whose transaction holds the connection
    runs, deletes

enqueueVars == <<status, id, read, pc, answer, writer, runs, deletes>>

Active == {k \in JobKeys : status[k] \in {"pending", "running"}}

Turn(c) == OneWriter => writer = c
Goes(c, next) == pc' = [pc EXCEPT ![c] = next] /\ UNCHANGED answer
Returns(c, result) ==
    /\ pc' = [pc EXCEPT ![c] = "done"]
    /\ answer' = [answer EXCEPT ![c] = result]
    /\ writer' = IF writer = c THEN Nobody ELSE writer

Begin(c) ==
    /\ pc[c] = "begin" /\ (OneWriter => writer = Nobody)
    /\ Goes(c, "lookup")
    /\ writer' = IF OneWriter THEN c ELSE writer
    /\ UNCHANGED <<status, id, read, runs, deletes>>

Lookup(c) ==
    LET row == status[KeyOf[c]] IN
    /\ pc[c] = "lookup" /\ Turn(c)
    /\ read' = [read EXCEPT ![c] = id[KeyOf[c]]]
    /\ CASE row = "absent" -> Goes(c, "count") /\ UNCHANGED writer
         [] row # "absent" /\ c \notin Forced -> Returns(c, "existing")
         [] row \in {"pending", "running"} /\ c \in Forced -> Returns(c, "active")
         [] OTHER -> Goes(c, "reset") /\ UNCHANGED writer
    /\ UNCHANGED <<status, id, runs, deletes>>

\* The update is guarded by the id and the status.
Reset(c) ==
    /\ pc[c] = "reset" /\ Turn(c)
    /\ IF status[KeyOf[c]] = "settled" /\ id[KeyOf[c]] = read[c]
       THEN status' = [status EXCEPT ![KeyOf[c]] = "pending"] /\ Returns(c, "changed")
       ELSE Returns(c, "active") /\ UNCHANGED status
    /\ UNCHANGED <<id, read, runs, deletes>>

Count(c) ==
    /\ pc[c] = "count" /\ Turn(c)
    /\ IF QueueLimit > 0 /\ Cardinality(Active) >= QueueLimit
       THEN Returns(c, "full") ELSE Goes(c, "insert") /\ UNCHANGED writer
    /\ UNCHANGED <<status, id, read, runs, deletes>>

Create(c) ==
    /\ status' = [status EXCEPT ![KeyOf[c]] = "pending"]
    /\ id' = [id EXCEPT ![KeyOf[c]] = @ + 1]

\* Mutation: a conflict is an error like any other.
InsertOrFail(c) ==
    /\ pc[c] = "insert" /\ Turn(c)
    /\ IF status[KeyOf[c]] = "absent"
       THEN Create(c) /\ Returns(c, "changed")
       ELSE Returns(c, "failed") /\ UNCHANGED <<status, id>>
    /\ UNCHANGED <<read, runs, deletes>>

\* The key is unique: a conflict rolls the transaction back.
Insert(c) ==
    /\ pc[c] = "insert" /\ Turn(c)
    /\ IF status[KeyOf[c]] = "absent"
       THEN Create(c) /\ Returns(c, "changed")
       ELSE /\ Goes(c, "resolve")
            /\ writer' = IF writer = c THEN Nobody ELSE writer
            /\ UNCHANGED <<status, id>>
    /\ UNCHANGED <<read, runs, deletes>>

Resolve(c) ==
    /\ pc[c] = "resolve"
    /\ Returns(c, IF status[KeyOf[c]] = "absent" THEN "failed" ELSE "existing")
    /\ UNCHANGED <<status, id, read, runs, deletes>>

-----------------------------------------------------------------------------
\* Statements of others, which wait for the connection.
Free == OneWriter => writer = Nobody

ClaimJob(k) ==
    /\ Free /\ status[k] = "pending" /\ runs < MaxRuns
    /\ status' = [status EXCEPT ![k] = "running"]
    /\ runs' = runs + 1
    /\ UNCHANGED <<id, read, pc, answer, writer, deletes>>

\* Completed for good, or to be tried again.
Complete(k) ==
    /\ Free /\ status[k] = "running"
    /\ \E result \in {"settled", "pending"} : status' = [status EXCEPT ![k] = result]
    /\ UNCHANGED <<id, read, pc, answer, writer, runs, deletes>>

Cancel(k) ==
    /\ Free /\ status[k] = "pending"
    /\ status' = [status EXCEPT ![k] = "settled"]
    /\ UNCHANGED <<id, read, pc, answer, writer, runs, deletes>>

DeleteMusic(k) ==
    /\ Free /\ status[k] # "absent" /\ deletes < MaxDeletes
    /\ status' = [status EXCEPT ![k] = "absent"]
    /\ deletes' = deletes + 1
    /\ UNCHANGED <<id, read, pc, answer, writer, runs>>

EnqueueInit ==
    /\ status \in [JobKeys -> {"absent", "settled"}]
    /\ id = [k \in JobKeys |-> 0] /\ read = [c \in Calls |-> 0]
    /\ pc = [c \in Calls |-> "begin"] /\ answer = [c \in Calls |-> "none"]
    /\ writer = Nobody /\ runs = 0 /\ deletes = 0

Enqueue(c) == Begin(c) \/ Lookup(c) \/ Reset(c) \/ Count(c) \/ Insert(c) \/ Resolve(c)

EnqueueNext ==
    \/ \E c \in Calls : Enqueue(c)
    \/ \E k \in JobKeys : ClaimJob(k) \/ Complete(k) \/ Cancel(k) \/ DeleteMusic(k)

EnqueueSpec == EnqueueInit /\ [][EnqueueNext]_enqueueVars

-----------------------------------------------------------------------------
\* Jobs that wait or run are no more than queue_limit, whoever enqueues at once
\* (Readme-EN.md:355). It fails on PostgreSQL: two calls count before either
\* inserts.
QueueBounded == QueueLimit > 0 => Cardinality(Active) <= QueueLimit

\* Every variable has its type.
EnqueueTypeOK ==
    /\ status \in [JobKeys -> {"absent", "pending", "running", "settled"}]
    /\ id \in [JobKeys -> Nat] /\ read \in [Calls -> Nat]
    /\ pc \in [Calls -> {"begin", "lookup", "reset", "count", "insert", "resolve", "done"}]
    /\ answer \in [Calls -> {"none", "existing", "active", "changed", "full", "failed"}]
    /\ writer \in Calls \cup {Nobody}
    /\ runs \in Nat /\ deletes \in Nat

\* A call that met a conflict finds the row, unless it was deleted.
ConflictsLeaveRows ==
    \A c \in Calls : pc[c] = "resolve" => status[KeyOf[c]] # "absent" \/ deletes > 0

\* A call that meets the insertion of another one gets its job, and fails only
\* when a job was deleted (music_analysis_repository.go:191).
RaceResolved ==
    /\ EnqueueTypeOK /\ ConflictsLeaveRows
    /\ \A c \in Calls : answer[c] = "failed" => deletes > 0
=============================================================================
