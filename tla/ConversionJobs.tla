--------------------------- MODULE ConversionJobs ---------------------------
(***************************************************************************)
(* The conversion_jobs table: the only thing the API server and the        *)
(* converter worker share besides the library folders.  Every operator     *)
(* below is ONE SQL statement of internal/db/converter_jobs.go (server) or *)
(* converter/db.go (worker); each runs in autocommit, so it is one step.   *)
(*                                                                         *)
(* A row id is never reused (gen_random_uuid), so ids are 1..MaxJobs in    *)
(* insertion order.  A deleted row keeps here the columns that a goroutine *)
(* which claimed it, or a request which read it, still holds.              *)
(***************************************************************************)
EXTENDS Naturals

CONSTANTS
    Workers,    \* converter processes running in watch mode
    Books,      \* (library, name) pairs a user can choose
    Stagings,   \* random names of add-to-existing uploads, "<name>-add-*"
    NoName,     \* the name column of a row that was never inserted
    MaxJobs     \* bound: how many rows are ever inserted

ASSUME ConversionJobsAssumption ==
    /\ MaxJobs \in Nat
    /\ NoName \notin Books \cup Stagings
    /\ Books \cap Stagings = {}     \* nobody types a random name

VARIABLES
    jobs,       \* the rows
    lastId,     \* how many rows were inserted
    locked      \* the row each worker's uncommitted claim holds, 0 if none

tableVars == <<jobs, lastId, locked>>

JobIds   == 1..MaxJobs
Names    == Books \cup Stagings
Active   == {"pending", "running", "paused"}
Terminal == {"done", "failed", "stopped"}
Status   == Active \cup Terminal \cup {"none", "deleted"}

(* inputPath n stands for the folder "<n>-in"; output_path is always the   *)
(* folder named after the row, so it needs no column.  curVol says whether *)
(* current_volume is non-empty; createdAt is the id that opened the        *)
(* inserting transaction (rows of one bulk insert share NOW()).            *)
Row == [status: Status, name: Names \cup {NoName}, inputPath: Names \cup {NoName},
        forceOcr: BOOLEAN, manual: BOOLEAN, stopReq: BOOLEAN, pauseReq: BOOLEAN,
        curVol: BOOLEAN, createdAt: 0..MaxJobs]

NoRow == [status |-> "none", name |-> NoName, inputPath |-> NoName,
          forceOcr |-> FALSE, manual |-> FALSE, stopReq |-> FALSE,
          pauseReq |-> FALSE, curVol |-> FALSE, createdAt |-> 0]

TableInit ==
    /\ jobs = [j \in JobIds |-> NoRow]
    /\ lastId = 0
    /\ locked = [w \in Workers |-> 0]

TableTypeOK ==
    /\ jobs \in [JobIds -> Row]
    /\ lastId \in 0..MaxJobs
    /\ locked \in [Workers -> 0..MaxJobs]

Exists(j)   == jobs[j].status \notin {"none", "deleted"}
Unlocked(j) == \A w \in Workers : locked[w] # j

-----------------------------------------------------------------------------
(* Queries.                                                                *)

\* ConversionJobNameTaken
NameTaken(n) == \E j \in JobIds : jobs[j].name = n /\ jobs[j].status \in Active

\* jobExistsForPath
PathTracked(n) == \E j \in JobIds : jobs[j].inputPath = n /\ jobs[j].status \in Active

\* Mutant: the NOT EXISTS clause is missing.
ClaimableAnyBook == {j \in JobIds : jobs[j].status = "pending" /\ Unlocked(j)}

\* Mutant: NOT EXISTS looks at every active row of the book, not at running ones.
ClaimableAlone ==
    {j \in ClaimableAnyBook : \A k \in JobIds \ {j} :
        jobs[k].status \in Active => jobs[k].name # jobs[j].name}

\* The pending rows claimNextJob's subselect accepts: SKIP LOCKED passes over
\* rows in other claims, NOT EXISTS over books that have a committed running row.
Claimable ==
    {j \in JobIds : /\ jobs[j].status = "pending"
                    /\ Unlocked(j)
                    /\ \A k \in JobIds :
                          jobs[k].status = "running" => jobs[k].name # jobs[j].name}

-----------------------------------------------------------------------------
(* Statements.  An UPDATE by id does nothing to a row that is gone, and    *)
(* waits while a claim holds the row; none of them looks at the status.    *)

InsertRows(k, row) ==
    /\ lastId + k <= MaxJobs
    /\ lastId' = lastId + k
    /\ jobs' = [j \in JobIds |-> IF j \in (lastId + 1)..(lastId + k)
                                 THEN [row EXCEPT !.createdAt = lastId + 1]
                                 ELSE jobs[j]]
    /\ UNCHANGED locked

UpdateRow(j, row) ==
    /\ Unlocked(j)
    /\ jobs' = [jobs EXCEPT ![j] = IF Exists(j) THEN row ELSE @]
    /\ UNCHANGED <<lastId, locked>>

\* UPDATE ... WHERE: every matching row at once; new maps their ids to new rows.
UpdateRows(new) ==
    /\ \A j \in DOMAIN new : Unlocked(j)
    /\ jobs' = [j \in JobIds |-> IF j \in DOMAIN new THEN new[j] ELSE jobs[j]]
    /\ UNCHANGED <<lastId, locked>>

WithStatus(s) == {j \in JobIds : jobs[j].status = s}

\* CreateConversionJob, CreateReconvertJob, CreateReconvertJobsBulk
CreateJobs(k, n, input, force) ==
    InsertRows(k, [NoRow EXCEPT !.status = "pending", !.name = n,
                                !.inputPath = input, !.forceOcr = force])

\* createManualJob: born running
CreateManualJob(n) ==
    InsertRows(1, [NoRow EXCEPT !.status = "running", !.name = n,
                                !.inputPath = n, !.manual = TRUE])

\* The two halves of claimNextJob's transaction: choose and lock, then commit.
LockOldest(w, j) ==
    /\ locked[w] = 0
    /\ j \in Claimable
    /\ \A k \in Claimable : jobs[j].createdAt <= jobs[k].createdAt
    /\ locked' = [locked EXCEPT ![w] = j]
    /\ UNCHANGED <<jobs, lastId>>

CommitClaim(w, j) ==
    /\ locked[w] = j
    /\ jobs' = [jobs EXCEPT ![j].status = "running"]
    /\ locked' = [locked EXCEPT ![w] = 0]
    /\ UNCHANGED lastId

UpdateJobVolume(j) == UpdateRow(j, [jobs[j] EXCEPT !.curVol = TRUE])

Ended(j, s)      == [jobs[j] EXCEPT !.status = s, !.curVol = FALSE, !.stopReq = FALSE]
MarkJobDone(j)    == UpdateRow(j, Ended(j, "done"))
MarkJobFailed(j)  == UpdateRow(j, Ended(j, "failed"))
MarkJobStopped(j) == UpdateRow(j, Ended(j, "stopped"))
MarkJobPaused(j)  == UpdateRow(j, [jobs[j] EXCEPT !.status = "paused", !.pauseReq = FALSE])

RequestStop(j) == UpdateRow(j, [jobs[j] EXCEPT !.stopReq = TRUE])
DeleteRow(j)   == UpdateRow(j, [NoRow EXCEPT !.status = "deleted", !.name = jobs[j].name,
                                             !.inputPath = jobs[j].inputPath,
                                             !.forceOcr = jobs[j].forceOcr,
                                             !.manual = jobs[j].manual])

\* Mutant: the first statement of PauseQueue pauses running rows as well.
PauseEverything ==
    UpdateRows([j \in WithStatus("pending") \cup WithStatus("running") |->
                   [jobs[j] EXCEPT !.status = "paused"]])

\* The two statements of db.PauseQueue, in order.
PausePending ==
    UpdateRows([j \in WithStatus("pending") |-> [jobs[j] EXCEPT !.status = "paused"]])

PauseRunning ==
    UpdateRows([j \in {k \in WithStatus("running") : ~jobs[k].curVol} |->
                   [jobs[j] EXCEPT !.pauseReq = TRUE]])

ResumePaused ==
    UpdateRows([j \in WithStatus("paused") |->
                   [jobs[j] EXCEPT !.status = "pending", !.pauseReq = FALSE, !.curVol = FALSE]])

\* Mutant: the second statement of the rescue forgets status = 'running'.
ReclaimStoppedAnyStatus ==
    UpdateRows([j \in {k \in JobIds : Exists(k) /\ jobs[k].stopReq} |-> Ended(j, "stopped")])

\* Mutant: the last statement of the rescue skips rows that are mid-volume.
ReclaimRestIdle ==
    UpdateRows([j \in {k \in WithStatus("running") : ~jobs[k].curVol} |->
                   [jobs[j] EXCEPT !.status = "pending"]])

\* The three statements of reclaimOrphanedJobs, in order.
ReclaimPaused ==
    UpdateRows([j \in {k \in WithStatus("running") : jobs[k].pauseReq} |->
                   [jobs[j] EXCEPT !.status = "paused", !.curVol = FALSE, !.pauseReq = FALSE]])

ReclaimStopped ==
    UpdateRows([j \in {k \in WithStatus("running") : jobs[k].stopReq} |->
                   Ended(j, "stopped")])

ReclaimRest ==
    UpdateRows([j \in WithStatus("running") |->
                   [jobs[j] EXCEPT !.status = "pending", !.curVol = FALSE]])
=============================================================================
