-------------------------- MODULE ConversionProofs --------------------------
(***************************************************************************)
(* Proofs about ConversionSystem, for any number of rows, books, volumes,  *)
(* requests, crashes and refused statements.  For any number of worker     *)
(* processes: types, who may clean up, and staging folders.  For one (the  *)
(* deployment the repository ships): the safety of the queue, the          *)
(* refinement of JobLifecycle, and manualInProgress.                       *)
(***************************************************************************)
EXTENDS ConversionSystem, TLAPS

-----------------------------------------------------------------------------
(* The SQL statements keep the table well typed.                           *)

LEMMA NoRowType == NoRow \in Row
BY ConversionJobsAssumption DEF NoRow, Row, Status, Active, Terminal

LEMMA InsertRowsType ==
    ASSUME TableTypeOK, NEW k \in Nat, NEW row \in Row, InsertRows(k, row)
    PROVE  TableTypeOK'
<1>1. lastId' \in 0..MaxJobs /\ locked' = locked
  BY ConversionJobsAssumption DEF TableTypeOK, InsertRows
<1>2. ASSUME NEW j \in JobIds, j \in (lastId + 1)..(lastId + k)
      PROVE  jobs'[j] \in Row
  <2>1. lastId + 1 \in 0..MaxJobs
    BY <1>2, ConversionJobsAssumption DEF TableTypeOK, InsertRows, JobIds
  <2>2. [row EXCEPT !.createdAt = lastId + 1] \in Row
    BY <2>1 DEF Row
  <2> QED
    BY <1>2, <2>2 DEF InsertRows
<1>3. ASSUME NEW j \in JobIds, j \notin (lastId + 1)..(lastId + k)
      PROVE  jobs'[j] \in Row
  BY <1>3 DEF InsertRows, TableTypeOK
<1>4. jobs' = [j \in JobIds |-> jobs'[j]]
  BY DEF InsertRows
<1> QED
  BY <1>1, <1>2, <1>3, <1>4 DEF TableTypeOK

LEMMA UpdateRowType ==
    ASSUME TableTypeOK, NEW j, NEW row, j \in JobIds => row \in Row, UpdateRow(j, row)
    PROVE  TableTypeOK'
BY DEF TableTypeOK, UpdateRow

LEMMA UpdateRowsType ==
    ASSUME TableTypeOK, NEW new, UpdateRows(new),
           \A j \in JobIds : j \in DOMAIN new => new[j] \in Row
    PROVE  TableTypeOK'
BY DEF TableTypeOK, UpdateRows

\* Every statement that changes a row builds a row.
LEMMA NewRowType ==
    ASSUME TableTypeOK, NEW j \in JobIds
    PROVE  /\ \A s \in Status : Ended(j, s) \in Row
           /\ \A s \in Status : [jobs[j] EXCEPT !.status = s] \in Row
           /\ \A s \in Status : [jobs[j] EXCEPT !.status = s, !.pauseReq = FALSE] \in Row
           /\ \A s \in Status : [jobs[j] EXCEPT !.status = s, !.curVol = FALSE] \in Row
           /\ \A s \in Status : [jobs[j] EXCEPT !.status = s, !.pauseReq = FALSE, !.curVol = FALSE] \in Row
           /\ \A s \in Status : [jobs[j] EXCEPT !.status = s, !.curVol = FALSE, !.pauseReq = FALSE] \in Row
           /\ [jobs[j] EXCEPT !.curVol = TRUE] \in Row
           /\ [jobs[j] EXCEPT !.stopReq = TRUE] \in Row
           /\ [jobs[j] EXCEPT !.pauseReq = TRUE] \in Row
           /\ [NoRow EXCEPT !.status = "deleted", !.name = jobs[j].name,
                            !.inputPath = jobs[j].inputPath, !.forceOcr = jobs[j].forceOcr,
                            !.manual = jobs[j].manual] \in Row
<1>1. jobs[j] \in Row
  BY DEF TableTypeOK
<1>2. ASSUME NEW s \in Status
      PROVE  /\ Ended(j, s) \in Row
             /\ [jobs[j] EXCEPT !.status = s] \in Row
             /\ [jobs[j] EXCEPT !.status = s, !.pauseReq = FALSE] \in Row
             /\ [jobs[j] EXCEPT !.status = s, !.curVol = FALSE] \in Row
             /\ [jobs[j] EXCEPT !.status = s, !.pauseReq = FALSE, !.curVol = FALSE] \in Row
             /\ [jobs[j] EXCEPT !.status = s, !.curVol = FALSE, !.pauseReq = FALSE] \in Row
  BY <1>1, <1>2 DEF Ended, Row
<1>3. /\ [jobs[j] EXCEPT !.curVol = TRUE] \in Row
      /\ [jobs[j] EXCEPT !.stopReq = TRUE] \in Row
      /\ [jobs[j] EXCEPT !.pauseReq = TRUE] \in Row
  BY <1>1 DEF Row
<1>4. NoRow \in Row /\ "deleted" \in Status
  BY NoRowType DEF Status
<1>5. [NoRow EXCEPT !.status = "deleted", !.name = jobs[j].name,
                    !.inputPath = jobs[j].inputPath, !.forceOcr = jobs[j].forceOcr,
                    !.manual = jobs[j].manual] \in Row
  BY <1>1, <1>4 DEF Row
<1> QED
  BY <1>2, <1>3, <1>5

LEMMA StatementsType ==
    ASSUME TableTypeOK
    PROVE  /\ \A k \in Nat, n \in Names \cup {NoName}, input \in Names \cup {NoName}, force \in BOOLEAN :
                 CreateJobs(k, n, input, force) => TableTypeOK'
           /\ \A n \in Names \cup {NoName} : CreateManualJob(n) => TableTypeOK'
           /\ \A w \in Workers, j \in JobIds : LockOldest(w, j) => TableTypeOK'
           /\ \A w \in Workers, j \in JobIds : CommitClaim(w, j) => TableTypeOK'
           /\ \A j : UpdateJobVolume(j) => TableTypeOK'
           /\ \A j : MarkJobDone(j) \/ MarkJobFailed(j) \/ MarkJobStopped(j) => TableTypeOK'
           /\ \A j : MarkJobPaused(j) => TableTypeOK'
           /\ \A j : RequestStop(j) \/ DeleteRow(j) => TableTypeOK'
           /\ PausePending \/ PauseRunning \/ ResumePaused => TableTypeOK'
           /\ ReclaimPaused \/ ReclaimStopped \/ ReclaimRest => TableTypeOK'
<1>1. ASSUME NEW k \in Nat, NEW n \in Names \cup {NoName}, NEW input \in Names \cup {NoName},
             NEW force \in BOOLEAN, CreateJobs(k, n, input, force)
      PROVE  TableTypeOK'
  <2>1. [NoRow EXCEPT !.status = "pending", !.name = n, !.inputPath = input,
                      !.forceOcr = force] \in Row
    <3>1. "pending" \in Status
      BY DEF Status, Active
    <3> QED
      BY <1>1, <3>1, NoRowType DEF Row
  <2> QED
    BY <1>1, <2>1, InsertRowsType DEF CreateJobs
<1>2. ASSUME NEW n \in Names \cup {NoName}, CreateManualJob(n) PROVE TableTypeOK'
  <2>1. [NoRow EXCEPT !.status = "running", !.name = n, !.inputPath = n,
                      !.manual = TRUE] \in Row
    <3>1. "running" \in Status
      BY DEF Status, Active
    <3> QED
      BY <1>2, <3>1, NoRowType DEF Row
  <2> QED
    BY <1>2, <2>1, InsertRowsType DEF CreateManualJob
<1>3. ASSUME NEW w \in Workers, NEW j \in JobIds, LockOldest(w, j) PROVE TableTypeOK'
  <2>1. j \in 0..MaxJobs
    BY ConversionJobsAssumption DEF JobIds
  <2>2. locked \in [Workers -> 0..MaxJobs] /\ locked' = [locked EXCEPT ![w] = j]
    BY <1>3 DEF TableTypeOK, LockOldest
  <2>3. locked' \in [Workers -> 0..MaxJobs]
    BY <2>1, <2>2
  <2> QED
    BY <1>3, <2>3 DEF TableTypeOK, LockOldest
<1>4. ASSUME NEW w \in Workers, NEW j \in JobIds, CommitClaim(w, j) PROVE TableTypeOK'
  <2>1. [jobs[j] EXCEPT !.status = "running"] \in Row
    BY NewRowType DEF Status, Active
  <2>2. jobs' \in [JobIds -> Row]
    BY <1>4, <2>1 DEF CommitClaim, TableTypeOK
  <2>3. 0 \in 0..MaxJobs
    BY ConversionJobsAssumption
  <2>4. locked \in [Workers -> 0..MaxJobs] /\ locked' = [locked EXCEPT ![w] = 0]
    BY <1>4 DEF TableTypeOK, CommitClaim
  <2>5. locked' \in [Workers -> 0..MaxJobs]
    BY <2>3, <2>4
  <2> QED
    BY <1>4, <2>2, <2>5 DEF TableTypeOK, CommitClaim
<1>5. ASSUME NEW j, UpdateJobVolume(j) PROVE TableTypeOK'
  BY <1>5, UpdateRowType, NewRowType DEF UpdateJobVolume
<1>6. ASSUME NEW j, MarkJobDone(j) \/ MarkJobFailed(j) \/ MarkJobStopped(j) PROVE TableTypeOK'
  BY <1>6, UpdateRowType, NewRowType DEF MarkJobDone, MarkJobFailed, MarkJobStopped, Status, Terminal
<1>7. ASSUME NEW j, MarkJobPaused(j) PROVE TableTypeOK'
  BY <1>7, UpdateRowType, NewRowType DEF MarkJobPaused, Status, Active
<1>8. ASSUME NEW j, RequestStop(j) \/ DeleteRow(j) PROVE TableTypeOK'
  BY <1>8, UpdateRowType, NewRowType DEF RequestStop, DeleteRow
<1>9. ASSUME PausePending \/ PauseRunning \/ ResumePaused PROVE TableTypeOK'
  BY <1>9, UpdateRowsType, NewRowType DEF PausePending, PauseRunning, ResumePaused, WithStatus, Status, Active
<1>10. ASSUME ReclaimPaused \/ ReclaimStopped \/ ReclaimRest PROVE TableTypeOK'
  BY <1>10, UpdateRowsType, NewRowType
  DEF ReclaimPaused, ReclaimStopped, ReclaimRest, WithStatus, Status, Active, Terminal
<1> QED
  BY <1>1, <1>2, <1>3, <1>4, <1>5, <1>6, <1>7, <1>8, <1>9, <1>10

-----------------------------------------------------------------------------
(* The worker's actions keep everything well typed.                        *)

LEMMA PresentType ==
    ASSUME NEW f \in Folder
    PROVE  /\ Present(f) \in SUBSET Vols
           /\ Present(f) \in Folder
           /\ \A vs \in SUBSET Vols : Present(f) \cup vs \in Folder
           /\ f # NoDir => Present(f) = f
<1>1. f = NoDir \/ f \in SUBSET Vols
  BY DEF Folder
<1>2. Present(f) \in SUBSET Vols
  BY <1>1 DEF Present
<1>3. Present(f) \in Folder
  BY <1>2 DEF Folder
<1>4. ASSUME NEW vs \in SUBSET Vols
      PROVE  Present(f) \cup vs \in Folder
  <2>1. Present(f) \cup vs \in SUBSET Vols
    BY <1>2
  <2> QED
    BY <2>1 DEF Folder
<1>5. f # NoDir => Present(f) = f
  BY DEF Present
<1> QED
  BY <1>2, <1>3, <1>4, <1>5

LEMMA RunsType ==
    ASSUME WorkerTypeOK, NEW w \in Workers, NEW j \in JobIds
    PROVE  runs[w][j] \in Run
BY DEF WorkerTypeOK

LEMMA IdleType == Idle \in Run
BY DEF Idle, Run, Live, Cleaning

LEMMA SetRunType ==
    ASSUME WorkerTypeOK, NEW w \in Workers, NEW j \in JobIds, NEW run \in Run, SetRun(w, j, run)
    PROVE  WorkerTypeOK'
BY DEF WorkerTypeOK, SetRun

LEMMA SettleType ==
    ASSUME TableTypeOK, WorkerTypeOK, NEW w \in Workers, NEW j \in JobIds,
           Settle(w, j), faults' \in 0..MaxFaults
    PROVE  WorkerTypeOK' /\ UNCHANGED folderVars
<1>1. Input(j) \in Names \cup {NoName}
  BY DEF TableTypeOK, Row, Input
<1>2. [Idle EXCEPT !.pc = "cleanInput"] \in Run
  BY IdleType DEF Run, Cleaning
<1>3. runs' \in [Workers -> [JobIds -> Run]]
  BY <1>2, IdleType DEF Settle, WorkerTypeOK
<1>4. exiting' \in [Workers -> SUBSET (Names \cup {NoName})]
  BY <1>1 DEF Settle, WorkerTypeOK
<1> QED
  BY <1>3, <1>4 DEF Settle, WorkerTypeOK

LEMMA JobStepType ==
    ASSUME TableTypeOK, FoldersTypeOK, WorkerTypeOK,
           NEW w \in Workers, NEW j \in JobIds, JobStep(w, j)
    PROVE  TableTypeOK' /\ FoldersTypeOK' /\ WorkerTypeOK'
<1> DEFINE r == runs[w][j]
<1>0. r \in Run
  BY RunsType
<1>1. CASE Claim(w, j)
  <2>1. TableTypeOK'
    BY <1>1, StatementsType DEF Claim
  <2> QED
    BY <1>1, <2>1 DEF Claim, WorkerTypeOK, FoldersTypeOK, workerVars, folderVars
<1>2. CASE Launch(w, j)
  <2>1. TableTypeOK'
    BY <1>2, StatementsType DEF Launch
  <2>2. (~jobs[j].forceOcr /\ ~jobs[j].manual) \in BOOLEAN
    OBVIOUS
  <2>3. [Idle EXCEPT !.pc = "launched",
                     !.allowCleanup = ~jobs[j].forceOcr /\ ~jobs[j].manual] \in Run
    BY IdleType, <2>2 DEF Run, Live
  <2>4. WorkerTypeOK'
    BY <1>2, <2>3, SetRunType DEF Launch
  <2> QED
    BY <1>2, <2>1, <2>4 DEF Launch, FoldersTypeOK, folderVars
<1>3. CASE Poll(w, j)
  <2>1. [r EXCEPT !.signal = "pause"] \in Run /\ [r EXCEPT !.signal = "stop"] \in Run
    BY <1>0 DEF Run
  <2>2. WorkerTypeOK'
    BY <1>3, <2>1, SetRunType DEF Poll
  <2> QED
    BY <1>3, <2>2 DEF Poll, tableVars, folderVars, TableTypeOK, FoldersTypeOK
<1>4. CASE Prepare(w, j)
  <2>1. [r EXCEPT !.pc = "preparing"] \in Run
    BY <1>0 DEF Run, Live
  <2>2. WorkerTypeOK'
    BY <1>4, <2>1, SetRunType DEF Prepare
  <2>3. books' \in [Names -> Folder]
    BY <1>4, PresentType DEF Prepare, FoldersTypeOK
  <2> QED
    BY <1>4, <2>2, <2>3 DEF Prepare, tableVars, TableTypeOK, FoldersTypeOK
<1>5. ASSUME NEW v \in Vols, BuildTextPDF(w, j, v) \/ BuildVolume(w, j, v)
      PROVE  TableTypeOK' /\ FoldersTypeOK' /\ WorkerTypeOK'
  <2>1. [r EXCEPT !.ok = TRUE] \in Run
    BY <1>0 DEF Run
  <2>2. WorkerTypeOK'
    BY <1>5, <2>1, SetRunType DEF BuildTextPDF, BuildVolume
  <2>3. ASSUME NEW f \in Folder, f # NoDir
        PROVE  f \cup {v} \in Folder /\ f \ {v} \in Folder
    <3>1. f \in SUBSET Vols
      BY <2>3 DEF Folder
    <3>2. f \cup {v} \in SUBSET Vols /\ f \ {v} \in SUBSET Vols
      BY <3>1
    <3> QED
      BY <3>2 DEF Folder
  <2>4. books' \in [Names -> Folder]
    BY <1>5, <2>3 DEF BuildTextPDF, BuildVolume, FoldersTypeOK
  <2>5. v \in Present(scans[Input(j)]) => scans[Input(j)] # NoDir
    BY DEF Present
  <2>6. scans' \in [Names -> Folder]
    <3>1. CASE BuildTextPDF(w, j, v)
      BY <3>1, <2>3, <2>5 DEF BuildTextPDF, FoldersTypeOK
    <3>2. CASE BuildVolume(w, j, v)
      BY <3>2 DEF BuildVolume, FoldersTypeOK
    <3> QED
      BY <1>5, <3>1, <3>2
  <2> QED
    BY <1>5, <2>2, <2>4, <2>6 DEF BuildTextPDF, BuildVolume, tableVars, TableTypeOK, FoldersTypeOK
<1>6. CASE AcquireGPU(w, j)
  <2>1. [r EXCEPT !.pc = "ocr"] \in Run
    BY <1>0 DEF Run, Live
  <2>2. WorkerTypeOK'
    BY <1>6, <2>1, SetRunType DEF AcquireGPU
  <2> QED
    BY <1>6, <2>2 DEF AcquireGPU, tableVars, folderVars, TableTypeOK, FoldersTypeOK
<1>7. CASE StartVolume(w, j)
  <2>1. TableTypeOK'
    BY <1>7, StatementsType DEF StartVolume
  <2> QED
    BY <1>7, <2>1 DEF StartVolume, workerVars, folderVars, WorkerTypeOK, FoldersTypeOK
<1>8. ASSUME NEW err \in BOOLEAN, ConvertReturns(w, j, err)
      PROVE  TableTypeOK' /\ FoldersTypeOK' /\ WorkerTypeOK'
  <2>1. PICK ok \in {r.ok, r.ok /\ ~(err /\ r.pc = "preparing")} :
           SetRun(w, j, [r EXCEPT !.pc = IF r.signal = "pause" THEN "pausing" ELSE "returned",
                                  !.err = err, !.ok = ok])
    BY <1>8 DEF ConvertReturns
  <2>2. r.ok \in BOOLEAN /\ (r.ok /\ ~(err /\ r.pc = "preparing")) \in BOOLEAN
    BY <1>0 DEF Run
  <2>3. ok \in BOOLEAN
    BY <2>2
  <2>4. [r EXCEPT !.pc = IF r.signal = "pause" THEN "pausing" ELSE "returned",
                  !.err = err, !.ok = ok] \in Run
    BY <1>0, <1>8, <2>3 DEF Run, Live
  <2>5. WorkerTypeOK'
    BY <2>1, <2>4, SetRunType
  <2> QED
    BY <1>8, <2>5 DEF ConvertReturns, tableVars, folderVars, TableTypeOK, FoldersTypeOK
<1>9. CASE FinishPaused(w, j) \/ FinishStopped(w, j) \/ FinishFailed(w, j) \/ FinishDone(w, j)
  <2>1. TableTypeOK'
    BY <1>9, StatementsType DEF FinishPaused, FinishStopped, FinishFailed, FinishDone
  <2>2. Settle(w, j) /\ faults' \in 0..MaxFaults
    BY <1>9 DEF FinishPaused, FinishStopped, FinishFailed, FinishDone, WorkerTypeOK
  <2> QED
    BY <2>1, <2>2, SettleType DEF folderVars, FoldersTypeOK
<1>10. CASE MarkLost(w, j)
  <2>1. Settle(w, j) /\ faults' \in 0..MaxFaults
    BY <1>10, WorkerAssumption DEF MarkLost, WorkerTypeOK
  <2> QED
    BY <1>10, <2>1, SettleType DEF MarkLost, tableVars, folderVars, TableTypeOK, FoldersTypeOK
<1>11. CASE CleanInput(w, j) \/ CleanOutput(w, j)
  <2>1. [r EXCEPT !.pc = "cleanOutput"] \in Run
    BY <1>0 DEF Run, Cleaning
  <2>2. WorkerTypeOK'
    BY <1>11, <2>1, IdleType, SetRunType DEF CleanInput, CleanOutput
  <2>3. NoDir \in Folder
    BY DEF Folder
  <2>4. FoldersTypeOK'
    <3>1. CASE CleanInput(w, j)
      BY <3>1, <2>3 DEF CleanInput, RemoveScan, FoldersTypeOK
    <3>2. CASE CleanOutput(w, j)
      BY <3>2, <2>3 DEF CleanOutput, RemoveBook, FoldersTypeOK
    <3> QED
      BY <1>11, <3>1, <3>2
  <2> QED
    BY <1>11, <2>2, <2>4 DEF CleanInput, CleanOutput, tableVars, TableTypeOK
<1> QED
  BY <1>1, <1>2, <1>3, <1>4, <1>5, <1>6, <1>7, <1>8, <1>9, <1>10, <1>11 DEF JobStep

LEMMA WorkerStepType ==
    ASSUME TableTypeOK, FoldersTypeOK, WorkerTypeOK, NEW w \in Workers, WorkerNext(w)
    PROVE  TableTypeOK' /\ FoldersTypeOK' /\ WorkerTypeOK'
<1>1. CASE Start(w)
  BY <1>1 DEF Start, SetProc, tableVars, folderVars, TableTypeOK, FoldersTypeOK, WorkerTypeOK
<1>2. CASE Reclaim(w)
  <2>1. TableTypeOK'
    BY <1>2, StatementsType DEF Reclaim
  <2> QED
    BY <1>2, <2>1 DEF Reclaim, SetProc, folderVars, FoldersTypeOK, WorkerTypeOK
<1>3. CASE ReclaimFails(w)
  BY <1>3, WorkerAssumption
  DEF ReclaimFails, tableVars, folderVars, TableTypeOK, FoldersTypeOK, WorkerTypeOK
<1>4. CASE Crash(w)
  <2>1. locked' \in [Workers -> 0..MaxJobs]
    <3>1. 0 \in 0..MaxJobs
      BY ConversionJobsAssumption
    <3> QED
      BY <1>4, <3>1 DEF Crash, TableTypeOK
  <2>2. runs' \in [Workers -> [JobIds -> Run]]
    BY <1>4, IdleType DEF Crash, WorkerTypeOK
  <2> QED
    BY <1>4, <2>1, <2>2, WorkerAssumption
    DEF Crash, folderVars, TableTypeOK, FoldersTypeOK, WorkerTypeOK
<1>5. ASSUME NEW j \in JobIds, JobStep(w, j)
      PROVE  TableTypeOK' /\ FoldersTypeOK' /\ WorkerTypeOK'
  BY <1>5, JobStepType
<1>6. ASSUME NEW n \in Names, ScanCheck(w, n)
      PROVE  TableTypeOK' /\ FoldersTypeOK' /\ WorkerTypeOK'
  <2>1. inProgress' \in [Workers -> SUBSET Names]
    BY <1>6 DEF ScanCheck, WorkerTypeOK
  <2>2. scanning' \in [Workers -> Names \cup {NoName}]
    BY <1>6 DEF ScanCheck, WorkerTypeOK
  <2> QED
    BY <1>6, <2>1, <2>2
    DEF ScanCheck, tableVars, folderVars, TableTypeOK, FoldersTypeOK, WorkerTypeOK
<1>9. ASSUME NEW n \in Names, ScanExit(w, n)
      PROVE  TableTypeOK' /\ FoldersTypeOK' /\ WorkerTypeOK'
  <2>1. inProgress' \in [Workers -> SUBSET Names]
    BY <1>9 DEF ScanExit, WorkerTypeOK
  <2>2. exiting' \in [Workers -> SUBSET (Names \cup {NoName})]
    BY <1>9 DEF ScanExit, WorkerTypeOK
  <2> QED
    BY <1>9, <2>1, <2>2
    DEF ScanExit, tableVars, folderVars, TableTypeOK, FoldersTypeOK, WorkerTypeOK
<1>7. CASE ScanCreate(w)
  <2>1. TableTypeOK'
    BY <1>7, StatementsType DEF ScanCreate, WorkerTypeOK
  <2>2. [Idle EXCEPT !.pc = "launched", !.scanned = TRUE] \in Run
    BY IdleType DEF Run, Live
  <2>3. runs' \in [Workers -> [JobIds -> Run]]
    BY <1>7, <2>2 DEF ScanCreate, WorkerTypeOK
  <2> QED
    BY <1>7, <2>1, <2>3 DEF ScanCreate, folderVars, FoldersTypeOK, WorkerTypeOK
<1>8. CASE ScanFail(w)
  BY <1>8 DEF ScanFail, tableVars, folderVars, TableTypeOK, FoldersTypeOK, WorkerTypeOK
<1> QED
  BY <1>1, <1>2, <1>3, <1>4, <1>5, <1>6, <1>7, <1>8, <1>9 DEF WorkerNext

-----------------------------------------------------------------------------
(* The requests keep everything well typed.  AddEnds reads the folder it   *)
(* stages in, so the induction must know that it is one.                   *)

StagingKnown == \A c \in Clients : At(c, "extract") => reqs[c].input \in Names

ApiInv == ApiTypeOK /\ StagingKnown

\* A reconvert counts its volumes.
LEMMA RequestCount == \A r \in Request : r.count \in Nat /\ r.name \in Names \cup {NoName}
<1>1. {0, 1} \cup BulkSizes \subseteq Nat
  BY ApiAssumption
<1>2. \A r \in Request : /\ r.count \in {0, 1} \cup BulkSizes
                          /\ r.name \in Names \cup {NoName}
  BY DEF Request
<1> QED BY <1>1, <1>2

LEMMA NoRequestType == NoRequest \in Request
<1>1. 0 \in {0, 1} \cup BulkSizes /\ 0 \in 0..MaxJobs
  BY ConversionJobsAssumption
<1> QED
  BY <1>1 DEF NoRequest, Request

LEMMA ReceiveType ==
    ASSUME ApiInv, NEW c \in Clients, NEW op, NEW req \in Request,
           req.pc = "extract" => req.input \in Names, Receive(c, op, req)
    PROVE  ApiInv'
BY DEF ApiInv, ApiTypeOK, StagingKnown, At, Receive

LEMMA ReplyType ==
    ASSUME ApiInv, NEW c \in Clients, Reply(c)
    PROVE  ApiInv'
BY NoRequestType DEF ApiInv, ApiTypeOK, StagingKnown, At, Reply, NoRequest

LEMMA GotoType ==
    ASSUME ApiInv, NEW c \in Clients,
           NEW pc \in {"insertUpload", "wipe", "removeScan", "removeRaw"}, Goto(c, pc)
    PROVE  ApiInv'
<1>1. reqs[c] \in Request
  BY DEF ApiInv, ApiTypeOK
<1>2. [reqs[c] EXCEPT !.pc = pc] \in Request
  BY <1>1 DEF Request
<1>3. reqs' = [reqs EXCEPT ![c] = [reqs[c] EXCEPT !.pc = pc]]
  BY DEF Goto
<1>4. reqs' \in [Clients -> Request]
  BY <1>2, <1>3 DEF ApiInv, ApiTypeOK
<1>5. reqs'[c].pc # "extract"
  BY <1>1, <1>3 DEF ApiInv, ApiTypeOK, Request
<1>6. \A d \in Clients \ {c} : reqs'[d] = reqs[d]
  BY <1>3 DEF ApiInv, ApiTypeOK
<1> QED
  BY <1>4, <1>5, <1>6 DEF ApiInv, ApiTypeOK, StagingKnown, At

LEMMA UploadStepType ==
    ASSUME TableTypeOK, FoldersTypeOK, ApiInv, NEW c \in Clients, UploadStep(c)
    PROVE  TableTypeOK' /\ FoldersTypeOK' /\ ApiInv'
<1>0. /\ reqs[c] \in Request
      /\ reqs[c].name \in Names \cup {NoName} /\ reqs[c].input \in Names \cup {NoName}
      /\ reqs[c].vols \in SUBSET Vols
      /\ NoDir \in Folder /\ {} \in Folder
  BY DEF ApiInv, ApiTypeOK, Request, Folder
<1>1. ASSUME NEW b \in Books, NEW vs \in (SUBSET Vols) \ {{}}, UploadCheck(c, b, vs)
      PROVE  TableTypeOK' /\ FoldersTypeOK' /\ ApiInv'
  <2>1. [NoRequest EXCEPT !.pc = "rename", !.name = b, !.vols = vs] \in Request
    BY NoRequestType DEF Request, Names
  <2>2. ApiInv'
    BY <1>1, <2>1, ReceiveType DEF UploadCheck, NoRequest
  <2> QED
    BY <1>1, <2>2 DEF UploadCheck, tableVars, folderVars, TableTypeOK, FoldersTypeOK
<1>2. CASE UploadRename(c)
  <2>1. reqs[c].vols \in Folder
    BY <1>0 DEF Folder
  <2>2. FoldersTypeOK'
    BY <1>2, <2>1 DEF UploadRename, FoldersTypeOK
  <2>3. ApiInv'
    BY <1>2, GotoType, ReplyType DEF UploadRename
  <2> QED
    BY <1>2, <2>2, <2>3 DEF UploadRename, tableVars, TableTypeOK
<1>3. CASE UploadInsert(c) \/ AddInsert(c)
  <2>1. TableTypeOK'
    BY <1>3, <1>0, StatementsType DEF UploadInsert, AddInsert
  <2> QED
    BY <1>3, <2>1, ReplyType DEF UploadInsert, AddInsert, folderVars, FoldersTypeOK
<1>4. CASE UploadFinished(c)
  <2>1. books' \in [Names -> Folder]
    BY <1>4, <1>0, PresentType DEF UploadFinished, FoldersTypeOK
  <2> QED
    BY <1>4, <2>1, ReplyType DEF UploadFinished, tableVars, TableTypeOK, FoldersTypeOK
<1>5. ASSUME NEW b \in Books, NEW s \in Stagings, AddStage(c, b, s)
      PROVE  TableTypeOK' /\ FoldersTypeOK' /\ ApiInv'
  <2>1. /\ [NoRequest EXCEPT !.pc = "extract", !.name = b, !.input = s] \in Request
        /\ [NoRequest EXCEPT !.pc = "extract", !.name = b, !.input = s].input \in Names
    BY NoRequestType DEF Request, Names
  <2>2. ApiInv'
    BY <1>5, <2>1, ReceiveType DEF AddStage
  <2>3. FoldersTypeOK'
    BY <1>5, <1>0 DEF AddStage, FoldersTypeOK
  <2> QED
    BY <1>5, <2>2, <2>3 DEF AddStage, tableVars, TableTypeOK
<1>6. ASSUME NEW v \in Vols, AddExtract(c, v)
      PROVE  TableTypeOK' /\ FoldersTypeOK' /\ ApiInv'
  <2>1. ASSUME NEW f \in Folder, f # NoDir PROVE f \cup {v} \in Folder
    <3>1. f = Present(f) /\ {v} \in SUBSET Vols
      BY <2>1, PresentType
    <3> QED
      BY <3>1, PresentType
  <2>2. FoldersTypeOK'
    BY <1>6, <2>1 DEF AddExtract, FoldersTypeOK
  <2> QED
    BY <1>6, <2>2
    DEF AddExtract, tableVars, TableTypeOK, ApiInv, ApiTypeOK, StagingKnown, At
<1>7. ASSUME NEW placed \in BOOLEAN, AddEnds(c, placed)
      PROVE  TableTypeOK' /\ FoldersTypeOK' /\ ApiInv'
  <2>1. scans[reqs[c].input] \in Folder
    BY <1>7 DEF AddEnds, ApiInv, StagingKnown, FoldersTypeOK
  <2>2. Present(scans[reqs[c].input]) \in SUBSET Vols
    BY <2>1, PresentType
  <2>3. books' \in [Names -> Folder]
    <3>1. CASE placed
      BY <1>7, <3>1, <2>2, PresentType DEF AddEnds, FoldersTypeOK
    <3>2. CASE ~placed
      BY <1>7, <3>2 DEF AddEnds, FoldersTypeOK
    <3> QED
      BY <3>1, <3>2
  <2>4. scans' \in [Names -> Folder]
    BY <1>7, <1>0 DEF AddEnds, FoldersTypeOK
  <2> QED
    BY <1>7, <2>3, <2>4, ReplyType DEF AddEnds, tableVars, TableTypeOK, FoldersTypeOK
<1> QED
  BY <1>1, <1>2, <1>3, <1>4, <1>5, <1>6, <1>7 DEF UploadStep

LEMMA JobRequestStepType ==
    ASSUME TableTypeOK, FoldersTypeOK, ApiInv, NEW c \in Clients, JobRequestStep(c)
    PROVE  TableTypeOK' /\ FoldersTypeOK' /\ ApiInv'
<1>0. /\ reqs[c] \in Request
      /\ reqs[c].name \in Names \cup {NoName}
      /\ reqs[c].count \in Nat
  BY RequestCount DEF ApiInv, ApiTypeOK
<1>1. ASSUME NEW b \in Books, NEW k \in {1} \cup BulkSizes, NEW bulk \in BOOLEAN,
             ReconvertCheck(c, b, k, bulk)
      PROVE  TableTypeOK' /\ FoldersTypeOK' /\ ApiInv'
  <2>1. k \in {0, 1} \cup BulkSizes
    OBVIOUS
  <2>2. [NoRequest EXCEPT !.pc = "insertReconvert", !.name = b, !.count = k] \in Request
    BY <2>1, NoRequestType DEF Request, Names
  <2>3. ApiInv'
    BY <1>1, <2>2, ReceiveType DEF ReconvertCheck, NoRequest
  <2> QED
    BY <1>1, <2>3 DEF ReconvertCheck, tableVars, folderVars, TableTypeOK, FoldersTypeOK
<1>2. CASE ReconvertInsert(c)
  <2>1. TableTypeOK'
    BY <1>2, <1>0, StatementsType DEF ReconvertInsert
  <2> QED
    BY <1>2, <2>1, ReplyType DEF ReconvertInsert, folderVars, FoldersTypeOK
<1>3. ASSUME NEW j \in JobIds, ReadJob(c, j)
      PROVE  TableTypeOK' /\ FoldersTypeOK' /\ ApiInv'
  <2> DEFINE running == jobs[j].status = "running"
             req == [NoRequest EXCEPT !.pc = IF running THEN "stop" ELSE "deleteRow",
                                      !.job = j,
                                      !.disposable = ~running /\ Disposable(j)]
  <2>1. j \in 0..MaxJobs
    BY ConversionJobsAssumption DEF JobIds
  <2>2. (~running /\ Disposable(j)) \in BOOLEAN
    BY DEF Disposable
  <2>3. req \in Request
    BY <2>1, <2>2, NoRequestType DEF Request
  <2>4. req.pc # "extract"
    BY DEF NoRequest
  <2>5. Receive(c, "delete", req)
    BY <1>3 DEF ReadJob
  <2>6. ApiInv'
    BY <2>3, <2>4, <2>5, ReceiveType
  <2> QED
    BY <1>3, <2>6 DEF ReadJob, tableVars, folderVars, TableTypeOK, FoldersTypeOK
<1>4. CASE StopJob(c)
  <2>1. TableTypeOK'
    BY <1>4, StatementsType DEF StopJob
  <2> QED
    BY <1>4, <2>1, ReplyType DEF StopJob, folderVars, FoldersTypeOK
<1>5. CASE DeleteJob(c)
  <2>1. TableTypeOK'
    BY <1>5, StatementsType DEF DeleteJob
  <2>2. ApiInv'
    BY <1>5, ReplyType, GotoType DEF DeleteJob
  <2> QED
    BY <1>5, <2>1, <2>2 DEF DeleteJob, folderVars, FoldersTypeOK
<1>6. CASE WipeInput(c)
  <2>1. NoDir \in Folder
    BY DEF Folder
  <2>2. FoldersTypeOK'
    BY <1>6, <2>1 DEF WipeInput, RemoveScan, FoldersTypeOK
  <2> QED
    BY <1>6, <2>2, ReplyType DEF WipeInput, tableVars, TableTypeOK
<1>7. CASE Pause(c)
  <2>1. [NoRequest EXCEPT !.pc = "pauseRunning"] \in Request
    BY NoRequestType DEF Request
  <2>2. ApiInv'
    BY <1>7, <2>1, ReceiveType DEF Pause, NoRequest
  <2>3. TableTypeOK'
    BY <1>7, StatementsType DEF Pause
  <2> QED
    BY <1>7, <2>2, <2>3 DEF Pause, folderVars, FoldersTypeOK
<1>8. CASE PauseRest(c)
  <2>1. TableTypeOK'
    BY <1>8, StatementsType DEF PauseRest
  <2> QED
    BY <1>8, <2>1, ReplyType DEF PauseRest, folderVars, FoldersTypeOK
<1>9. CASE Resume(c)
  <2>1. TableTypeOK'
    BY <1>9, StatementsType DEF Resume
  <2>2. ApiInv'
    BY <1>9, NoRequestType, ReceiveType DEF Resume, NoRequest
  <2> QED
    BY <1>9, <2>1, <2>2 DEF Resume, folderVars, FoldersTypeOK
<1> QED
  BY <1>1, <1>2, <1>3, <1>4, <1>5, <1>6, <1>7, <1>8, <1>9 DEF JobRequestStep

LEMMA BookStepType ==
    ASSUME TableTypeOK, FoldersTypeOK, ApiInv, NEW c \in Clients, BookStep(c)
    PROVE  TableTypeOK' /\ FoldersTypeOK' /\ ApiInv'
<1>0. NoDir \in Folder
  BY DEF Folder
<1>1. ASSUME NEW b \in Books, DeleteBookCheck(c, b)
      PROVE  TableTypeOK' /\ FoldersTypeOK' /\ ApiInv'
  <2>1. [NoRequest EXCEPT !.pc = "removeBook", !.name = b] \in Request
    BY NoRequestType DEF Request, Names
  <2>2. ApiInv'
    BY <1>1, <2>1, ReceiveType DEF DeleteBookCheck, NoRequest
  <2> QED
    BY <1>1, <2>2 DEF DeleteBookCheck, tableVars, folderVars, TableTypeOK, FoldersTypeOK
<1>2. ASSUME NEW b \in Books, NEW v \in Vols, DeleteVolumeCheck(c, b, v)
      PROVE  TableTypeOK' /\ FoldersTypeOK' /\ ApiInv'
  <2>1. [NoRequest EXCEPT !.pc = "removeEpub", !.name = b, !.vols = {v}] \in Request
    BY NoRequestType DEF Request, Names
  <2>2. ApiInv'
    BY <1>2, <2>1, ReceiveType DEF DeleteVolumeCheck, NoRequest
  <2> QED
    BY <1>2, <2>2 DEF DeleteVolumeCheck, tableVars, folderVars, TableTypeOK, FoldersTypeOK
<1>3. CASE DeleteBookStep(c)
  <2>1. ApiInv'
    BY <1>3, GotoType, ReplyType DEF DeleteBookStep
  <2>2. FoldersTypeOK'
    BY <1>3, <1>0 DEF DeleteBookStep, RemoveBook, RemoveScan, FoldersTypeOK
  <2> QED
    BY <1>3, <2>1, <2>2 DEF DeleteBookStep, tableVars, TableTypeOK
<1>4. CASE DeleteVolumeStep(c)
  <2> DEFINE without(f) == IF f = NoDir THEN NoDir ELSE f \ reqs[c].vols
  <2>1. ASSUME NEW f \in Folder PROVE without(f) \in Folder
    <3>1. CASE f = NoDir
      BY <3>1, <1>0
    <3>2. CASE f # NoDir
      <4>1. f \in SUBSET Vols
        BY <3>2 DEF Folder
      <4>2. f \ reqs[c].vols \in SUBSET Vols
        BY <4>1
      <4> QED
        BY <3>2, <4>2 DEF Folder
    <3> QED
      BY <3>1, <3>2
  <2>2. \/ /\ books' = [books EXCEPT ![reqs[c].name] = without(books[reqs[c].name])]
           /\ Goto(c, "removeRaw") /\ UNCHANGED scans
        \/ /\ scans' = [scans EXCEPT ![reqs[c].name] = without(scans[reqs[c].name])]
           /\ Reply(c) /\ UNCHANGED books
    BY <1>4 DEF DeleteVolumeStep
  <2>3. ApiInv'
    BY <2>2, GotoType, ReplyType
  <2> HIDE DEF without
  <2>4. FoldersTypeOK'
    BY <2>1, <2>2 DEF FoldersTypeOK
  <2> QED
    BY <1>4, <2>3, <2>4 DEF DeleteVolumeStep, tableVars, TableTypeOK
<1> QED
  BY <1>1, <1>2, <1>3, <1>4 DEF BookStep

-----------------------------------------------------------------------------
(* Type correctness of the whole system.                                   *)

TypeInv == TypeOK /\ StagingKnown

LEMMA InitTypeInv == Init => TypeInv
<1> SUFFICES ASSUME Init PROVE TypeInv
  OBVIOUS
<1>1. TableTypeOK
  <2>1. 0 \in 0..MaxJobs
    BY ConversionJobsAssumption
  <2> QED
    BY <2>1, NoRowType DEF Init, TableInit, TableTypeOK
<1>2. FoldersTypeOK
  BY DEF Init, FoldersInit, FoldersTypeOK
<1>3. WorkerTypeOK
  BY IdleType, WorkerAssumption DEF Init, WorkerInit, WorkerTypeOK
<1>4. ApiTypeOK /\ StagingKnown
  BY NoRequestType DEF Init, ApiInit, ApiTypeOK, StagingKnown, At, NoRequest
<1> QED
  BY <1>1, <1>2, <1>3, <1>4 DEF TypeInv, TypeOK

LEMMA NextTypeInv == TypeInv /\ [Next]_vars => TypeInv'
<1> SUFFICES ASSUME TypeInv, [Next]_vars PROVE TypeInv'
  OBVIOUS
<1>0. TableTypeOK /\ FoldersTypeOK /\ WorkerTypeOK /\ ApiInv
  BY DEF TypeInv, TypeOK, ApiInv
<1>1. ASSUME NEW w \in Workers, WorkerNext(w), UNCHANGED reqs
      PROVE  TypeInv'
  <2>1. TableTypeOK' /\ FoldersTypeOK' /\ WorkerTypeOK'
    BY <1>0, <1>1, WorkerStepType
  <2>2. ApiTypeOK' /\ StagingKnown'
    BY <1>0, <1>1 DEF ApiInv, ApiTypeOK, StagingKnown, At
  <2> QED
    BY <2>1, <2>2 DEF TypeInv, TypeOK
<1>2. ASSUME NEW c \in Clients, UploadStep(c) \/ JobRequestStep(c) \/ BookStep(c) \/ Abandon(c),
             UNCHANGED workerVars
      PROVE  TypeInv'
  <2>1. WorkerTypeOK'
    BY <1>0, <1>2 DEF workerVars, WorkerTypeOK
  <2>2. TableTypeOK' /\ FoldersTypeOK' /\ ApiInv'
    <3>1. CASE Abandon(c)
      BY <1>0, <3>1, ReplyType
      DEF Abandon, tableVars, folderVars, TableTypeOK, FoldersTypeOK
    <3> QED
      BY <1>0, <1>2, <3>1, UploadStepType, JobRequestStepType, BookStepType
  <2> QED
    BY <2>1, <2>2 DEF TypeInv, TypeOK, ApiInv
<1>3. CASE UserNext /\ UNCHANGED workerVars
  <2>1. PICK b \in Books, v \in Vols : DropVolume(b, v)
    BY <1>3 DEF UserNext
  <2>2. {v} \in SUBSET Vols
    OBVIOUS
  <2>3. FoldersTypeOK'
    BY <1>0, <2>1, <2>2, PresentType DEF DropVolume, FoldersTypeOK
  <2>4. TableTypeOK' /\ WorkerTypeOK' /\ ApiTypeOK' /\ StagingKnown'
    BY <1>0, <1>3 DEF UserNext, tableVars, workerVars, TableTypeOK, WorkerTypeOK, ApiInv,
                      ApiTypeOK, StagingKnown, At
  <2> QED
    BY <2>3, <2>4 DEF TypeInv, TypeOK
<1>4. CASE UNCHANGED vars
  BY <1>4 DEF vars, tableVars, folderVars, workerVars, TypeInv, TypeOK, TableTypeOK,
              FoldersTypeOK, WorkerTypeOK, ApiTypeOK, StagingKnown, At
<1> QED
  BY <1>1, <1>2, <1>3, <1>4 DEF Next, ApiNext

\* Every variable always has the type the code gives it, for any number of
\* workers, books, volumes, rows and requests: in particular no interleaving of
\* uploads, removals and conversions leaves a folder that is neither absent nor
\* a set of volumes, and no statement writes a row outside the schema.
THEOREM TypeCorrect == Spec => []TypeOK
<1>1. Init => TypeInv
  BY InitTypeInv
<1>2. TypeInv /\ [Next]_vars => TypeInv'
  BY NextTypeInv
<1>3. TypeInv => TypeOK
  BY DEF TypeInv
<1> QED
  BY <1>1, <1>2, <1>3, PTL DEF Spec

-----------------------------------------------------------------------------
(* The queue, driven by one worker process.                                *)

OneWorker == \A v, w \in Workers : v = w

-----------------------------------------------------------------------------
(* The inductive invariant.                                                *)

\* Rows are inserted in the order of their ids.
RowsInOrder == \A j \in JobIds : jobs[j].status = "none" <=> j > lastId

\* A process that has not finished its rescue has no claim, no goroutine and no
\* manual folder in hand.
DownIdle ==
    \A w \in Workers : proc[w] # "up" =>
        /\ locked[w] = 0
        /\ scanning[w] = NoName
        /\ \A j \in JobIds : runs[w][j].pc = "idle"

\* What a claim has seen stays true until it commits.
ClaimStands ==
    \A w \in Workers, j \in JobIds : locked[w] = j =>
        /\ jobs[j].status = "pending"
        /\ \A k \in JobIds :
              jobs[k].status = "running" /\ ~jobs[k].manual => jobs[k].name # jobs[j].name

RunsTracked ==
    \A w \in Workers, j \in JobIds : runs[w][j].pc # "idle" => jobs[j].status # "none"

\* The permission to wipe is as good as on the day it was given.
PermissionStands ==
    \A w \in Workers, j \in JobIds :
        runs[w][j].pc # "idle" /\ runs[w][j].allowCleanup
            => ~jobs[j].forceOcr /\ ~jobs[j].manual

QueueInv ==
    /\ TypeInv
    /\ RowsInOrder
    /\ DownIdle
    /\ ClaimStands
    /\ RunsTracked
    /\ PermissionStands
    /\ RunOwnsRow
    /\ SerialPerBook
    /\ CleanupOnlyDisposable

-----------------------------------------------------------------------------
(* Most steps are quiet: no row starts running or leaves a goroutine's     *)
(* hands, and goroutines only go on or end.                                *)

Over == {"failed", "stopped", "deleted"}

RowsKept ==
    \A j \in JobIds :
        /\ jobs'[j].status = "none" <=> j > lastId'
        /\ jobs[j].status # "none" =>
              /\ jobs'[j].status # "none"
              /\ jobs'[j].name = jobs[j].name
              /\ jobs'[j].forceOcr = jobs[j].forceOcr
              /\ jobs'[j].manual = jobs[j].manual

QuietRows ==
    /\ RowsKept
    /\ \A j \in JobIds :
        /\ jobs'[j].status = "running" => jobs[j].status = "running"
        /\ jobs[j].status = "running" => jobs'[j].status \in {"running", "deleted"}
        /\ jobs[j].status = "deleted" => jobs'[j].status = "deleted"
        /\ jobs[j].status \in Over => jobs'[j].status \in Over
        /\ \A w \in Workers : locked[w] = j => jobs'[j].status = jobs[j].status

QuietRuns ==
    \A w \in Workers, j \in JobIds : runs'[w][j].pc # "idle" =>
        /\ runs[w][j].pc # "idle"
        /\ runs'[w][j].allowCleanup => runs[w][j].allowCleanup
        /\ runs'[w][j].pc \in Live => runs[w][j].pc \in Live
        /\ runs'[w][j].pc \in Cleaning => runs[w][j].pc \in Cleaning

QuietProcs ==
    \A w \in Workers :
        /\ locked'[w] \in {locked[w], 0}
        /\ proc'[w] # "up" =>
              \/ proc[w] # "up" /\ scanning'[w] \in {scanning[w], NoName}
              \/ /\ locked'[w] = 0
                 /\ scanning'[w] = NoName
                 /\ \A j \in JobIds : runs'[w][j].pc = "idle"

LEMMA FaultsCounted == ASSUME TypeInv' PROVE faults' # 0 <=> faults' > 0
<1>1. faults' \in Nat
  BY WorkerAssumption DEF TypeInv, TypeOK, WorkerTypeOK
<1> QED
  BY <1>1

LEMMA QuietStep ==
    ASSUME QueueInv, TypeInv', QuietRows, QuietRuns, QuietProcs,
           faults' = 0 => faults = 0
    PROVE  QueueInv'
<1>1. RowsInOrder'
  BY DEF QuietRows, RowsKept, RowsInOrder, JobIds
<1>2. DownIdle'
  BY DEF QueueInv, DownIdle, QuietRuns, QuietProcs, JobIds
<1>3. ClaimStands'
  <2> SUFFICES ASSUME NEW w \in Workers, NEW j \in JobIds, locked'[w] = j
               PROVE  /\ jobs'[j].status = "pending"
                      /\ \A k \in JobIds : jobs'[k].status = "running" /\ ~jobs'[k].manual
                                              => jobs'[k].name # jobs'[j].name
    BY DEF ClaimStands, JobIds
  <2>1. locked[w] = j
    BY DEF QuietProcs, JobIds
  <2>2. jobs[j].status = "pending" /\ jobs'[j].status = "pending" /\ jobs'[j].name = jobs[j].name
    BY <2>1 DEF QueueInv, ClaimStands, QuietRows, RowsKept
  <2>3. ASSUME NEW k \in JobIds, jobs'[k].status = "running", ~jobs'[k].manual
        PROVE  jobs'[k].name # jobs'[j].name
    <3>1. /\ jobs[k].status = "running" /\ ~jobs[k].manual
          /\ jobs'[k].name = jobs[k].name
      BY <2>3 DEF QuietRows, RowsKept
    <3> QED
      BY <2>1, <2>2, <3>1 DEF QueueInv, ClaimStands
  <2> QED
    BY <2>2, <2>3
<1>4. RunsTracked'
  BY DEF QueueInv, RunsTracked, QuietRuns, QuietRows, RowsKept, JobIds
<1>5. PermissionStands'
  BY DEF QueueInv, RunsTracked, PermissionStands, QuietRuns, QuietRows, RowsKept, JobIds
<1>6. RunOwnsRow'
  <2> SUFFICES ASSUME NEW w \in Workers, NEW j \in JobIds, runs'[w][j].pc \in Live
               PROVE  jobs'[j].status \in {"running", "deleted"}
    BY DEF RunOwnsRow, IsLive, JobIds
  <2>1. runs[w][j].pc \in Live
    BY DEF QuietRuns, Live
  <2>2. jobs[j].status \in {"running", "deleted"}
    BY <2>1 DEF QueueInv, RunOwnsRow, IsLive
  <2> QED
    BY <2>2 DEF QuietRows
<1>7. SerialPerBook'
  <2> SUFFICES ASSUME NEW j \in JobIds, NEW k \in JobIds, j # k,
                      jobs'[j].status = "running", jobs'[k].status = "running",
                      ~jobs'[j].manual, ~jobs'[k].manual
               PROVE  jobs'[j].name # jobs'[k].name
    BY DEF SerialPerBook, JobIds
  <2>1. jobs[j].status = "running" /\ jobs[k].status = "running"
    BY DEF QuietRows
  <2> QED
    BY <2>1 DEF QuietRows, RowsKept, QueueInv, SerialPerBook
<1>8. CleanupOnlyDisposable'
  <2> SUFFICES ASSUME NEW w \in Workers, NEW j \in JobIds, runs'[w][j].pc \in Cleaning
               PROVE  /\ ~jobs'[j].forceOcr /\ ~jobs'[j].manual
                      /\ jobs'[j].status \in Over \cup {"running"}
                      /\ faults' = 0 => jobs'[j].status \in Over
    BY FaultsCounted DEF CleanupOnlyDisposable, JobIds, Over
  <2>1. runs[w][j].pc \in Cleaning /\ runs[w][j].pc # "idle"
    BY DEF QuietRuns, Cleaning
  <2>2. /\ jobs[j].status # "none"
        /\ ~jobs[j].forceOcr /\ ~jobs[j].manual
        /\ jobs[j].status \in Over \cup {"running"}
        /\ faults = 0 => jobs[j].status \in Over
    BY <2>1 DEF QueueInv, RunsTracked, CleanupOnlyDisposable, Over
  <2>3. jobs[j].status = "running" => jobs'[j].status \in Over \cup {"running"}
    BY DEF QuietRows, Over
  <2> QED
    BY <2>2, <2>3 DEF QuietRows, RowsKept
<1> QED
  BY <1>1, <1>2, <1>3, <1>4, <1>5, <1>6, <1>7, <1>8 DEF QueueInv

-----------------------------------------------------------------------------
(* The statements of requests and of the volume callback are quiet.        *)

LEMMA UnchangedRowsQuiet ==
    ASSUME QueueInv, UNCHANGED <<jobs, lastId>>
    PROVE  QuietRows
BY DEF QueueInv, RowsInOrder, QuietRows, RowsKept

LEMMA InsertRowsQuiet ==
    ASSUME QueueInv, NEW k \in Nat, NEW row, row.status = "pending", row \in Row,
           InsertRows(k, row)
    PROVE  QuietRows /\ UNCHANGED locked
<1>1. lastId \in Nat /\ lastId' = lastId + k /\ JobIds \subseteq Nat
  BY ConversionJobsAssumption DEF QueueInv, TypeInv, TypeOK, TableTypeOK, InsertRows, JobIds
<1>2. ASSUME NEW j \in JobIds, j > lastId, j <= lastId + k
      PROVE  jobs[j].status = "none" /\ jobs'[j].status = "pending"
  <2>1. j \in (lastId + 1)..(lastId + k)
    BY <1>1, <1>2 DEF JobIds
  <2>2. jobs'[j] = [row EXCEPT !.createdAt = lastId + 1]
    BY <2>1 DEF InsertRows
  <2> QED
    BY <1>2, <2>2 DEF QueueInv, RowsInOrder, Row
<1>3. ASSUME NEW j \in JobIds, ~(j > lastId /\ j <= lastId + k)
      PROVE  jobs'[j] = jobs[j]
  BY <1>1, <1>3 DEF InsertRows
<1>4. \A j \in JobIds : jobs[j].status = "none" <=> j > lastId
  BY DEF QueueInv, RowsInOrder
<1>5. \A j \in JobIds : jobs'[j].status = "none" <=> j > lastId'
  BY <1>1, <1>2, <1>3, <1>4 DEF JobIds
<1>6. RowsKept
  BY <1>2, <1>3, <1>5 DEF RowsKept
<1>7. \A w \in Workers, j \in JobIds : locked[w] = j => jobs'[j].status = jobs[j].status
  BY <1>2, <1>3 DEF QueueInv, ClaimStands
<1> QED
  BY <1>2, <1>3, <1>6, <1>7 DEF QuietRows, Over, InsertRows

LEMMA UpdateRowQuiet ==
    ASSUME QueueInv, NEW j, NEW row, UpdateRow(j, row),
           j \in JobIds /\ Exists(j) =>
              /\ row.status \in {jobs[j].status, "deleted"}
              /\ row.name = jobs[j].name
              /\ row.forceOcr = jobs[j].forceOcr /\ row.manual = jobs[j].manual
    PROVE  QuietRows /\ UNCHANGED locked
<1>1. \A k \in JobIds : jobs'[k] = IF k = j /\ Exists(j) THEN row ELSE jobs[k]
  BY DEF UpdateRow, QueueInv, TypeInv, TypeOK, TableTypeOK
<1>2. lastId' = lastId /\ locked' = locked /\ Unlocked(j)
  BY DEF UpdateRow
<1>3. j \in JobIds /\ Exists(j) => jobs[j].status \notin {"none", "deleted"}
  BY DEF Exists
<1>4. RowsKept
  BY <1>1, <1>2, <1>3 DEF RowsKept, QueueInv, RowsInOrder
<1>5. \A w \in Workers, k \in JobIds : locked[w] = k => jobs'[k].status = jobs[k].status
  BY <1>1, <1>2 DEF Unlocked
<1> QED
  BY <1>1, <1>2, <1>3, <1>4, <1>5 DEF QuietRows, Over

LEMMA UpdateRowsQuiet ==
    ASSUME QueueInv, NEW new, UpdateRows(new),
           \A j \in JobIds : j \in DOMAIN new =>
              /\ jobs[j].status \in {"pending", "paused", "running"}
              /\ new[j].status \in {"pending", "paused", "running"}
              /\ new[j].status = "running" <=> jobs[j].status = "running"
              /\ new[j].name = jobs[j].name
              /\ new[j].forceOcr = jobs[j].forceOcr /\ new[j].manual = jobs[j].manual
    PROVE  QuietRows /\ UNCHANGED locked
<1>1. \A j \in JobIds : jobs'[j] = IF j \in DOMAIN new THEN new[j] ELSE jobs[j]
  BY DEF UpdateRows
<1>2. lastId' = lastId /\ locked' = locked
  BY DEF UpdateRows
<1>3. RowsKept
  BY <1>1, <1>2 DEF RowsKept, QueueInv, RowsInOrder
<1>4. \A w \in Workers, j \in JobIds : locked[w] = j => j \notin DOMAIN new
  BY DEF UpdateRows, Unlocked
<1> QED
  BY <1>1, <1>2, <1>3, <1>4 DEF QuietRows, Over

LEMMA StatementsQuiet ==
    ASSUME QueueInv
    PROVE  /\ \A k \in Nat, n \in Names \cup {NoName}, input \in Names \cup {NoName}, force \in BOOLEAN :
                 CreateJobs(k, n, input, force) => QuietRows /\ UNCHANGED locked
           /\ \A j : RequestStop(j) \/ DeleteRow(j) \/ UpdateJobVolume(j)
                        => QuietRows /\ UNCHANGED locked
           /\ PausePending \/ PauseRunning \/ ResumePaused => QuietRows /\ UNCHANGED locked
<1>0. \A j \in JobIds : jobs[j] \in Row
  BY DEF QueueInv, TypeInv, TypeOK, TableTypeOK
<1>1. ASSUME NEW k \in Nat, NEW n \in Names \cup {NoName}, NEW input \in Names \cup {NoName},
             NEW force \in BOOLEAN, CreateJobs(k, n, input, force)
      PROVE  QuietRows /\ UNCHANGED locked
  <2> DEFINE row == [NoRow EXCEPT !.status = "pending", !.name = n, !.inputPath = input,
                                  !.forceOcr = force]
  <2>1. "pending" \in Status
    BY DEF Status, Active
  <2>2. row \in Row /\ row.status = "pending"
    BY <2>1, NoRowType DEF Row
  <2>3. InsertRows(k, row)
    BY <1>1 DEF CreateJobs
  <2> QED
    BY <2>2, <2>3, InsertRowsQuiet
<1>2. ASSUME NEW j, RequestStop(j) PROVE QuietRows /\ UNCHANGED locked
  <2>1. j \in JobIds => [jobs[j] EXCEPT !.stopReq = TRUE].status = jobs[j].status
    BY <1>0 DEF Row
  <2> QED
    BY <1>0, <1>2, <2>1, UpdateRowQuiet DEF RequestStop, Row
<1>3. ASSUME NEW j, UpdateJobVolume(j) PROVE QuietRows /\ UNCHANGED locked
  BY <1>0, <1>3, UpdateRowQuiet DEF UpdateJobVolume, Row
<1>4. ASSUME NEW j, DeleteRow(j) PROVE QuietRows /\ UNCHANGED locked
  <2> DEFINE row == [NoRow EXCEPT !.status = "deleted", !.name = jobs[j].name,
                                  !.inputPath = jobs[j].inputPath,
                                  !.forceOcr = jobs[j].forceOcr, !.manual = jobs[j].manual]
  <2>1. /\ row.status = "deleted" /\ row.name = jobs[j].name
        /\ row.forceOcr = jobs[j].forceOcr /\ row.manual = jobs[j].manual
    BY DEF NoRow
  <2>2. UpdateRow(j, row)
    BY <1>4 DEF DeleteRow
  <2> QED
    BY <2>1, <2>2, UpdateRowQuiet
<1>5. ASSUME PausePending \/ PauseRunning \/ ResumePaused PROVE QuietRows /\ UNCHANGED locked
  <2>1. CASE PausePending
    BY <1>0, <2>1, UpdateRowsQuiet DEF PausePending, WithStatus, Row
  <2>2. CASE PauseRunning
    BY <1>0, <2>2, UpdateRowsQuiet DEF PauseRunning, WithStatus, Row
  <2>3. CASE ResumePaused
    BY <1>0, <2>3, UpdateRowsQuiet DEF ResumePaused, WithStatus, Row
  <2> QED
    BY <1>5, <2>1, <2>2, <2>3
<1> QED
  BY <1>1, <1>2, <1>3, <1>4, <1>5

\* No step of a request or of the user disturbs the queue.
LEMMA RequestsKeepQueue ==
    ASSUME QueueInv, TypeInv', ApiNext \/ UserNext, UNCHANGED workerVars
    PROVE  QueueInv'
<1>0. QuietRuns /\ (UNCHANGED locked => QuietProcs)
  BY DEF workerVars, QuietRuns, QuietProcs
<1>1. QuietRows /\ UNCHANGED locked => QueueInv'
  BY <1>0, QuietStep DEF workerVars
<1>2. UNCHANGED tableVars => QueueInv'
  BY <1>1, UnchangedRowsQuiet DEF tableVars
<1>3. CASE UserNext
  BY <1>2, <1>3 DEF UserNext
<1>4. ASSUME NEW c \in Clients, UploadStep(c) PROVE QueueInv'
  <2>1. reqs[c].name \in Names \cup {NoName} /\ reqs[c].input \in Names \cup {NoName}
    BY DEF QueueInv, TypeInv, TypeOK, ApiTypeOK, Request
  <2>2. CASE UploadInsert(c) \/ AddInsert(c)
    BY <1>1, <2>1, <2>2, StatementsQuiet DEF UploadInsert, AddInsert
  <2> QED
    BY <1>2, <1>4, <2>2
    DEF UploadStep, UploadCheck, UploadRename, UploadFinished, AddStage, AddExtract, AddEnds
<1>5. ASSUME NEW c \in Clients, JobRequestStep(c) PROVE QueueInv'
  <2>1. reqs[c].name \in Names \cup {NoName} /\ reqs[c].count \in Nat
    BY RequestCount DEF QueueInv, TypeInv, TypeOK, ApiTypeOK
  <2>2. CASE ReconvertInsert(c)
    BY <1>1, <2>1, <2>2, StatementsQuiet DEF ReconvertInsert
  <2>3. CASE StopJob(c) \/ DeleteJob(c) \/ Pause(c) \/ PauseRest(c) \/ Resume(c)
    BY <1>1, <2>3, StatementsQuiet DEF StopJob, DeleteJob, Pause, PauseRest, Resume
  <2> QED
    BY <1>2, <1>5, <2>2, <2>3 DEF JobRequestStep, ReconvertCheck, ReadJob, WipeInput
<1>6. ASSUME NEW c \in Clients, BookStep(c) \/ Abandon(c) PROVE QueueInv'
  BY <1>2, <1>6
  DEF BookStep, Abandon, DeleteBookCheck, DeleteVolumeCheck, DeleteBookStep, DeleteVolumeStep
<1> QED
  BY <1>3, <1>4, <1>5, <1>6 DEF ApiNext

-----------------------------------------------------------------------------
(* The worker's quiet steps.                                               *)

\* A goroutine goes on, or ends.
LEMMA RunStepKeepsQueue ==
    ASSUME QueueInv, TypeInv', NEW w \in Workers, NEW j \in JobIds, NEW run,
           SetRun(w, j, run), UNCHANGED tableVars, runs[w][j].pc # "idle",
           run.pc # "idle" =>
              /\ run.allowCleanup => runs[w][j].allowCleanup
              /\ run.pc \in Live => runs[w][j].pc \in Live
              /\ run.pc \in Cleaning => runs[w][j].pc \in Cleaning
    PROVE  QueueInv'
<1>1. \A v \in Workers, k \in JobIds :
         runs'[v][k] = IF v = w /\ k = j THEN run ELSE runs[v][k]
  BY DEF SetRun, QueueInv, TypeInv, TypeOK, WorkerTypeOK
<1>2. QuietRuns
  BY <1>1 DEF QuietRuns
<1>3. QuietProcs
  BY DEF SetRun, QuietProcs, tableVars
<1>4. QuietRows
  BY UnchangedRowsQuiet DEF tableVars
<1> QED
  BY <1>2, <1>3, <1>4, QuietStep DEF SetRun

QuietJobStep(w, j) ==
    \/ Poll(w, j) \/ Prepare(w, j)
    \/ \E v \in Vols : BuildTextPDF(w, j, v) \/ BuildVolume(w, j, v)
    \/ AcquireGPU(w, j) \/ StartVolume(w, j)
    \/ \E err \in BOOLEAN : ConvertReturns(w, j, err)
    \/ CleanInput(w, j) \/ CleanOutput(w, j)

LEMMA QuietJobStepKeepsQueue ==
    ASSUME QueueInv, TypeInv', NEW w \in Workers, NEW j \in JobIds, QuietJobStep(w, j)
    PROVE  QueueInv'
<1> DEFINE r == runs[w][j]
<1>0. r \in Run
  BY RunsType DEF QueueInv, TypeInv, TypeOK
<1>1. CASE Poll(w, j)
  BY <1>0, <1>1, RunStepKeepsQueue DEF Poll, Run, Live, Cleaning
<1>2. CASE Prepare(w, j)
  <2>1. SetRun(w, j, [r EXCEPT !.pc = "preparing"]) /\ UNCHANGED tableVars /\ r.pc = "launched"
    BY <1>2 DEF Prepare
  <2> QED
    BY <1>0, <2>1, RunStepKeepsQueue DEF Run, Live, Cleaning
<1>3. ASSUME NEW v \in Vols, BuildTextPDF(w, j, v) \/ BuildVolume(w, j, v) PROVE QueueInv'
  <2>1. SetRun(w, j, [r EXCEPT !.ok = TRUE]) /\ UNCHANGED tableVars /\ r.pc \in {"preparing", "ocr"}
    BY <1>3 DEF BuildTextPDF, BuildVolume
  <2> QED
    BY <1>0, <2>1, RunStepKeepsQueue DEF Run, Live, Cleaning
<1>4. CASE AcquireGPU(w, j)
  BY <1>0, <1>4, RunStepKeepsQueue DEF AcquireGPU, Run, Live, Cleaning
<1>5. CASE StartVolume(w, j)
  <2>1. QuietRows /\ UNCHANGED locked
    BY <1>5, StatementsQuiet DEF StartVolume
  <2>2. QuietRuns /\ QuietProcs /\ faults' = faults
    BY <1>5, <2>1 DEF StartVolume, workerVars, QuietRuns, QuietProcs
  <2> QED
    BY <2>1, <2>2, QuietStep
<1>6. ASSUME NEW err \in BOOLEAN, ConvertReturns(w, j, err) PROVE QueueInv'
  <2>1. PICK ok \in {r.ok, r.ok /\ ~(err /\ r.pc = "preparing")} :
           SetRun(w, j, [r EXCEPT !.pc = IF r.signal = "pause" THEN "pausing" ELSE "returned",
                                  !.err = err, !.ok = ok])
    BY <1>6 DEF ConvertReturns
  <2>2. UNCHANGED tableVars /\ r.pc \in {"launched", "preparing", "ocr"}
    BY <1>6 DEF ConvertReturns
  <2> QED
    BY <1>0, <2>1, <2>2, RunStepKeepsQueue DEF Run, Live, Cleaning
<1>7. CASE CleanInput(w, j)
  <2>1. SetRun(w, j, [r EXCEPT !.pc = "cleanOutput"]) /\ UNCHANGED tableVars /\ r.pc = "cleanInput"
    BY <1>7 DEF CleanInput
  <2> QED
    BY <1>0, <2>1, RunStepKeepsQueue DEF Run, Live, Cleaning
<1>8. CASE CleanOutput(w, j)
  BY <1>8, RunStepKeepsQueue DEF CleanOutput, Idle, Live, Cleaning
<1> QED
  BY <1>1, <1>2, <1>3, <1>4, <1>5, <1>6, <1>7, <1>8 DEF QuietJobStep

\* Steps of the process that touch neither the table nor a goroutine, and its death.
LEMMA QuietProcessStepKeepsQueue ==
    ASSUME QueueInv, TypeInv', NEW w \in Workers,
           \/ Start(w) \/ ReclaimFails(w) \/ Crash(w) \/ ScanFail(w)
           \/ \E n \in Names : ScanCheck(w, n) \/ ScanExit(w, n)
    PROVE  QueueInv'
<1>1. CASE Crash(w)
  <2>1. /\ \A v \in Workers : locked'[v] = IF v = w THEN 0 ELSE locked[v]
        /\ \A v \in Workers : proc'[v] = IF v = w THEN "down" ELSE proc[v]
        /\ \A v \in Workers : scanning'[v] = IF v = w THEN NoName ELSE scanning[v]
        /\ \A v \in Workers, j \in JobIds : runs'[v][j] = IF v = w THEN Idle ELSE runs[v][j]
    BY <1>1 DEF Crash, QueueInv, TypeInv, TypeOK, TableTypeOK, WorkerTypeOK
  <2>2. QuietRuns /\ QuietProcs
    BY <2>1 DEF QuietRuns, QuietProcs, Idle
  <2>3. QuietRows /\ faults' = faults
    BY <1>1, UnchangedRowsQuiet DEF Crash
  <2> QED
    BY <2>2, <2>3, QuietStep
<1>2. CASE ~Crash(w)
  <2>1. UNCHANGED <<tableVars, runs>>
    BY <1>2 DEF Start, SetProc, ReclaimFails, ScanFail, ScanCheck, ScanExit
  <2>2. QuietRows /\ QuietRuns
    BY <2>1, UnchangedRowsQuiet DEF tableVars, QuietRuns
  <2>3. \A v \in Workers :
           proc'[v] # "up" => proc[v] # "up" /\ scanning'[v] \in {scanning[v], NoName}
    BY <1>2 DEF Start, SetProc, ReclaimFails, ScanFail, ScanCheck, ScanExit,
                QueueInv, TypeInv, TypeOK, WorkerTypeOK
  <2>4. QuietProcs
    BY <2>1, <2>3 DEF QuietProcs, tableVars
  <2>5. faults \in Nat
    BY DEF QueueInv, TypeInv, TypeOK, WorkerTypeOK
  <2>6. faults' = 0 => faults = 0
    BY <1>2, <2>5 DEF Start, SetProc, ReclaimFails, ScanFail, ScanCheck, ScanExit
  <2> QED
    BY <2>2, <2>4, <2>6, QuietStep
<1> QED
  BY <1>1, <1>2

-----------------------------------------------------------------------------
(* The steps that move a row and its goroutine together.                   *)

LEMMA ClaimKeepsQueue ==
    ASSUME QueueInv, TypeInv', NEW w \in Workers, NEW j \in JobIds, Claim(w, j)
    PROVE  QueueInv'
<1>1. /\ UNCHANGED <<jobs, lastId, runs, proc, scanning, faults>>
      /\ proc[w] = "up"
      /\ \A v \in Workers : locked'[v] = IF v = w THEN j ELSE locked[v]
  BY DEF Claim, LockOldest, workerVars, QueueInv, TypeInv, TypeOK, TableTypeOK
<1>2. jobs[j].status = "pending"
      /\ \A k \in JobIds : jobs[k].status = "running" => jobs[k].name # jobs[j].name
  BY DEF Claim, LockOldest, Claimable
<1>3. DownIdle'
  BY <1>1 DEF QueueInv, DownIdle
<1>4. ClaimStands'
  BY <1>1, <1>2 DEF QueueInv, ClaimStands, JobIds
<1> QED
  BY <1>1, <1>3, <1>4
  DEF QueueInv, RowsInOrder, RunsTracked, PermissionStands, RunOwnsRow, IsLive, SerialPerBook,
      CleanupOnlyDisposable, JobIds

LEMMA LaunchKeepsQueue ==
    ASSUME OneWorker, QueueInv, TypeInv', NEW w \in Workers, NEW j \in JobIds, Launch(w, j)
    PROVE  QueueInv'
<1> DEFINE run == [Idle EXCEPT !.pc = "launched",
                               !.allowCleanup = ~jobs[j].forceOcr /\ ~jobs[j].manual]
<1>0. /\ jobs \in [JobIds -> Row] /\ locked \in [Workers -> 0..MaxJobs]
      /\ runs \in [Workers -> [JobIds -> Run]]
      /\ j # 0
  BY DEF QueueInv, TypeInv, TypeOK, TableTypeOK, WorkerTypeOK, JobIds
<1>01. /\ locked[w] = j
      /\ lastId' = lastId /\ proc' = proc /\ scanning' = scanning /\ faults' = faults
      /\ jobs' = [jobs EXCEPT ![j].status = "running"]
      /\ locked' = [locked EXCEPT ![w] = 0]
      /\ runs' = [runs EXCEPT ![w][j] = run]
  BY DEF Launch, CommitClaim, SetRun
<1>1. /\ locked[w] = j /\ j # 0
      /\ lastId' = lastId /\ proc' = proc /\ scanning' = scanning /\ faults' = faults
      /\ \A v \in Workers : locked'[v] = IF v = w THEN 0 ELSE locked[v]
      /\ \A k \in JobIds : jobs'[k] = IF k = j THEN [jobs[j] EXCEPT !.status = "running"]
                                               ELSE jobs[k]
      /\ \A v \in Workers, k \in JobIds :
            runs'[v][k] = IF v = w /\ k = j THEN run ELSE runs[v][k]
  <2> HIDE DEF run
  <2> QED
    BY <1>0, <1>01
<1>2. jobs[j] \in Row
  BY DEF QueueInv, TypeInv, TypeOK, TableTypeOK
<1>3. /\ jobs'[j].status = "running"
      /\ jobs'[j].name = jobs[j].name
      /\ jobs'[j].forceOcr = jobs[j].forceOcr /\ jobs'[j].manual = jobs[j].manual
  BY <1>1, <1>2 DEF Row
<1>4. /\ jobs[j].status = "pending"
      /\ \A k \in JobIds :
            jobs[k].status = "running" /\ ~jobs[k].manual => jobs[k].name # jobs[j].name
  BY <1>1 DEF QueueInv, ClaimStands
<1>5. run.pc = "launched" /\ run.allowCleanup = (~jobs[j].forceOcr /\ ~jobs[j].manual)
  BY DEF Idle
<1>6. \A v \in Workers : v = w
  BY DEF OneWorker
<1> HIDE DEF run
<1>7. RowsInOrder'
  BY <1>1, <1>3, <1>4 DEF QueueInv, RowsInOrder
<1>8. DownIdle'
  BY <1>1, <1>6 DEF QueueInv, DownIdle
<1>9. ClaimStands'
  BY <1>1, <1>6 DEF ClaimStands, JobIds
<1>10. RunsTracked'
  BY <1>1, <1>3 DEF QueueInv, RunsTracked
<1>11. PermissionStands'
  <2> SUFFICES ASSUME NEW v \in Workers, NEW k \in JobIds,
                      runs'[v][k].pc # "idle", runs'[v][k].allowCleanup
               PROVE  ~jobs'[k].forceOcr /\ ~jobs'[k].manual
    BY DEF PermissionStands
  <2>1. CASE k = j
    <3>1. run.allowCleanup
      BY <1>1, <1>6, <2>1
    <3> QED
      BY <1>3, <1>5, <2>1, <3>1
  <2>2. CASE k # j
    <3>1. runs'[v][k] = runs[v][k] /\ jobs'[k] = jobs[k]
      BY <1>1, <2>2
    <3> QED
      BY <3>1 DEF QueueInv, PermissionStands
  <2> QED
    BY <2>1, <2>2
<1>12. RunOwnsRow'
  BY <1>1, <1>3, <1>6 DEF QueueInv, RunOwnsRow, IsLive
<1>13. SerialPerBook'
  BY <1>1, <1>3, <1>4 DEF QueueInv, SerialPerBook
<1>14. CleanupOnlyDisposable'
  BY <1>1, <1>5, <1>6 DEF QueueInv, CleanupOnlyDisposable, Cleaning
<1> QED
  BY <1>7, <1>8, <1>9, <1>10, <1>11, <1>12, <1>13, <1>14 DEF QueueInv

\* The goroutine's verdict, or the loss of it.
LEMMA VerdictKeepsQueue ==
    ASSUME OneWorker, QueueInv, TypeInv', NEW w \in Workers, NEW j \in JobIds,
           runs[w][j].pc \in {"pausing", "returned"}, Settle(w, j),
           \A k \in JobIds \ {j} : jobs'[k] = jobs[k], UNCHANGED <<lastId, locked>>,
           jobs'[j].status # "none",
           jobs'[j].status = "running" => jobs[j].status = "running",
           jobs'[j].name = jobs[j].name,
           jobs'[j].forceOcr = jobs[j].forceOcr, jobs'[j].manual = jobs[j].manual,
           runs[w][j].pc = "returned" /\ ~runs[w][j].ok
               => /\ jobs'[j].status \in Over \cup {"running"}
                  /\ faults' = 0 => jobs'[j].status \in Over,
           faults' = 0 => faults = 0
    PROVE  QueueInv'
<1> DEFINE r == runs[w][j]
           row == jobs'[j]
           cleans == r.pc = "returned" /\ ~r.ok /\ r.allowCleanup
           run == IF cleans THEN [Idle EXCEPT !.pc = "cleanInput"] ELSE Idle
<1>1. /\ proc' = proc /\ scanning' = scanning
      /\ \A k \in JobIds : jobs'[k] = IF k = j THEN row ELSE jobs[k]
      /\ \A v \in Workers, k \in JobIds :
            runs'[v][k] = IF v = w /\ k = j THEN run ELSE runs[v][k]
  BY DEF Settle, QueueInv, TypeInv, TypeOK, TableTypeOK, WorkerTypeOK
<1>2. r.pc \in Live /\ r.pc # "idle" /\ jobs[j].status \in {"running", "deleted"}
  BY DEF QueueInv, RunOwnsRow, IsLive, Live
<1>3. /\ run.pc \in {"idle", "cleanInput"} /\ ~run.allowCleanup
      /\ run.pc = "cleanInput" => cleans
  BY DEF Idle
<1>4. cleans => /\ ~row.forceOcr /\ ~row.manual
                /\ row.status \in Over \cup {"running"}
                /\ faults' = 0 => row.status \in Over
  BY <1>2 DEF QueueInv, PermissionStands
<1>5. \A v \in Workers : v = w
  BY DEF OneWorker
<1> HIDE DEF run, cleans
<1>6. RowsInOrder'
  BY <1>1, <1>2 DEF QueueInv, RowsInOrder
<1>7. DownIdle'
  BY <1>1, <1>2, <1>5 DEF QueueInv, DownIdle
<1>8. ClaimStands'
  BY <1>1, <1>2 DEF QueueInv, ClaimStands
<1>9. RunsTracked'
  BY <1>1 DEF QueueInv, RunsTracked
<1>10. PermissionStands'
  BY <1>1, <1>3, <1>5 DEF QueueInv, PermissionStands
<1>11. RunOwnsRow'
  BY <1>1, <1>3, <1>5 DEF QueueInv, RunOwnsRow, IsLive, Live
<1>12. SerialPerBook'
  BY <1>1 DEF QueueInv, SerialPerBook
<1>13. CleanupOnlyDisposable'
  <2> SUFFICES ASSUME NEW v \in Workers, NEW k \in JobIds, runs'[v][k].pc \in Cleaning
               PROVE  /\ ~jobs'[k].forceOcr /\ ~jobs'[k].manual
                      /\ jobs'[k].status \in Over \cup {"running"}
                      /\ faults' = 0 => jobs'[k].status \in Over
    BY FaultsCounted DEF CleanupOnlyDisposable, Over
  <2>1. CASE k = j
    BY <1>1, <1>3, <1>4, <1>5, <2>1 DEF Cleaning
  <2>2. CASE k # j
    BY <1>1, <2>2 DEF QueueInv, CleanupOnlyDisposable, Over
  <2> QED
    BY <2>1, <2>2
<1> QED
  BY <1>6, <1>7, <1>8, <1>9, <1>10, <1>11, <1>12, <1>13 DEF QueueInv

FinishStep(w, j) ==
    FinishPaused(w, j) \/ FinishStopped(w, j) \/ FinishFailed(w, j) \/ FinishDone(w, j)

LEMMA FinishKeepsQueue ==
    ASSUME OneWorker, QueueInv, TypeInv', NEW w \in Workers, NEW j \in JobIds,
           FinishStep(w, j) \/ MarkLost(w, j)
    PROVE  QueueInv'
<1> DEFINE r == runs[w][j]
<1>0. jobs \in [JobIds -> Row] /\ jobs[j] \in Row /\ faults \in Nat
  BY DEF QueueInv, TypeInv, TypeOK, TableTypeOK, WorkerTypeOK
<1>1. r.pc \in {"pausing", "returned"} /\ Settle(w, j)
  BY DEF FinishStep, FinishPaused, FinishStopped, FinishFailed, FinishDone, MarkLost
<1>2. jobs[j].status \in {"running", "deleted"}
  BY <1>1 DEF QueueInv, RunOwnsRow, IsLive, Live
<1>3. CASE MarkLost(w, j)
  <2>1. UNCHANGED <<jobs, lastId, locked>> /\ faults' # 0
    BY <1>0, <1>3 DEF MarkLost, tableVars
  <2> QED
    BY <1>1, <1>2, <2>1, VerdictKeepsQueue DEF Over
<1>4. ASSUME NEW row \in {Ended(j, "done"), Ended(j, "failed"), Ended(j, "stopped"),
                          [jobs[j] EXCEPT !.status = "paused", !.pauseReq = FALSE]},
             UpdateRow(j, row), faults' = faults,
             r.pc = "returned" /\ ~r.ok => row.status \in Over
      PROVE  QueueInv'
  <2> DEFINE new == IF Exists(j) THEN row ELSE jobs[j]
  <2>1. /\ row.status \in {"done", "failed", "stopped", "paused"}
        /\ row.name = jobs[j].name /\ row.forceOcr = jobs[j].forceOcr
        /\ row.manual = jobs[j].manual
    BY <1>0, <1>4 DEF Ended, Row
  <2>2. /\ jobs'[j] = new
        /\ \A k \in JobIds \ {j} : jobs'[k] = jobs[k]
        /\ UNCHANGED <<lastId, locked>>
    BY <1>0, <1>4 DEF UpdateRow
  <2>3. Exists(j) => new = row
    OBVIOUS
  <2>4. ~Exists(j) => new = jobs[j] /\ jobs[j].status = "deleted"
    BY <1>2 DEF Exists
  <2>5. /\ new.status \in {"done", "failed", "stopped", "paused", "deleted"}
        /\ new.name = jobs[j].name /\ new.forceOcr = jobs[j].forceOcr
        /\ new.manual = jobs[j].manual
        /\ r.pc = "returned" /\ ~r.ok => new.status \in Over
    BY <1>4, <2>1, <2>3, <2>4 DEF Over
  <2> HIDE DEF new
  <2>6. faults' = 0 => faults = 0
    BY <1>4
  <2> QED
    BY <1>1, <1>4, <2>2, <2>5, <2>6, VerdictKeepsQueue
<1>5. CASE FinishPaused(w, j)
  BY <1>4, <1>5 DEF FinishPaused, MarkJobPaused
<1>6. CASE FinishStopped(w, j)
  <2>1. Ended(j, "stopped").status = "stopped"
    BY <1>0 DEF Ended, Row
  <2> QED
    BY <1>4, <1>6, <2>1 DEF FinishStopped, MarkJobStopped, Over
<1>7. CASE FinishFailed(w, j)
  <2>1. Ended(j, "failed").status = "failed"
    BY <1>0 DEF Ended, Row
  <2> QED
    BY <1>4, <1>7, <2>1 DEF FinishFailed, MarkJobFailed, Over
<1>8. CASE FinishDone(w, j)
  BY <1>4, <1>8 DEF FinishDone, MarkJobDone
<1> QED
  BY <1>3, <1>5, <1>6, <1>7, <1>8 DEF FinishStep

\* The rescue runs before the loops start, so nobody drives the rows it moves.
LEMMA ReclaimKeepsQueue ==
    ASSUME OneWorker, QueueInv, TypeInv', NEW w \in Workers, Reclaim(w)
    PROVE  QueueInv'
<1>1. \A v \in Workers : /\ locked[v] = 0 /\ scanning[v] = NoName
                         /\ \A j \in JobIds : runs[v][j].pc = "idle"
  BY DEF Reclaim, OneWorker, QueueInv, DownIdle
<1>2. UNCHANGED <<runs, scanning, faults>>
  BY DEF Reclaim, SetProc
<1>3. ASSUME NEW new, UpdateRows(new),
             \A j \in JobIds : j \in DOMAIN new =>
                /\ jobs[j].status = "running"
                /\ new[j].status \in {"paused", "stopped", "pending"}
                /\ new[j].name = jobs[j].name
                /\ new[j].forceOcr = jobs[j].forceOcr /\ new[j].manual = jobs[j].manual
      PROVE  QueueInv'
  <2>1. /\ \A j \in JobIds : jobs'[j] = IF j \in DOMAIN new THEN new[j] ELSE jobs[j]
        /\ UNCHANGED <<lastId, locked>>
    BY <1>3 DEF UpdateRows
  <2>2. RowsInOrder'
    BY <1>3, <2>1 DEF QueueInv, RowsInOrder
  <2>3. DownIdle'
    BY <1>1, <1>2, <2>1 DEF DownIdle
  <2>4. ClaimStands'
    BY <1>1, <2>1 DEF ClaimStands, JobIds
  <2>5. RunsTracked' /\ PermissionStands'
    BY <1>1, <1>2 DEF RunsTracked, PermissionStands
  <2>6. RunOwnsRow'
    BY <1>1, <1>2 DEF RunOwnsRow, IsLive, Live
  <2>7. SerialPerBook'
    BY <1>3, <2>1 DEF QueueInv, SerialPerBook
  <2>8. CleanupOnlyDisposable'
    BY <1>1, <1>2 DEF CleanupOnlyDisposable, Cleaning
  <2> QED
    BY <2>2, <2>3, <2>4, <2>5, <2>6, <2>7, <2>8 DEF QueueInv
<1>4. \A j \in JobIds : jobs[j] \in Row
  BY DEF QueueInv, TypeInv, TypeOK, TableTypeOK
<1>5. CASE ReclaimPaused
  BY <1>3, <1>4, <1>5 DEF ReclaimPaused, WithStatus, Row
<1>6. CASE ReclaimStopped
  BY <1>3, <1>4, <1>6 DEF ReclaimStopped, WithStatus, Ended, Row
<1>7. CASE ReclaimRest
  BY <1>3, <1>4, <1>7 DEF ReclaimRest, WithStatus, Row
<1> QED
  BY <1>5, <1>6, <1>7 DEF Reclaim

LEMMA ScanCreateKeepsQueue ==
    ASSUME OneWorker, QueueInv, TypeInv', NEW w \in Workers, ScanCreate(w)
    PROVE  QueueInv'
<1> DEFINE j   == lastId + 1
           run == [Idle EXCEPT !.pc = "launched", !.scanned = TRUE]
           row == [NoRow EXCEPT !.status = "running", !.name = scanning[w],
                                !.inputPath = scanning[w], !.manual = TRUE]
<1>0. /\ jobs \in [JobIds -> Row] /\ runs \in [Workers -> [JobIds -> Run]]
      /\ lastId \in Nat
  BY ConversionJobsAssumption DEF QueueInv, TypeInv, TypeOK, TableTypeOK, WorkerTypeOK
<1>1. InsertRows(1, row)
  BY DEF ScanCreate, CreateManualJob
<1>2. j \in JobIds /\ j > lastId /\ lastId' = j /\ locked' = locked
  BY <1>0, <1>1, ConversionJobsAssumption DEF InsertRows, JobIds
<1>3. \A k \in JobIds : k \in (lastId + 1)..(lastId + 1) <=> k = j
  BY <1>0 DEF JobIds
<1>4. \A k \in JobIds : jobs'[k] = IF k = j THEN [row EXCEPT !.createdAt = lastId + 1]
                                            ELSE jobs[k]
  BY <1>1, <1>3 DEF InsertRows
<1>5. jobs'[j].status = "running" /\ jobs'[j].manual
  BY <1>2, <1>4 DEF NoRow
<1>6. /\ runs' = [runs EXCEPT ![w][j] = run]
      /\ scanning' = [scanning EXCEPT ![w] = NoName]
      /\ scanning[w] # NoName
      /\ proc' = proc /\ faults' = faults
  BY DEF ScanCreate
<1>7. run.pc = "launched" /\ run.allowCleanup = FALSE
  BY DEF Idle
<1> HIDE DEF run, row
<1>8. \A v \in Workers, k \in JobIds :
         runs'[v][k] = IF v = w /\ k = j THEN run ELSE runs[v][k]
  BY <1>0, <1>6
<1>9. jobs[j].status = "none"
  BY <1>2 DEF QueueInv, RowsInOrder
<1>10. \A v \in Workers : v = w
  BY DEF OneWorker
<1>11. proc[w] = "up"
  BY <1>6 DEF QueueInv, DownIdle
<1>12. RowsInOrder'
  <2>1. \A k \in JobIds \ {j} : k > lastId <=> k > lastId'
    BY <1>0, <1>2 DEF JobIds
  <2>2. ~(j > lastId')
    BY <1>0, <1>2
  <2> QED
    BY <1>4, <1>5, <2>1, <2>2 DEF QueueInv, RowsInOrder
<1> HIDE DEF j
<1>13. DownIdle'
  BY <1>6, <1>10, <1>11 DEF DownIdle
<1>14. ClaimStands'
  BY <1>2, <1>4, <1>5, <1>9 DEF QueueInv, ClaimStands
<1>15. RunsTracked'
  BY <1>4, <1>5, <1>8 DEF QueueInv, RunsTracked
<1>16. PermissionStands'
  BY <1>4, <1>7, <1>8, <1>10 DEF QueueInv, PermissionStands
<1>17. RunOwnsRow'
  BY <1>4, <1>5, <1>8 DEF QueueInv, RunOwnsRow, IsLive
<1>18. SerialPerBook'
  BY <1>4, <1>5 DEF QueueInv, SerialPerBook
<1>19. CleanupOnlyDisposable'
  <2> SUFFICES ASSUME NEW v \in Workers, NEW k \in JobIds, runs'[v][k].pc \in Cleaning
               PROVE  /\ ~jobs'[k].forceOcr /\ ~jobs'[k].manual
                      /\ jobs'[k].status \in Over \cup {"running"}
                      /\ faults' = 0 => jobs'[k].status \in Over
    BY FaultsCounted DEF CleanupOnlyDisposable, Over
  <2>1. k # j
    BY <1>7, <1>8, <1>10 DEF Cleaning
  <2> QED
    BY <1>4, <1>6, <1>8, <2>1 DEF QueueInv, CleanupOnlyDisposable, Over
<1> QED
  BY <1>12, <1>13, <1>14, <1>15, <1>16, <1>17, <1>18, <1>19 DEF QueueInv

-----------------------------------------------------------------------------
(* The queue of one worker is safe.                                        *)

LEMMA InitQueueInv == Init => QueueInv
<1> SUFFICES ASSUME Init PROVE QueueInv
  OBVIOUS
<1>1. TypeInv
  BY InitTypeInv
<1>2. /\ \A j \in JobIds : jobs[j].status = "none"
      /\ lastId = 0
      /\ \A w \in Workers : locked[w] = 0 /\ scanning[w] = NoName
      /\ \A w \in Workers, j \in JobIds : runs[w][j].pc = "idle"
  BY DEF Init, TableInit, WorkerInit, NoRow, Idle
<1>3. \A j \in JobIds : j > 0
  BY ConversionJobsAssumption DEF JobIds
<1> QED
  BY <1>1, <1>2, <1>3
  DEF QueueInv, RowsInOrder, DownIdle, ClaimStands, RunsTracked, PermissionStands, RunOwnsRow,
      IsLive, Live, SerialPerBook, CleanupOnlyDisposable, Cleaning, JobIds

LEMMA NextQueueInv == OneWorker /\ QueueInv /\ [Next]_vars => QueueInv'
<1> SUFFICES ASSUME OneWorker, QueueInv, [Next]_vars PROVE QueueInv'
  OBVIOUS
<1>0. TypeInv'
  BY NextTypeInv DEF QueueInv
<1>1. ASSUME NEW w \in Workers, WorkerNext(w) PROVE QueueInv'
  <2>1. ASSUME NEW j \in JobIds, JobStep(w, j) PROVE QueueInv'
    <3>1. \/ Claim(w, j) \/ Launch(w, j) \/ QuietJobStep(w, j)
          \/ FinishStep(w, j) \/ MarkLost(w, j)
      BY <2>1 DEF JobStep, QuietJobStep, FinishStep
    <3> QED
      BY <1>0, <3>1, ClaimKeepsQueue, LaunchKeepsQueue, QuietJobStepKeepsQueue, FinishKeepsQueue
  <2> QED
    BY <1>0, <1>1, <2>1, ReclaimKeepsQueue, ScanCreateKeepsQueue, QuietProcessStepKeepsQueue
    DEF WorkerNext
<1>2. CASE (ApiNext \/ UserNext) /\ UNCHANGED workerVars
  BY <1>0, <1>2, RequestsKeepQueue
<1>3. CASE UNCHANGED vars
  BY <1>3
  DEF vars, tableVars, folderVars, workerVars, QueueInv, TypeInv, TypeOK, TableTypeOK,
      FoldersTypeOK, WorkerTypeOK, ApiTypeOK, StagingKnown, At, RowsInOrder, DownIdle,
      ClaimStands, RunsTracked, PermissionStands, RunOwnsRow, IsLive, SerialPerBook,
      CleanupOnlyDisposable
<1> QED
  BY <1>1, <1>2, <1>3 DEF Next

LEMMA QueueSafe == ASSUME OneWorker PROVE Spec => []QueueInv
<1>1. Init => QueueInv
  BY InitQueueInv
<1>2. QueueInv /\ [Next]_vars => QueueInv'
  BY NextQueueInv
<1> QED
  BY <1>1, <1>2, PTL DEF Spec

\* With one worker, however requests, rescues and crashes interleave, a goroutine
\* of runTrackedConversion only ever drives a row that is running or was deleted
\* under it: nothing re-queues, pauses or finishes the row behind its back.
THEOREM RunsOwnTheirRows == ASSUME OneWorker PROVE Spec => []RunOwnsRow
<1>1. QueueInv => RunOwnsRow
  BY DEF QueueInv
<1> QED
  BY <1>1, QueueSafe, PTL

\* With one worker, claimNextJob is the "real one-at-a-time queue per book" its
\* comment promises, for any number of rows a bulk reconvert piles up.
THEOREM BooksAreSerial == ASSUME OneWorker PROVE Spec => []SerialPerBook
<1>1. QueueInv => SerialPerBook
  BY DEF QueueInv
<1> QED
  BY <1>1, QueueSafe, PTL

\* With one worker, cleanupFailedJob never runs for a reconvert or for a manual
\* folder, and never for a row that the queue could hand out again: it has ended or was
\* deleted, or still says running because the database refused its verdict.
THEOREM CleanupsAreDisposable == ASSUME OneWorker PROVE Spec => []CleanupOnlyDisposable
<1>1. QueueInv => CleanupOnlyDisposable
  BY DEF QueueInv
<1> QED
  BY <1>1, QueueSafe, PTL


-----------------------------------------------------------------------------
(* What a step does to the statuses and to the set of jobs that a          *)
(* goroutine drives.                                                       *)

Driving == {j \in JobIds : Owned(j)}

Moved(S, to) ==
    \A j \in JobIds : jobs'[j].status = IF j \in S THEN to ELSE jobs[j].status

Driven(S) == \A j \in JobIds : (\E w \in Workers : runs'[w][j].pc \in Live) <=> j \in S

Stutters == Moved({}, "none") /\ Driven(Driving)

Queues ==
    \E S \in SUBSET WithStatus("none") : Moved(S, "pending") /\ Driven(Driving)

Switches ==
    /\ Driven(Driving)
    /\ \/ Moved(WithStatus("pending"), "paused")
       \/ Moved(WithStatus("paused"), "pending")

Deletes ==
    \E j \in JobIds : jobs[j].status # "none" /\ Moved({j}, "deleted") /\ Driven(Driving)

Starts ==
    \E j \in JobIds \ Driving :
        /\ jobs[j].status \in {"none", "pending"}
        /\ Moved({j}, "running") /\ Driven(Driving \cup {j})

Ends ==
    \E j \in Driving :
        /\ Driven(Driving \ {j})
        /\ \/ /\ jobs[j].status = "running"
              /\ \E to \in {"done", "failed", "stopped", "paused"} : Moved({j}, to)
           \/ jobs[j].status = "deleted" /\ Moved({}, "none")

Loses == Moved({}, "none") /\ \E S \in SUBSET JobIds : Driven(Driving \ S)

Rescues ==
    /\ Driven(Driving)
    /\ \E S \in SUBSET (WithStatus("running") \ Driving), to \in {"paused", "stopped", "pending"} :
          Moved(S, to)

-----------------------------------------------------------------------------
(* Each of these is a step of JobLifecycle.                                *)

LEMMA MovedMapped ==
    ASSUME NEW S, NEW to, Moved(S, to)
    PROVE  Lifecycle!Move(S, to)
BY DEF Moved, Lifecycle!Move

\* The two functions JobLifecycle sees, point by point.
LEMMA OwnedMapped ==
    /\ [j \in JobIds |-> Owned(j)] \in [JobIds -> BOOLEAN]
    /\ \A j \in JobIds : [k \in JobIds |-> Owned(k)][j] <=> j \in Driving
    /\ [j \in JobIds |-> Owned(j)]' \in [JobIds -> BOOLEAN]
    /\ \A S : Driven(S) => \A j \in JobIds : [k \in JobIds |-> Owned(k)]'[j] <=> j \in S
<1>1. ASSUME NEW j \in JobIds PROVE [k \in JobIds |-> Owned(k)][j] <=> Owned(j)
  BY Zenon
<1>2. ASSUME NEW j \in JobIds PROVE [k \in JobIds |-> Owned(k)]'[j] <=> Owned(j)'
  BY Zenon DEF JobIds
<1>3. [j \in JobIds |-> Owned(j)] \in [JobIds -> BOOLEAN]
  BY DEF Owned
<1>4. [j \in JobIds |-> Owned(j)]' \in [JobIds -> BOOLEAN]
  BY DEF Owned, JobIds
<1> QED
  BY <1>1, <1>2, <1>3, <1>4 DEF Driving, Driven, Owned, IsLive, JobIds

LEMMA BooleanFunctionsEqual ==
    ASSUME NEW f \in [JobIds -> BOOLEAN], NEW g \in [JobIds -> BOOLEAN],
           \A j \in JobIds : f[j] <=> g[j]
    PROVE  f = g
BY SMT

LEMMA DrivingMapped ==
    ASSUME Driven(Driving)
    PROVE  UNCHANGED [j \in JobIds |-> Owned(j)]
<1>1. ASSUME NEW j \in JobIds
      PROVE  [k \in JobIds |-> Owned(k)]'[j] <=> [k \in JobIds |-> Owned(k)][j]
  BY OwnedMapped, Zenon
<1> QED
  BY <1>1, OwnedMapped, BooleanFunctionsEqual

LEMMA StatusMapped ==
    ASSUME NEW s
    PROVE  Lifecycle!InState(s) = WithStatus(s)
BY DEF Lifecycle!InState, WithStatus

LEMMA KindsMapped ==
    ASSUME Stutters \/ Queues \/ Switches \/ Deletes \/ Starts \/ Ends \/ Loses \/ Rescues
    PROVE  [Lifecycle!Next]_(Lifecycle!vars)
<1> DEFINE state == [j \in JobIds |-> jobs[j].status]
           owned == [j \in JobIds |-> Owned(j)]
<1>0. /\ \A j \in JobIds : state[j] = jobs[j].status
      /\ WithStatus("none") \subseteq JobIds /\ WithStatus("running") \subseteq JobIds
      /\ Driving \subseteq JobIds
  BY DEF Driving, WithStatus
<1>9. /\ owned \in [JobIds -> BOOLEAN] /\ owned' \in [JobIds -> BOOLEAN]
      /\ \A j \in JobIds : owned[j] <=> j \in Driving
  BY OwnedMapped
<1> HIDE DEF owned
<1>1. CASE Stutters
  <2>1. UNCHANGED state
    BY <1>1 DEF Stutters, Moved, JobIds
  <2>2. UNCHANGED owned
    BY <1>1, DrivingMapped DEF Stutters, owned
  <2> QED
    BY <2>1, <2>2 DEF Lifecycle!vars, owned
<1>2. CASE Queues
  <2>1. PICK S \in SUBSET WithStatus("none") : Moved(S, "pending") /\ Driven(Driving)
    BY <1>2 DEF Queues
  <2>2. Lifecycle!Queue(S)
    BY <2>1, MovedMapped, DrivingMapped, StatusMapped DEF Lifecycle!Queue
  <2> QED
    BY <1>0, <2>2 DEF Lifecycle!Next
<1>3. CASE Switches
  <2>1. Lifecycle!PauseAll \/ Lifecycle!ResumeAll
    BY <1>3, MovedMapped, DrivingMapped, StatusMapped
    DEF Switches, Lifecycle!PauseAll, Lifecycle!ResumeAll
  <2> QED
    BY <2>1 DEF Lifecycle!Next
<1>4. CASE Deletes
  <2>1. PICK j \in JobIds : jobs[j].status # "none" /\ Moved({j}, "deleted") /\ Driven(Driving)
    BY <1>4 DEF Deletes
  <2>2. Lifecycle!Delete(j)
    BY <2>1, MovedMapped, DrivingMapped DEF Lifecycle!Delete
  <2> QED
    BY <2>2 DEF Lifecycle!Next
<1>5. CASE Starts
  <2>1. PICK j \in JobIds \ Driving :
          /\ jobs[j].status \in {"none", "pending"}
          /\ Moved({j}, "running") /\ Driven(Driving \cup {j})
    BY <1>5 DEF Starts
  <2>2. \A k \in JobIds : owned'[k] <=> k \in Driving \cup {j}
    BY <2>1, OwnedMapped DEF owned
  <2>3. owned' = [owned EXCEPT ![j] = TRUE]
    BY <1>9, <2>2
  <2>4. state[j] \in {"none", "pending"} /\ ~owned[j] /\ Lifecycle!Move({j}, "running")
    BY <1>0, <1>9, <2>1, MovedMapped
  <2>5. Lifecycle!Start(j)
    BY <2>3, <2>4, Zenon DEF Lifecycle!Start, owned
  <2> QED
    BY <2>1, <2>5 DEF Lifecycle!Next
<1>6. CASE Ends
  <2>1. PICK j \in Driving :
          /\ Driven(Driving \ {j})
          /\ \/ /\ jobs[j].status = "running"
                /\ \E to \in {"done", "failed", "stopped", "paused"} : Moved({j}, to)
             \/ jobs[j].status = "deleted" /\ Moved({}, "none")
    BY <1>6 DEF Ends
  <2>2. \A k \in JobIds : owned'[k] <=> k \in Driving \ {j}
    BY <2>1, OwnedMapped DEF owned
  <2>3. owned' = [owned EXCEPT ![j] = FALSE]
    BY <1>9, <2>2
  <2>4. CASE jobs[j].status = "running"
    <3>1. PICK to \in {"done", "failed", "stopped", "paused"} : Moved({j}, to)
      BY <2>1, <2>4
    <3>2. /\ state[j] = "running" /\ owned[j] /\ Lifecycle!Move({j}, to)
          /\ to \in Lifecycle!Finished \cup {"paused"}
      BY <1>0, <1>9, <2>4, <3>1, MovedMapped DEF Lifecycle!Finished
    <3>3. Lifecycle!End(j, to)
      BY <2>3, <3>2, Zenon DEF Lifecycle!End, owned
    <3> QED
      BY <1>0, <3>2, <3>3 DEF Lifecycle!Next
  <2>5. CASE jobs[j].status = "deleted" /\ Moved({}, "none")
    <3>1. UNCHANGED state
      BY <2>5 DEF Moved, JobIds
    <3>2. /\ state[j] = "deleted" /\ owned[j]
          /\ "done" \in Lifecycle!Finished \cup {"paused"}
      BY <1>0, <1>9, <2>5 DEF Lifecycle!Finished
    <3>3. Lifecycle!End(j, "done")
      BY <2>3, <3>1, <3>2, Zenon DEF Lifecycle!End, owned
    <3> QED
      BY <1>0, <3>2, <3>3 DEF Lifecycle!Next
  <2> QED
    BY <2>1, <2>4, <2>5
<1>7. CASE Loses
  <2>1. PICK S \in SUBSET JobIds : Driven(Driving \ S)
    BY <1>7 DEF Loses
  <2>2. \A j \in JobIds : owned'[j] <=> j \in Driving \ S
    BY <2>1, OwnedMapped DEF owned
  <2>3. owned' = [j \in JobIds |-> owned[j] /\ j \notin S]
    BY <1>9, <2>2
  <2>4. UNCHANGED state
    BY <1>7 DEF Loses, Moved, JobIds
  <2>5. Lifecycle!Lose(S)
    BY <2>3, <2>4, Zenon DEF Lifecycle!Lose, owned
  <2> QED
    BY <2>5 DEF Lifecycle!Next
<1>8. CASE Rescues
  <2>1. PICK S \in SUBSET (WithStatus("running") \ Driving), to \in {"paused", "stopped", "pending"} :
          Moved(S, to)
    BY <1>8 DEF Rescues
  <2>2. /\ S \subseteq Lifecycle!InState("running") /\ \A j \in S : ~owned[j]
        /\ Lifecycle!Move(S, to)
    BY <1>0, <1>9, <2>1, MovedMapped, StatusMapped
  <2>3. UNCHANGED owned
    BY <1>8, DrivingMapped DEF Rescues, owned
  <2>4. Lifecycle!Rescue(S, to)
    BY <2>1, <2>2, <2>3, Zenon DEF Lifecycle!Rescue, owned
  <2> QED
    BY <1>0, <2>1, <2>4 DEF Lifecycle!Next
<1> QED
  BY <1>1, <1>2, <1>3, <1>4, <1>5, <1>6, <1>7, <1>8

-----------------------------------------------------------------------------
(* The statements in these terms.                                          *)

LEMMA SameRows == UNCHANGED jobs => Moved({}, "none")
BY DEF Moved, JobIds

LEMMA SameRuns == UNCHANGED runs => Driven(Driving)
BY DEF Driven, Driving, Owned, IsLive

LEMMA InsertMoves ==
    ASSUME QueueInv, NEW k \in Nat, NEW row \in Row, InsertRows(k, row)
    PROVE  \E S \in SUBSET WithStatus("none") : Moved(S, row.status)
<1> DEFINE S == (lastId + 1)..(lastId + k)
<1>1. lastId \in Nat /\ JobIds \subseteq Nat
  BY ConversionJobsAssumption DEF QueueInv, TypeInv, TypeOK, TableTypeOK, JobIds
<1>2. S \subseteq WithStatus("none")
  BY <1>1, ConversionJobsAssumption
  DEF QueueInv, RowsInOrder, InsertRows, WithStatus, JobIds
<1>3. [row EXCEPT !.createdAt = lastId + 1].status = row.status
  BY DEF Row
<1>4. Moved(S, row.status)
  BY <1>3 DEF InsertRows, Moved, JobIds
<1> QED
  BY <1>2, <1>4

LEMMA UpdateRowMoves ==
    ASSUME QueueInv, NEW j, NEW row, UpdateRow(j, row)
    PROVE  /\ j \in JobIds /\ Exists(j) => Moved({j}, row.status)
           /\ j \in JobIds /\ ~Exists(j) => Moved({}, "none")
           /\ j \notin JobIds => Moved({}, "none")
           /\ j \in JobIds /\ row.status = jobs[j].status => Moved({}, "none")
<1>1. \A k \in JobIds : jobs'[k] = IF k = j /\ Exists(j) THEN row ELSE jobs[k]
  BY DEF UpdateRow, QueueInv, TypeInv, TypeOK, TableTypeOK
<1> QED
  BY <1>1 DEF Moved, JobIds

LEMMA UpdateRowsMoves ==
    ASSUME NEW new, UpdateRows(new), NEW to, NEW S \in SUBSET JobIds,
           \A j \in JobIds : j \in DOMAIN new <=> j \in S,
           \A j \in S : new[j].status = to
    PROVE  Moved(S, to)
BY DEF UpdateRows, Moved, JobIds

-----------------------------------------------------------------------------
(* Requests and the user.                                                  *)

LEMMA RequestKinds ==
    ASSUME QueueInv, ApiNext \/ UserNext, UNCHANGED workerVars
    PROVE  Stutters \/ Queues \/ Switches \/ Deletes
<1>0. \A j \in JobIds : jobs[j] \in Row
  BY DEF QueueInv, TypeInv, TypeOK, TableTypeOK
<1>1. Driven(Driving)
  BY SameRuns DEF workerVars
<1>2. UNCHANGED tableVars => Stutters
  BY <1>1, SameRows DEF tableVars, Stutters
<1>3. ASSUME NEW k \in Nat, NEW n \in Names \cup {NoName}, NEW input \in Names \cup {NoName},
             NEW force \in BOOLEAN, CreateJobs(k, n, input, force)
      PROVE  Queues
  <2> DEFINE row == [NoRow EXCEPT !.status = "pending", !.name = n, !.inputPath = input,
                                  !.forceOcr = force]
  <2>1. row \in Row /\ row.status = "pending"
    <3>1. "pending" \in Status
      BY DEF Status, Active
    <3> QED
      BY <3>1, NoRowType DEF Row
  <2>2. InsertRows(k, row)
    BY <1>3 DEF CreateJobs
  <2> HIDE DEF row
  <2> QED
    BY <1>1, <2>1, <2>2, InsertMoves DEF Queues
<1>4. ASSUME NEW c \in Clients, UploadStep(c)
      PROVE  Stutters \/ Queues
  <2>1. reqs[c].name \in Names \cup {NoName} /\ reqs[c].input \in Names \cup {NoName}
    BY DEF QueueInv, TypeInv, TypeOK, ApiTypeOK, Request
  <2>2. CASE UploadInsert(c) \/ AddInsert(c)
    BY <1>3, <2>1, <2>2 DEF UploadInsert, AddInsert
  <2> QED
    BY <1>2, <1>4, <2>2
    DEF UploadStep, UploadCheck, UploadRename, UploadFinished, AddStage, AddExtract, AddEnds
<1>5. ASSUME NEW c \in Clients, JobRequestStep(c)
      PROVE  Stutters \/ Queues \/ Switches \/ Deletes
  <2>1. /\ reqs[c].name \in Names \cup {NoName} /\ reqs[c].count \in Nat
    BY RequestCount DEF QueueInv, TypeInv, TypeOK, ApiTypeOK
  <2>2. CASE ReconvertInsert(c)
    BY <1>3, <2>1, <2>2 DEF ReconvertInsert
  <2>3. CASE StopJob(c)
    <3> DEFINE j == reqs[c].job
    <3>1. UpdateRow(j, [jobs[j] EXCEPT !.stopReq = TRUE])
      BY <2>3 DEF StopJob, RequestStop
    <3>2. j \in JobIds => [jobs[j] EXCEPT !.stopReq = TRUE].status = jobs[j].status
      BY <1>0 DEF Row
    <3>3. Moved({}, "none")
      BY <3>1, <3>2, UpdateRowMoves
    <3> QED
      BY <1>1, <3>3 DEF Stutters
  <2>4. CASE DeleteJob(c)
    <3> DEFINE j == reqs[c].job
               row == [NoRow EXCEPT !.status = "deleted", !.name = jobs[j].name,
                                    !.inputPath = jobs[j].inputPath,
                                    !.forceOcr = jobs[j].forceOcr, !.manual = jobs[j].manual]
    <3>1. UpdateRow(j, row) /\ row.status = "deleted"
      BY <2>4 DEF DeleteJob, DeleteRow, NoRow
    <3> HIDE DEF row
    <3>2. CASE j \in JobIds /\ Exists(j)
      BY <1>1, <3>1, <3>2, UpdateRowMoves DEF Deletes, Exists
    <3>3. CASE ~(j \in JobIds /\ Exists(j))
      BY <1>1, <3>1, <3>3, UpdateRowMoves DEF Stutters
    <3> QED
      BY <3>2, <3>3
  <2>5. CASE Pause(c)
    <3>1. Moved(WithStatus("pending"), "paused")
      BY <1>0, <2>5, UpdateRowsMoves DEF Pause, PausePending, WithStatus, Row
    <3> QED
      BY <1>1, <3>1 DEF Switches
  <2>6. CASE PauseRest(c)
    <3>1. \A j \in WithStatus("running") :
             [jobs[j] EXCEPT !.pauseReq = TRUE].status = "running"
      BY <1>0 DEF WithStatus, Row
    <3> DEFINE S   == {k \in WithStatus("running") : ~jobs[k].curVol}
               new == [j \in S |-> [jobs[j] EXCEPT !.pauseReq = TRUE]]
    <3>2. /\ UpdateRows(new) /\ DOMAIN new = S /\ S \in SUBSET JobIds
          /\ \A j \in S : new[j].status = "running"
      BY <2>6, <3>1 DEF PauseRest, PauseRunning, WithStatus
    <3> HIDE DEF new
    <3>4. Moved(S, "running")
      BY <3>2, UpdateRowsMoves
    <3>3. Moved({}, "none")
      BY <3>4 DEF Moved, WithStatus
    <3> QED
      BY <1>1, <3>3 DEF Stutters
  <2>7. CASE Resume(c)
    <3> DEFINE S   == WithStatus("paused")
               new == [j \in S |-> [jobs[j] EXCEPT !.status = "pending", !.pauseReq = FALSE,
                                                   !.curVol = FALSE]]
    <3>2. /\ UpdateRows(new) /\ DOMAIN new = S /\ S \in SUBSET JobIds
          /\ \A j \in S : new[j].status = "pending"
      BY <1>0, <2>7 DEF Resume, ResumePaused, WithStatus, Row
    <3> HIDE DEF new
    <3>1. Moved(S, "pending")
      BY <3>2, UpdateRowsMoves
    <3> QED
      BY <1>1, <3>1 DEF Switches
  <2> QED
    BY <1>2, <1>5, <2>2, <2>3, <2>4, <2>5, <2>6, <2>7
    DEF JobRequestStep, ReconvertCheck, ReadJob, WipeInput
<1>6. ASSUME NEW c \in Clients, BookStep(c) \/ Abandon(c)
      PROVE  Stutters
  BY <1>2, <1>6
  DEF BookStep, Abandon, DeleteBookCheck, DeleteVolumeCheck, DeleteBookStep, DeleteVolumeStep
<1>7. CASE UserNext
  BY <1>2, <1>7 DEF UserNext
<1> QED
  BY <1>4, <1>5, <1>6, <1>7 DEF ApiNext

-----------------------------------------------------------------------------
(* Goroutines.                                                             *)

\* What happens to one goroutine, with one worker, happens to its job's driver.
LEMMA RunDriven ==
    ASSUME OneWorker, QueueInv, NEW w \in Workers, NEW j \in JobIds, NEW run,
           runs' = [runs EXCEPT ![w][j] = run]
    PROVE  /\ j \in Driving <=> runs[w][j].pc \in Live
           /\ run.pc \in Live => Driven(Driving \cup {j})
           /\ run.pc \notin Live => Driven(Driving \ {j})
           /\ (run.pc \in Live <=> runs[w][j].pc \in Live) => Driven(Driving)
<1>1. \A k \in JobIds : runs'[w][k] = IF k = j THEN run ELSE runs[w][k]
  BY DEF QueueInv, TypeInv, TypeOK, WorkerTypeOK
<1>2. \A v \in Workers : v = w
  BY DEF OneWorker
<1>3. \A k \in JobIds : k \in Driving <=> runs[w][k].pc \in Live
  BY <1>2 DEF Driving, Owned, IsLive
<1>4. \A S : Driven(S) <=> \A k \in JobIds : runs'[w][k].pc \in Live <=> k \in S
  BY <1>2 DEF Driven
<1> QED
  BY <1>1, <1>3, <1>4

LEMMA JobStepKinds ==
    ASSUME OneWorker, QueueInv, NEW w \in Workers, NEW j \in JobIds, JobStep(w, j)
    PROVE  \/ Stutters \/ Starts \/ Ends
           \/ Loses /\ faults' # 0
<1>0. /\ jobs \in [JobIds -> Row] /\ jobs[j] \in Row
      /\ runs[w][j] \in Run /\ faults \in Nat
  BY DEF QueueInv, TypeInv, TypeOK, TableTypeOK, WorkerTypeOK
<1>1. CASE Claim(w, j)
  BY <1>1, SameRows, SameRuns DEF Claim, LockOldest, workerVars, Stutters
<1>2. CASE Launch(w, j)
  <2>1. jobs[j].status = "pending" /\ j \notin Driving
    <3>1. jobs[j].status = "pending"
      BY <1>2 DEF Launch, CommitClaim, QueueInv, ClaimStands
    <3> QED
      BY <3>1 DEF QueueInv, RunOwnsRow, Driving, Owned
  <2>2. Moved({j}, "running")
    BY <1>0, <1>2 DEF Launch, CommitClaim, Moved, Row
  <2> DEFINE run == [Idle EXCEPT !.pc = "launched",
                                 !.allowCleanup = ~jobs[j].forceOcr /\ ~jobs[j].manual]
  <2>3. runs' = [runs EXCEPT ![w][j] = run] /\ run.pc \in Live
    BY <1>2 DEF Launch, SetRun, Idle, Live
  <2> HIDE DEF run
  <2>4. Driven(Driving \cup {j})
    BY <2>3, RunDriven
  <2> QED
    BY <2>1, <2>2, <2>4 DEF Starts
<1>3. CASE QuietJobStep(w, j)
  <2>1. Moved({}, "none")
    <3>1. CASE StartVolume(w, j)
      <4>1. [jobs[j] EXCEPT !.curVol = TRUE].status = jobs[j].status
        BY <1>0 DEF Row
      <4> QED
        BY <3>1, <4>1, UpdateRowMoves DEF StartVolume, UpdateJobVolume
    <3>2. CASE UNCHANGED tableVars
      BY <3>2, SameRows DEF tableVars
    <3> QED
      BY <1>3, <3>1, <3>2
      DEF QuietJobStep, Poll, Prepare, BuildTextPDF, BuildVolume, AcquireGPU, ConvertReturns,
          CleanInput, CleanOutput
  <2>2. Driven(Driving)
    <3> DEFINE r == runs[w][j]
    <3>1. ASSUME NEW run, SetRun(w, j, run), run.pc \in Live <=> r.pc \in Live
          PROVE  Driven(Driving)
      BY <3>1, RunDriven DEF SetRun
    <3>2. CASE Poll(w, j)
      BY <1>0, <3>1, <3>2 DEF Poll, Run
    <3>3. CASE Prepare(w, j)
      BY <1>0, <3>1, <3>3 DEF Prepare, Run, Live
    <3>4. ASSUME NEW v \in Vols, BuildTextPDF(w, j, v) \/ BuildVolume(w, j, v)
          PROVE  Driven(Driving)
      BY <1>0, <3>1, <3>4 DEF BuildTextPDF, BuildVolume, Run
    <3>5. CASE AcquireGPU(w, j)
      BY <1>0, <3>1, <3>5 DEF AcquireGPU, Run, Live
    <3>6. CASE StartVolume(w, j)
      BY <3>6, SameRuns DEF StartVolume, workerVars
    <3>7. ASSUME NEW err \in BOOLEAN, ConvertReturns(w, j, err)
          PROVE  Driven(Driving)
      <4>1. PICK ok : SetRun(w, j, [r EXCEPT !.pc = IF r.signal = "pause" THEN "pausing"
                                                                          ELSE "returned",
                                             !.err = err, !.ok = ok])
        BY <3>7 DEF ConvertReturns
      <4> QED
        BY <1>0, <3>1, <3>7, <4>1 DEF ConvertReturns, Run, Live
    <3>8. CASE CleanInput(w, j) \/ CleanOutput(w, j)
      BY <1>0, <3>1, <3>8 DEF CleanInput, CleanOutput, Idle, Run, Live, Cleaning
    <3> QED
      BY <1>3, <3>2, <3>3, <3>4, <3>5, <3>6, <3>7, <3>8 DEF QuietJobStep
  <2> QED
    BY <2>1, <2>2 DEF Stutters
<1>4. CASE FinishStep(w, j) \/ MarkLost(w, j)
  <2> DEFINE r == runs[w][j]
             cleans == r.pc = "returned" /\ ~r.ok /\ r.allowCleanup
             run == IF cleans THEN [Idle EXCEPT !.pc = "cleanInput"] ELSE Idle
  <2>1. r.pc \in {"pausing", "returned"} /\ Settle(w, j)
    BY <1>4 DEF FinishStep, FinishPaused, FinishStopped, FinishFailed, FinishDone, MarkLost
  <2>2. run.pc \notin Live
    BY DEF Idle, Live
  <2>3. runs' = [runs EXCEPT ![w][j] = run]
    BY <2>1 DEF Settle
  <2> HIDE DEF run
  <2>4. j \in Driving /\ Driven(Driving \ {j})
    BY <2>1, <2>2, <2>3, RunDriven DEF Live
  <2>5. jobs[j].status \in {"running", "deleted"}
    BY <2>1 DEF QueueInv, RunOwnsRow, IsLive, Live
  <2>6. CASE MarkLost(w, j)
    <3>1. Moved({}, "none") /\ faults' # 0
      BY <1>0, <2>6, SameRows DEF MarkLost, tableVars
    <3> QED
      BY <2>4, <3>1 DEF Loses
  <2>7. ASSUME NEW row, UpdateRow(j, row), row.status \in {"done", "failed", "stopped", "paused"}
        PROVE  Ends
    <3>1. CASE Exists(j)
      BY <2>4, <2>5, <2>7, <3>1, UpdateRowMoves DEF Ends, Exists
    <3>2. CASE ~Exists(j)
      BY <2>4, <2>5, <2>7, <3>2, UpdateRowMoves DEF Ends, Exists
    <3> QED
      BY <3>1, <3>2
  <2>8. /\ \A s \in {"done", "failed", "stopped"} : Ended(j, s).status = s
        /\ [jobs[j] EXCEPT !.status = "paused", !.pauseReq = FALSE].status = "paused"
    BY <1>0 DEF Ended, Row
  <2>9. FinishStep(w, j) => Ends
    BY <2>7, <2>8
    DEF FinishStep, FinishPaused, FinishStopped, FinishFailed, FinishDone, MarkJobPaused,
        MarkJobStopped, MarkJobFailed, MarkJobDone
  <2> QED
    BY <1>4, <2>6, <2>9
<1> QED
  BY <1>1, <1>2, <1>3, <1>4 DEF JobStep, QuietJobStep, FinishStep

-----------------------------------------------------------------------------
(* The process.                                                            *)

LEMMA RescueKinds ==
    ASSUME OneWorker, QueueInv, NEW w \in Workers, Reclaim(w)
    PROVE  /\ Rescues
           /\ proc'[w] = "up" => \A j \in JobIds : jobs'[j].status # "running"
<1>0. \A j \in JobIds : jobs[j] \in Row
  BY DEF QueueInv, TypeInv, TypeOK, TableTypeOK
<1>1. Driving = {}
  BY DEF Reclaim, OneWorker, QueueInv, DownIdle, Driving, Owned, IsLive, Live
<1>2. Driven(Driving)
  BY SameRuns DEF Reclaim, SetProc
<1>3. ASSUME NEW S \in SUBSET WithStatus("running"), NEW to \in {"paused", "stopped", "pending"},
             Moved(S, to)
      PROVE  Rescues
  BY <1>1, <1>2, <1>3 DEF Rescues
<1>4. ASSUME ReclaimPaused PROVE Rescues
  <2> DEFINE S   == {k \in WithStatus("running") : jobs[k].pauseReq}
             new == [j \in S |-> [jobs[j] EXCEPT !.status = "paused", !.curVol = FALSE,
                                                 !.pauseReq = FALSE]]
  <2>1. /\ UpdateRows(new) /\ DOMAIN new = S /\ S \in SUBSET WithStatus("running")
        /\ S \in SUBSET JobIds /\ \A j \in S : new[j].status = "paused"
    BY <1>0, <1>4 DEF ReclaimPaused, WithStatus, Row
  <2> HIDE DEF new
  <2>2. Moved(S, "paused")
    BY <2>1, UpdateRowsMoves
  <2> QED
    BY <1>3, <2>1, <2>2
<1>5. ASSUME ReclaimStopped PROVE Rescues
  <2> DEFINE S   == {k \in WithStatus("running") : jobs[k].stopReq}
             new == [j \in S |-> Ended(j, "stopped")]
  <2>1. /\ UpdateRows(new) /\ DOMAIN new = S /\ S \in SUBSET WithStatus("running")
        /\ S \in SUBSET JobIds /\ \A j \in S : new[j].status = "stopped"
    BY <1>0, <1>5 DEF ReclaimStopped, WithStatus, Ended, Row
  <2> HIDE DEF new
  <2>2. Moved(S, "stopped")
    BY <2>1, UpdateRowsMoves
  <2> QED
    BY <1>3, <2>1, <2>2
<1>6. ASSUME ReclaimRest PROVE Rescues /\ \A j \in JobIds : jobs'[j].status # "running"
  <2> DEFINE S   == WithStatus("running")
             new == [j \in S |-> [jobs[j] EXCEPT !.status = "pending", !.curVol = FALSE]]
  <2>1. /\ UpdateRows(new) /\ DOMAIN new = S /\ S \in SUBSET WithStatus("running")
        /\ S \in SUBSET JobIds /\ \A j \in S : new[j].status = "pending"
    BY <1>0, <1>6 DEF ReclaimRest, WithStatus, Row
  <2> HIDE DEF new
  <2>2. Moved(S, "pending")
    BY <2>1, UpdateRowsMoves
  <2>3. \A j \in JobIds : jobs'[j].status # "running"
    BY <2>2 DEF Moved, WithStatus
  <2> QED
    BY <1>3, <2>1, <2>2, <2>3
<1>7. proc'[w] = "up" => ReclaimRest
  BY DEF Reclaim, SetProc, QueueInv, TypeInv, TypeOK, WorkerTypeOK
<1> QED
  BY <1>4, <1>5, <1>6, <1>7 DEF Reclaim

LEMMA ScanCreateKind ==
    ASSUME OneWorker, QueueInv, NEW w \in Workers, ScanCreate(w)
    PROVE  Starts
<1> DEFINE j   == lastId + 1
           run == [Idle EXCEPT !.pc = "launched", !.scanned = TRUE]
           row == [NoRow EXCEPT !.status = "running", !.name = scanning[w],
                                !.inputPath = scanning[w], !.manual = TRUE]
<1>0. lastId \in Nat
  BY ConversionJobsAssumption DEF QueueInv, TypeInv, TypeOK, TableTypeOK
<1>1. InsertRows(1, row)
  BY DEF ScanCreate, CreateManualJob
<1>2. j \in JobIds /\ j > lastId
  BY <1>0, <1>1, ConversionJobsAssumption DEF InsertRows, JobIds
<1>3. jobs[j].status = "none"
  BY <1>2 DEF QueueInv, RowsInOrder
<1>4. \A k \in JobIds : jobs'[k] = IF k = j THEN [row EXCEPT !.createdAt = lastId + 1]
                                            ELSE jobs[k]
  BY <1>0, <1>1 DEF InsertRows, JobIds
<1>5. Moved({j}, "running")
  BY <1>2, <1>4 DEF Moved, NoRow, JobIds
<1>6. runs' = [runs EXCEPT ![w][j] = run] /\ run.pc \in Live
  BY DEF ScanCreate, Idle, Live
<1> HIDE DEF run, row, j
<1>7. Driven(Driving \cup {j})
  BY <1>2, <1>6, RunDriven
<1>8. j \notin Driving
  BY <1>2, <1>3 DEF QueueInv, RunOwnsRow, Driving, Owned
<1> QED
  BY <1>2, <1>3, <1>5, <1>7, <1>8 DEF Starts

LEMMA CrashKind ==
    ASSUME OneWorker, QueueInv, NEW w \in Workers, Crash(w)
    PROVE  Loses
<1>1. \A v \in Workers, j \in JobIds : runs'[v][j] = Idle
  BY DEF Crash, OneWorker, QueueInv, TypeInv, TypeOK, WorkerTypeOK
<1>2. Driven(Driving \ JobIds)
  BY <1>1 DEF Driven, Driving, Idle, Live
<1>3. Moved({}, "none")
  BY SameRows DEF Crash
<1> QED
  BY <1>2, <1>3 DEF Loses

LEMMA QuietProcessKind ==
    ASSUME NEW w \in Workers,
           \/ Start(w) \/ ReclaimFails(w) \/ ScanFail(w)
           \/ \E n \in Names : ScanCheck(w, n) \/ ScanExit(w, n)
    PROVE  Stutters
<1>1. UNCHANGED <<tableVars, runs>>
  BY DEF Start, SetProc, ReclaimFails, ScanFail, ScanCheck, ScanExit
<1> QED
  BY <1>1, SameRows, SameRuns DEF Stutters, tableVars

-----------------------------------------------------------------------------
(* The refinement.                                                         *)

LEMMA InitMapped == Init => Lifecycle!Init
<1> SUFFICES ASSUME Init PROVE Lifecycle!Init
  OBVIOUS
<1>1. \A j \in JobIds : jobs[j].status = "none" /\ ~Owned(j)
  BY DEF Init, TableInit, WorkerInit, NoRow, Idle, Live, Owned, IsLive
<1>2. [j \in JobIds |-> jobs[j].status] = [j \in JobIds |-> "none"]
  BY <1>1
<1>3. [j \in JobIds |-> Owned(j)] = [j \in JobIds |-> FALSE]
  <2>1. [j \in JobIds |-> FALSE] \in [JobIds -> BOOLEAN]
    OBVIOUS
  <2>2. ASSUME NEW j \in JobIds
        PROVE  [k \in JobIds |-> Owned(k)][j] <=> [k \in JobIds |-> FALSE][j]
    BY <1>1, Zenon
  <2> QED
    BY <2>1, <2>2, OwnedMapped, BooleanFunctionsEqual
<1> QED
  BY <1>2, <1>3 DEF Lifecycle!Init

LEMMA NextMapped ==
    OneWorker /\ QueueInv /\ [Next]_vars => [Lifecycle!Next]_(Lifecycle!vars)
<1> SUFFICES ASSUME OneWorker, QueueInv, [Next]_vars
             PROVE  Stutters \/ Queues \/ Switches \/ Deletes \/ Starts \/ Ends \/ Loses \/ Rescues
  BY KindsMapped
<1>1. ASSUME NEW w \in Workers, WorkerNext(w)
      PROVE  Stutters \/ Starts \/ Ends \/ Loses \/ Rescues
  BY <1>1, JobStepKinds, RescueKinds, ScanCreateKind, CrashKind, QuietProcessKind DEF WorkerNext
<1>2. CASE (ApiNext \/ UserNext) /\ UNCHANGED workerVars
  BY <1>2, RequestKinds
<1>3. CASE UNCHANGED vars
  BY <1>3, SameRows, SameRuns DEF vars, tableVars, workerVars, Stutters
<1> QED
  BY <1>1, <1>2, <1>3 DEF Next

\* With one worker, the job table keeps to JobLifecycle whoever acts on it: only
\* the goroutine that drives a job, or the rescue once it is dead, takes it out of
\* running, only a resume takes it out of paused, and a finished job is only ever
\* deleted (drainQueue, reclaimOrphanedJobs, the handlers of converter.go).
THEOREM JobsKeepLifecycle == ASSUME OneWorker PROVE Spec => LifecycleSpec
<1>1. Init => Lifecycle!Init
  BY InitMapped
<1>2. QueueInv /\ [Next]_vars => [Lifecycle!Next]_(Lifecycle!vars)
  BY NextMapped
<1>3. Spec => []QueueInv
  BY QueueSafe
<1> QED
  BY <1>1, <1>2, <1>3, PTL DEF Spec, LifecycleSpec, Lifecycle!Spec

-----------------------------------------------------------------------------
(* No row is left running without a goroutine.                             *)

AllDriven == \A j \in JobIds : jobs[j].status = "running" => Owned(j)

\* Every kind of step but the loss of a goroutine keeps the running rows driven.
LEMMA KindsKeepDriven ==
    ASSUME AllDriven, Stutters \/ Queues \/ Switches \/ Deletes \/ Starts \/ Ends
    PROVE  AllDriven'
<1>1. ASSUME NEW S, Driven(S), \A j \in JobIds : jobs'[j].status = "running" => j \in S
      PROVE  AllDriven'
  BY <1>1 DEF AllDriven, Driven, Owned, IsLive, JobIds
<1>2. \A j \in JobIds : jobs[j].status = "running" => j \in Driving
  BY DEF AllDriven, Driving
<1>3. CASE Stutters
  BY <1>1, <1>2, <1>3 DEF Stutters, Moved
<1>4. CASE Queues
  BY <1>1, <1>2, <1>4 DEF Queues, Moved
<1>5. CASE Switches
  BY <1>1, <1>2, <1>5 DEF Switches, Moved
<1>6. CASE Deletes
  BY <1>1, <1>2, <1>6 DEF Deletes, Moved
<1>7. CASE Starts
  BY <1>1, <1>2, <1>7 DEF Starts, Moved
<1>8. CASE Ends
  BY <1>1, <1>2, <1>8 DEF Ends, Moved
<1> QED
  BY <1>3, <1>4, <1>5, <1>6, <1>7, <1>8

LEMMA NextNoOrphan ==
    OneWorker /\ QueueInv /\ NoOrphanedRow /\ [Next]_vars => NoOrphanedRow'
<1> SUFFICES ASSUME OneWorker, QueueInv, NoOrphanedRow, [Next]_vars,
                    faults' = 0, NEW w \in Workers, proc'[w] = "up"
             PROVE  AllDriven'
  BY DEF NoOrphanedRow, AllDriven, JobIds
<1>0. /\ faults \in Nat /\ DOMAIN proc = Workers
      /\ proc = [v \in Workers |-> proc[v]] /\ \A v \in Workers : v = w
  BY DEF QueueInv, TypeInv, TypeOK, WorkerTypeOK, OneWorker
<1>1. faults = 0 /\ proc[w] = "up" => AllDriven
  BY DEF NoOrphanedRow, AllDriven
<1>2. CASE WorkerNext(w)
  <2>1. ASSUME NEW j \in JobIds, JobStep(w, j) PROVE AllDriven'
    <3>1. UNCHANGED proc /\ faults' \in {faults, faults + 1}
      BY <2>1
      DEF JobStep, Claim, workerVars, Launch, SetRun, Poll, Prepare, BuildTextPDF, BuildVolume,
          AcquireGPU, StartVolume, ConvertReturns, FinishPaused, FinishStopped, FinishFailed,
          FinishDone, MarkLost, Settle, CleanInput, CleanOutput
    <3> QED
      BY <1>0, <1>1, <2>1, <3>1, JobStepKinds, KindsKeepDriven
  <2>2. ASSUME Reclaim(w) PROVE AllDriven'
    BY <2>2, RescueKinds DEF AllDriven, JobIds
  <2>3. ASSUME Start(w) \/ Crash(w) PROVE FALSE
    BY <1>0, <2>3 DEF Start, SetProc, Crash
  <2>4. ASSUME ReclaimFails(w) PROVE FALSE
    BY <1>0, <2>4 DEF ReclaimFails
  <2>5. ASSUME \/ ScanFail(w) \/ ScanCreate(w)
               \/ \E n \in Names : ScanCheck(w, n) \/ ScanExit(w, n)
        PROVE  AllDriven'
    <3>1. UNCHANGED <<proc, faults>>
      BY <2>5 DEF ScanFail, ScanCreate, ScanCheck, ScanExit
    <3> QED
      BY <1>1, <2>5, <3>1, QuietProcessKind, ScanCreateKind, KindsKeepDriven
  <2> QED
    BY <1>2, <2>1, <2>2, <2>3, <2>4, <2>5 DEF WorkerNext
<1>3. CASE (ApiNext \/ UserNext) /\ UNCHANGED workerVars
  BY <1>1, <1>3, RequestKinds, KindsKeepDriven DEF workerVars
<1>4. CASE UNCHANGED vars
  BY <1>1, <1>4 DEF vars, tableVars, workerVars, AllDriven, Owned, IsLive
<1> QED
  BY <1>0, <1>2, <1>3, <1>4 DEF Next

\* With one worker, a row that says running has a goroutine behind it whenever the
\* worker's loops are up and no statement was refused, through any sequence of
\* crashes and restarts: the three statements of reclaimOrphanedJobs forget no row.
THEOREM NoRowIsOrphaned == ASSUME OneWorker PROVE Spec => []NoOrphanedRow
<1>1. Init => NoOrphanedRow
  BY DEF Init, WorkerInit, NoOrphanedRow
<1>2. QueueInv /\ NoOrphanedRow /\ [Next]_vars => NoOrphanedRow'
  BY NextNoOrphan
<1>3. Spec => []QueueInv
  BY QueueSafe
<1> QED
  BY <1>1, <1>2, <1>3, PTL DEF Spec

-----------------------------------------------------------------------------
(* What holds of the queue for any number of workers.                      *)

\* A claim holds a row that was inserted.
ClaimsTracked ==
    \A w \in Workers, j \in JobIds : locked[w] = j => jobs[j].status # "none"

CleansPermitted ==
    \A w \in Workers, j \in JobIds :
        runs[w][j].pc \in Cleaning => ~jobs[j].forceOcr /\ ~jobs[j].manual

PermitInv ==
    /\ TypeInv
    /\ RowsInOrder
    /\ ClaimsTracked
    /\ RunsTracked
    /\ PermissionStands
    /\ CleansPermitted

LEMMA QueuePermits == QueueInv => PermitInv
BY DEF QueueInv, PermitInv, ClaimStands, ClaimsTracked, CleanupOnlyDisposable, CleansPermitted

-----------------------------------------------------------------------------
(* No statement changes whose input a row stands for, or what it is.       *)

InputsKept ==
    \A j \in JobIds :
        /\ jobs'[j].status = "none" <=> j > lastId'
        /\ jobs[j].status # "none" =>
              /\ jobs'[j].status # "none"
              /\ jobs'[j].inputPath = jobs[j].inputPath
              /\ jobs'[j].forceOcr = jobs[j].forceOcr
              /\ jobs'[j].manual = jobs[j].manual

LEMMA SameRowsKeepInputs == RowsInOrder /\ UNCHANGED <<jobs, lastId>> => InputsKept
BY DEF RowsInOrder, InputsKept

LEMMA InsertKeepsInputs ==
    ASSUME PermitInv, NEW k \in Nat, NEW row, InsertRows(k, row),
           [row EXCEPT !.createdAt = lastId + 1].status # "none"
    PROVE  InputsKept
<1>1. lastId \in Nat /\ JobIds \subseteq Nat
  BY ConversionJobsAssumption DEF PermitInv, TypeInv, TypeOK, TableTypeOK, JobIds
<1>2. ASSUME NEW j \in JobIds, jobs[j].status # "none"
      PROVE  jobs'[j] = jobs[j]
  <2>1. ~(j > lastId)
    BY <1>2 DEF PermitInv, RowsInOrder
  <2>2. j \notin (lastId + 1)..(lastId + k)
    BY <1>1, <2>1
  <2> QED
    BY <2>2 DEF InsertRows
<1>3. ASSUME NEW j \in JobIds
      PROVE  jobs'[j].status = "none" <=> j > lastId'
  <2>1. CASE j \in (lastId + 1)..(lastId + k)
    <3>1. jobs'[j].status # "none"
      BY <2>1 DEF InsertRows
    <3> QED
      BY <1>1, <2>1, <3>1 DEF InsertRows
  <2>2. CASE j \notin (lastId + 1)..(lastId + k)
    <3>1. jobs'[j] = jobs[j] /\ lastId' = lastId + k
      BY <2>2 DEF InsertRows
    <3> QED
      BY <1>1, <2>2, <3>1 DEF PermitInv, RowsInOrder
  <2> QED
    BY <2>1, <2>2
<1> QED
  BY <1>2, <1>3 DEF InputsKept

LEMMA UpdateRowKeepsInputs ==
    ASSUME PermitInv, NEW j, NEW row, UpdateRow(j, row), row.status # "none",
           row.inputPath = jobs[j].inputPath, row.forceOcr = jobs[j].forceOcr,
           row.manual = jobs[j].manual
    PROVE  InputsKept
BY DEF UpdateRow, Exists, PermitInv, TypeInv, TypeOK, TableTypeOK, RowsInOrder, InputsKept

LEMMA UpdateRowsKeepsInputs ==
    ASSUME RowsInOrder, NEW new, UpdateRows(new),
           \A j \in JobIds : j \in DOMAIN new =>
              /\ jobs[j].status # "none" /\ new[j].status # "none"
              /\ new[j].inputPath = jobs[j].inputPath
              /\ new[j].forceOcr = jobs[j].forceOcr /\ new[j].manual = jobs[j].manual
    PROVE  InputsKept
BY DEF UpdateRows, RowsInOrder, InputsKept

LEMMA StatementsKeepInputs ==
    ASSUME PermitInv
    PROVE  /\ \A k \in Nat : \A n, input, force : CreateJobs(k, n, input, force) => InputsKept
           /\ \A n : CreateManualJob(n) => InputsKept
           /\ \A w \in Workers, j \in JobIds : CommitClaim(w, j) => InputsKept
           /\ \A j \in JobIds : UpdateJobVolume(j) => InputsKept
           /\ \A j \in JobIds : MarkJobDone(j) \/ MarkJobFailed(j) \/ MarkJobStopped(j)
                                  \/ MarkJobPaused(j) => InputsKept
           /\ \A j : RequestStop(j) \/ DeleteRow(j) => InputsKept
           /\ PausePending \/ PauseRunning \/ ResumePaused => InputsKept
           /\ ReclaimPaused \/ ReclaimStopped \/ ReclaimRest => InputsKept
<1>0. jobs \in [JobIds -> Row] /\ \A j \in JobIds : jobs[j] \in Row
  BY DEF PermitInv, TypeInv, TypeOK, TableTypeOK
<1>1. \A k \in Nat : \A n, input, force : CreateJobs(k, n, input, force) => InputsKept
  BY InsertKeepsInputs DEF CreateJobs, NoRow
<1>2. \A n : CreateManualJob(n) => InputsKept
  BY InsertKeepsInputs DEF CreateManualJob, NoRow
<1>3. ASSUME NEW w \in Workers, NEW j \in JobIds, CommitClaim(w, j) PROVE InputsKept
  BY <1>0, <1>3 DEF CommitClaim, InputsKept, Row, PermitInv, RowsInOrder, ClaimsTracked
<1>4. ASSUME NEW j \in JobIds, UpdateJobVolume(j) PROVE InputsKept
  <2>1. UpdateRow(j, [jobs[j] EXCEPT !.curVol = TRUE])
    BY <1>4 DEF UpdateJobVolume
  <2> QED
    BY <1>0, <2>1 DEF UpdateRow, Exists, InputsKept, Row, PermitInv, RowsInOrder
<1>5. ASSUME NEW j \in JobIds,
             MarkJobDone(j) \/ MarkJobFailed(j) \/ MarkJobStopped(j) \/ MarkJobPaused(j)
      PROVE  InputsKept
  <2>1. PICK row \in {Ended(j, "done"), Ended(j, "failed"), Ended(j, "stopped"),
                      [jobs[j] EXCEPT !.status = "paused", !.pauseReq = FALSE]} :
          UpdateRow(j, row)
    BY <1>5 DEF MarkJobDone, MarkJobFailed, MarkJobStopped, MarkJobPaused
  <2>2. /\ row.status # "none" /\ row.inputPath = jobs[j].inputPath
        /\ row.forceOcr = jobs[j].forceOcr /\ row.manual = jobs[j].manual
    BY <1>0 DEF Ended, Row
  <2> QED
    BY <2>1, <2>2, UpdateRowKeepsInputs
<1>6. ASSUME NEW j, RequestStop(j) PROVE InputsKept
  <2>1. UpdateRow(j, [jobs[j] EXCEPT !.stopReq = TRUE])
    BY <1>6 DEF RequestStop
  <2> QED
    BY <1>0, <2>1 DEF UpdateRow, Exists, InputsKept, Row, PermitInv, RowsInOrder
<1>7. ASSUME NEW j, DeleteRow(j) PROVE InputsKept
  BY <1>7, UpdateRowKeepsInputs DEF DeleteRow, NoRow
<1>8. ASSUME PausePending \/ PauseRunning \/ ResumePaused PROVE InputsKept
  <2>1. CASE PausePending
    BY <1>0, <2>1, UpdateRowsKeepsInputs DEF PermitInv, PausePending, WithStatus, Row
  <2>2. CASE PauseRunning
    BY <1>0, <2>2, UpdateRowsKeepsInputs DEF PermitInv, PauseRunning, WithStatus, Row
  <2>3. CASE ResumePaused
    BY <1>0, <2>3, UpdateRowsKeepsInputs DEF PermitInv, ResumePaused, WithStatus, Row
  <2> QED
    BY <1>8, <2>1, <2>2, <2>3
<1>9. ASSUME ReclaimPaused \/ ReclaimStopped \/ ReclaimRest PROVE InputsKept
  <2>1. CASE ReclaimPaused
    BY <1>0, <2>1, UpdateRowsKeepsInputs DEF PermitInv, ReclaimPaused, WithStatus, Row
  <2>2. CASE ReclaimStopped
    BY <1>0, <2>2, UpdateRowsKeepsInputs DEF PermitInv, ReclaimStopped, WithStatus, Ended, Row
  <2>3. CASE ReclaimRest
    BY <1>0, <2>3, UpdateRowsKeepsInputs DEF PermitInv, ReclaimRest, WithStatus, Row
  <2> QED
    BY <1>9, <2>1, <2>2, <2>3
<1> QED
  BY <1>1, <1>2, <1>3, <1>4, <1>5, <1>6, <1>7, <1>8, <1>9

LEMMA NextKeepsInputs == PermitInv /\ [Next]_vars => InputsKept
<1> SUFFICES ASSUME PermitInv, [Next]_vars PROVE InputsKept
  OBVIOUS
<1>0. UNCHANGED <<jobs, lastId>> => InputsKept
  BY SameRowsKeepInputs DEF PermitInv
<1>1. ASSUME NEW w \in Workers, NEW j \in JobIds, JobStep(w, j) PROVE InputsKept
  BY <1>0, <1>1, StatementsKeepInputs
  DEF tableVars, JobStep, Claim, LockOldest, Launch, Poll, Prepare, BuildTextPDF, BuildVolume,
      AcquireGPU, StartVolume, ConvertReturns, FinishPaused, FinishStopped, FinishFailed,
      FinishDone, MarkLost, CleanInput, CleanOutput
<1>2. ASSUME NEW w \in Workers, WorkerNext(w) PROVE InputsKept
  BY <1>0, <1>1, <1>2, StatementsKeepInputs
  DEF tableVars, WorkerNext, Start, Reclaim, ReclaimFails, Crash, ScanCheck, ScanExit, ScanCreate, ScanFail
<1>3. ASSUME NEW c \in Clients, UploadStep(c) \/ BookStep(c) \/ Abandon(c) PROVE InputsKept
  BY <1>0, <1>3, StatementsKeepInputs
  DEF tableVars, UploadStep, UploadCheck, UploadRename, UploadInsert, UploadFinished, AddStage, AddExtract,
      AddInsert, AddEnds, BookStep, Abandon, DeleteBookCheck, DeleteVolumeCheck,
      DeleteBookStep, DeleteVolumeStep
<1>4. ASSUME NEW c \in Clients, JobRequestStep(c) PROVE InputsKept
  <2>1. reqs[c].count \in Nat
    BY RequestCount DEF PermitInv, TypeInv, TypeOK, ApiTypeOK
  <2> QED
    BY <1>0, <1>4, <2>1, StatementsKeepInputs
    DEF tableVars, JobRequestStep, ReconvertCheck, ReconvertInsert, ReadJob, StopJob, DeleteJob, WipeInput,
        Pause, PauseRest, Resume
<1>5. UserNext => InputsKept
  BY <1>0 DEF UserNext, tableVars
<1>6. UNCHANGED vars => InputsKept
  BY <1>0 DEF vars, tableVars
<1> QED
  BY <1>2, <1>3, <1>4, <1>5, <1>6 DEF Next, ApiNext

\* What a step may do to a claim, and to a goroutine: let it go on, with no more
\* permission than it had, or start one with the permission its row allows.
LocksGoOn ==
    \A w \in Workers, j \in JobIds :
        locked'[w] = j => locked[w] = j \/ jobs[j].status # "none"

RunsGoOn ==
    \A w \in Workers, j \in JobIds : runs'[w][j].pc # "idle" =>
        \/ /\ runs[w][j].pc # "idle"
           /\ runs'[w][j].allowCleanup => runs[w][j].allowCleanup
           /\ runs'[w][j].pc \in Cleaning =>
                 runs[w][j].pc \in Cleaning \/ runs[w][j].allowCleanup
        \/ /\ jobs'[j].status # "none"
           /\ runs'[w][j].pc \notin Cleaning
           /\ runs'[w][j].allowCleanup => ~jobs'[j].forceOcr /\ ~jobs'[j].manual

LEMMA PermitStep ==
    ASSUME PermitInv, TypeInv', InputsKept, LocksGoOn, RunsGoOn
    PROVE  PermitInv'
<1>1. RowsInOrder' /\ ClaimsTracked'
  BY DEF PermitInv, ClaimsTracked, InputsKept, LocksGoOn, RowsInOrder, JobIds
<1>2. ASSUME NEW w \in Workers, NEW j \in JobIds, runs'[w][j].pc # "idle"
      PROVE  /\ jobs'[j].status # "none"
             /\ runs'[w][j].allowCleanup => ~jobs'[j].forceOcr /\ ~jobs'[j].manual
             /\ runs'[w][j].pc \in Cleaning => ~jobs'[j].forceOcr /\ ~jobs'[j].manual
  <2>1. CASE /\ runs[w][j].pc # "idle"
             /\ runs'[w][j].allowCleanup => runs[w][j].allowCleanup
             /\ runs'[w][j].pc \in Cleaning =>
                   runs[w][j].pc \in Cleaning \/ runs[w][j].allowCleanup
    <3>1. jobs[j].status # "none"
      BY <2>1 DEF PermitInv, RunsTracked
    <3>2. /\ jobs'[j].status # "none"
          /\ jobs'[j].forceOcr = jobs[j].forceOcr /\ jobs'[j].manual = jobs[j].manual
      BY <3>1 DEF InputsKept
    <3>3. runs[w][j].allowCleanup \/ runs[w][j].pc \in Cleaning
             => ~jobs[j].forceOcr /\ ~jobs[j].manual
      BY <2>1 DEF PermitInv, PermissionStands, CleansPermitted
    <3> QED
      BY <2>1, <3>2, <3>3
  <2> QED
    BY <1>2, <2>1 DEF RunsGoOn
<1>3. RunsTracked' /\ PermissionStands'
  BY <1>2 DEF RunsTracked, PermissionStands, JobIds
<1>4. CleansPermitted'
  BY <1>2 DEF CleansPermitted, Cleaning, JobIds
<1> QED
  BY <1>1, <1>3, <1>4 DEF PermitInv

\* A step of one goroutine.
LEMMA PermitRunStep ==
    ASSUME PermitInv, TypeInv', InputsKept, LocksGoOn, NEW w \in Workers, NEW j \in JobIds,
           NEW run, runs' = [runs EXCEPT ![w][j] = run],
           run.pc # "idle" =>
              \/ /\ runs[w][j].pc # "idle"
                 /\ run.allowCleanup => runs[w][j].allowCleanup
                 /\ run.pc \in Cleaning => runs[w][j].pc \in Cleaning \/ runs[w][j].allowCleanup
              \/ /\ jobs'[j].status # "none"
                 /\ run.pc \notin Cleaning
                 /\ run.allowCleanup => ~jobs'[j].forceOcr /\ ~jobs'[j].manual
    PROVE  PermitInv'
<1>1. \A v \in Workers, k \in JobIds :
         runs'[v][k] = IF v = w /\ k = j THEN run ELSE runs[v][k]
  BY DEF PermitInv, TypeInv, TypeOK, WorkerTypeOK
<1>2. RunsGoOn
  BY <1>1 DEF RunsGoOn
<1> QED
  BY <1>2, PermitStep

LEMMA JobStepPermitted ==
    ASSUME PermitInv, TypeInv', InputsKept, NEW w \in Workers, NEW j \in JobIds, JobStep(w, j)
    PROVE  PermitInv'
<1> DEFINE r == runs[w][j]
<1>0. /\ r \in Run
      /\ jobs \in [JobIds -> Row]
      /\ locked \in [Workers -> 0..MaxJobs]
  BY RunsType DEF PermitInv, TypeInv, TypeOK, TableTypeOK
<1>1. UNCHANGED locked => LocksGoOn
  BY DEF LocksGoOn
<1>2. UNCHANGED tableVars => LocksGoOn
  BY <1>1 DEF tableVars
<1>3. CASE Claim(w, j)
  <2>1. jobs[j].status # "none" /\ locked' = [locked EXCEPT ![w] = j] /\ UNCHANGED runs
    BY <1>3 DEF Claim, LockOldest, Claimable, workerVars
  <2>2. LocksGoOn
    BY <1>0, <2>1 DEF LocksGoOn
  <2> QED
    BY <2>1, <2>2, PermitStep DEF RunsGoOn
<1>4. CASE Launch(w, j)
  <2> DEFINE run == [Idle EXCEPT !.pc = "launched",
                                 !.allowCleanup = ~jobs[j].forceOcr /\ ~jobs[j].manual]
  <2>1. /\ locked[w] = j /\ locked' = [locked EXCEPT ![w] = 0]
        /\ runs' = [runs EXCEPT ![w][j] = run]
    BY <1>4 DEF Launch, CommitClaim, SetRun
  <2>2. jobs[j].status # "none"
    BY <2>1 DEF PermitInv, ClaimsTracked
  <2>3. LocksGoOn
    BY <1>0, <2>1, ConversionJobsAssumption DEF LocksGoOn, JobIds
  <2>4. run.pc = "launched" /\ (run.allowCleanup <=> ~jobs[j].forceOcr /\ ~jobs[j].manual)
    BY DEF Idle
  <2>5. /\ jobs'[j].status # "none" /\ jobs'[j].forceOcr = jobs[j].forceOcr
        /\ jobs'[j].manual = jobs[j].manual
    BY <2>2 DEF InputsKept
  <2>6. run.pc \notin Cleaning
    BY <2>4 DEF Cleaning
  <2> HIDE DEF run
  <2> QED
    BY <2>1, <2>3, <2>4, <2>5, <2>6, PermitRunStep
<1>5. CASE StartVolume(w, j)
  <2>1. UNCHANGED <<runs, locked>>
    BY <1>5 DEF StartVolume, UpdateJobVolume, UpdateRow, workerVars
  <2> QED
    BY <1>1, <2>1, PermitStep DEF RunsGoOn
<1>6. ASSUME NEW run, SetRun(w, j, run), UNCHANGED tableVars, r.pc # "idle",
             run.allowCleanup => r.allowCleanup,
             run.pc \in Cleaning => r.pc \in Cleaning
      PROVE  PermitInv'
  BY <1>2, <1>6, PermitRunStep DEF SetRun
<1>7. CASE Poll(w, j) \/ Prepare(w, j) \/ AcquireGPU(w, j)
  BY <1>0, <1>6, <1>7 DEF Poll, Prepare, AcquireGPU, Run, Cleaning
<1>8. ASSUME NEW v \in Vols, BuildTextPDF(w, j, v) \/ BuildVolume(w, j, v) PROVE PermitInv'
  BY <1>0, <1>6, <1>8 DEF BuildTextPDF, BuildVolume, Run
<1>9. ASSUME NEW err \in BOOLEAN, ConvertReturns(w, j, err) PROVE PermitInv'
  <2>1. PICK ok : SetRun(w, j, [r EXCEPT !.pc = IF r.signal = "pause" THEN "pausing"
                                                                      ELSE "returned",
                                         !.err = err, !.ok = ok])
    BY <1>9 DEF ConvertReturns
  <2>2. UNCHANGED tableVars /\ r.pc # "idle"
    BY <1>9 DEF ConvertReturns
  <2> QED
    BY <1>0, <1>6, <2>1, <2>2 DEF Run, Cleaning
<1>10. CASE CleanInput(w, j) \/ CleanOutput(w, j)
  BY <1>0, <1>6, <1>10 DEF CleanInput, CleanOutput, Run, Idle, Cleaning
<1>11. CASE FinishStep(w, j) \/ MarkLost(w, j)
  <2> DEFINE cleans == r.pc = "returned" /\ ~r.ok /\ r.allowCleanup
             run == IF cleans THEN [Idle EXCEPT !.pc = "cleanInput"] ELSE Idle
  <2>1. /\ r.pc \in {"pausing", "returned"}
        /\ runs' = [runs EXCEPT ![w][j] = run]
        /\ UNCHANGED locked
    BY <1>11
    DEF FinishStep, FinishPaused, FinishStopped, FinishFailed, FinishDone, MarkLost, Settle,
        MarkJobPaused, MarkJobStopped, MarkJobFailed, MarkJobDone, UpdateRow, tableVars
  <2>2. ~run.allowCleanup /\ (run.pc \in Cleaning => r.allowCleanup)
    BY DEF Idle, Cleaning
  <2> HIDE DEF run
  <2> QED
    BY <1>1, <2>1, <2>2, PermitRunStep
<1> QED
  BY <1>3, <1>4, <1>5, <1>7, <1>8, <1>9, <1>10, <1>11 DEF JobStep, FinishStep

LEMMA NextPermitInv == PermitInv /\ [Next]_vars => PermitInv'
<1> SUFFICES ASSUME PermitInv, [Next]_vars PROVE PermitInv'
  OBVIOUS
<1>0. TypeInv' /\ InputsKept
  BY NextTypeInv, NextKeepsInputs DEF PermitInv
<1>1. UNCHANGED <<runs, locked>> => PermitInv'
  BY <1>0, PermitStep DEF RunsGoOn, LocksGoOn
<1>2. ASSUME NEW w \in Workers, WorkerNext(w) PROVE PermitInv'
  <2>1. ASSUME NEW j \in JobIds, JobStep(w, j) PROVE PermitInv'
    BY <1>0, <2>1, JobStepPermitted
  <2>2. CASE Crash(w)
    <3>1. /\ \A v \in Workers : locked'[v] = IF v = w THEN 0 ELSE locked[v]
          /\ \A v \in Workers, j \in JobIds : runs'[v][j] = IF v = w THEN Idle ELSE runs[v][j]
      BY <2>2 DEF Crash, PermitInv, TypeInv, TypeOK, TableTypeOK, WorkerTypeOK
    <3>2. LocksGoOn
      BY <3>1, ConversionJobsAssumption DEF LocksGoOn, JobIds
    <3>3. RunsGoOn
      BY <3>1 DEF RunsGoOn, Idle
    <3> QED
      BY <1>0, <3>2, <3>3, PermitStep
  <2>3. CASE ScanCreate(w)
    <3> DEFINE run == [Idle EXCEPT !.pc = "launched", !.scanned = TRUE]
    <3>1. InsertRows(1, [NoRow EXCEPT !.status = "running", !.name = scanning[w],
                                      !.inputPath = scanning[w], !.manual = TRUE])
      BY <2>3 DEF ScanCreate, CreateManualJob
    <3>2. /\ lastId \in Nat /\ lastId + 1 \in JobIds
          /\ lastId' = lastId + 1 /\ UNCHANGED locked
      BY <3>1, ConversionJobsAssumption
      DEF InsertRows, PermitInv, TypeInv, TypeOK, TableTypeOK, JobIds
    <3>3. jobs'[lastId + 1].status # "none"
      BY <1>0, <3>2 DEF InputsKept
    <3>4. run.pc = "launched" /\ ~run.allowCleanup /\ run.pc \notin Cleaning
      BY DEF Idle, Cleaning
    <3>5. runs' = [runs EXCEPT ![w][lastId + 1] = run]
      BY <2>3 DEF ScanCreate
    <3>6. LocksGoOn
      BY <3>2 DEF LocksGoOn
    <3> HIDE DEF run
    <3> QED
      BY <1>0, <3>2, <3>3, <3>4, <3>5, <3>6, PermitRunStep
  <2>4. CASE Reclaim(w)
    <3>1. UNCHANGED <<runs, locked>>
      BY <2>4 DEF Reclaim, SetProc, ReclaimPaused, ReclaimStopped, ReclaimRest, UpdateRows
    <3> QED
      BY <1>1, <3>1
  <2>5. ASSUME \/ Start(w) \/ ReclaimFails(w) \/ ScanFail(w)
               \/ \E n \in Names : ScanCheck(w, n) \/ ScanExit(w, n)
        PROVE  PermitInv'
    BY <1>1, <2>5 DEF Start, SetProc, ReclaimFails, ScanFail, ScanCheck, ScanExit, tableVars
  <2> QED
    BY <1>2, <2>1, <2>2, <2>3, <2>4, <2>5 DEF WorkerNext
<1>3. CASE (ApiNext \/ UserNext) /\ UNCHANGED workerVars
  <2>1. UNCHANGED tableVars => UNCHANGED locked
    BY DEF tableVars
  <2>2. ASSUME NEW c \in Clients, UploadStep(c) PROVE UNCHANGED locked
    BY <2>1, <2>2
    DEF UploadStep, UploadCheck, UploadRename, UploadInsert, UploadFinished, AddStage, AddExtract,
        AddInsert, AddEnds, CreateJobs, InsertRows
  <2>3. ASSUME NEW c \in Clients, JobRequestStep(c) PROVE UNCHANGED locked
    BY <2>1, <2>3
    DEF JobRequestStep, ReconvertCheck, ReconvertInsert, ReadJob, StopJob, DeleteJob, WipeInput,
        Pause, PauseRest, Resume, CreateJobs, InsertRows, RequestStop, DeleteRow, UpdateRow,
        PausePending, PauseRunning, ResumePaused, UpdateRows
  <2>4. ASSUME NEW c \in Clients, BookStep(c) \/ Abandon(c) PROVE UNCHANGED locked
    BY <2>1, <2>4
    DEF BookStep, Abandon, DeleteBookCheck, DeleteVolumeCheck, DeleteBookStep, DeleteVolumeStep
  <2>5. UserNext => UNCHANGED locked
    BY <2>1 DEF UserNext
  <2>6. UNCHANGED <<runs, locked>>
    BY <1>3, <2>2, <2>3, <2>4, <2>5 DEF ApiNext, workerVars
  <2> QED
    BY <1>1, <2>6
<1>4. CASE UNCHANGED vars
  BY <1>1, <1>4 DEF vars, tableVars, workerVars
<1> QED
  BY <1>2, <1>3, <1>4 DEF Next

LEMMA PermitSafe == Spec => []PermitInv
<1>1. Init => PermitInv
  BY InitQueueInv, QueuePermits
<1>2. PermitInv /\ [Next]_vars => PermitInv'
  BY NextPermitInv
<1> QED
  BY <1>1, <1>2, PTL DEF Spec

\* However many converter processes share the table, cleanupFailedJob never runs for
\* a reconvert's row or a manual folder's: the permission that processQueuedJob reads
\* once, when it claims the row, is as good when the goroutine comes to use it, and
\* nobody gives it to the manual scan's goroutines.
THEOREM CleanupsArePermitted == Spec => []CleansPermitted
<1>1. PermitInv => CleansPermitted
  BY DEF PermitInv
<1> QED
  BY <1>1, PermitSafe, PTL

-----------------------------------------------------------------------------
(* manualInProgress.                                                       *)

\* A manual goroutine settles only once, and the folder being scanned, the folders
\* being converted and the folders being let go are all different.
ScanInv ==
    \A w \in Workers :
        /\ \A j \in JobIds : runs[w][j].scanned =>
              /\ runs[w][j].pc \in Live
              /\ Input(j) # scanning[w] /\ Input(j) \notin exiting[w]
              /\ \A k \in JobIds : runs[w][k].scanned /\ Input(k) = Input(j) => k = j
        /\ scanning[w] \notin exiting[w]
        /\ \A n : n \in inProgress[w] <=>
              \/ n = scanning[w] /\ n # NoName
              \/ n \in exiting[w]
              \/ \E j \in JobIds : runs[w][j].scanned /\ n = Input(j)

LEMMA ScanInvExact == ScanInv => InProgressExact
<1> SUFFICES ASSUME ScanInv, NEW w \in Workers
             PROVE  inProgress[w] = ({scanning[w]} \ {NoName}) \cup exiting[w]
                        \cup {Input(j) : j \in {k \in JobIds : runs[w][k].scanned}}
  BY DEF InProgressExact
<1>1. ASSUME NEW n
      PROVE  n \in inProgress[w] <=>
                n \in ({scanning[w]} \ {NoName}) \cup exiting[w]
                        \cup {Input(j) : j \in {k \in JobIds : runs[w][k].scanned}}
  BY DEF ScanInv
<1> QED
  BY <1>1

\* A step that leaves the scan's own state alone, ends no manual goroutine and
\* starts none.
LEMMA ScanQuietStep ==
    ASSUME QueueInv, ScanInv, InputsKept, UNCHANGED <<scanning, inProgress, exiting>>,
           \A w \in Workers, j \in JobIds :
              /\ runs'[w][j].scanned <=> runs[w][j].scanned
              /\ runs[w][j].scanned => runs'[w][j].pc \in Live
    PROVE  ScanInv'
<1>1. \A w \in Workers, j \in JobIds :
         runs[w][j].scanned => jobs'[j].inputPath = jobs[j].inputPath
  BY DEF ScanInv, QueueInv, RunsTracked, InputsKept, Live
<1> QED
  BY <1>1 DEF ScanInv, Input, JobIds

\* One goroutine takes a step and goes on as manual as it was.
LEMMA ScanRunStep ==
    ASSUME QueueInv, ScanInv, InputsKept, NEW w \in Workers, NEW j \in JobIds, NEW run,
           SetRun(w, j, run), run.scanned <=> runs[w][j].scanned,
           runs[w][j].scanned => run.pc \in Live
    PROVE  ScanInv'
<1>1. \A v \in Workers, k \in JobIds :
         runs'[v][k] = IF v = w /\ k = j THEN run ELSE runs[v][k]
  BY DEF SetRun, QueueInv, TypeInv, TypeOK, WorkerTypeOK
<1>2. \A v \in Workers, k \in JobIds : runs[v][k].scanned => runs[v][k].pc \in Live
  BY DEF ScanInv
<1> QED
  BY <1>1, <1>2, ScanQuietStep DEF SetRun

LEMMA JobStepKeepsScan ==
    ASSUME QueueInv, ScanInv, InputsKept, NEW w \in Workers, NEW j \in JobIds,
           Claim(w, j) \/ Launch(w, j) \/ QuietJobStep(w, j)
    PROVE  ScanInv'
<1> DEFINE r == runs[w][j]
<1>0. /\ r \in Run
      /\ r.scanned => r.pc \in Live /\ r.pc # "idle"
  BY RunsType DEF QueueInv, TypeInv, TypeOK, ScanInv, Live
<1>1. CASE Claim(w, j) \/ StartVolume(w, j)
  <2>1. UNCHANGED workerVars
    BY <1>1 DEF Claim, StartVolume
  <2>2. \A v \in Workers, k \in JobIds : runs[v][k].scanned => runs[v][k].pc \in Live
    BY DEF ScanInv
  <2> QED
    BY <2>1, <2>2, ScanQuietStep DEF workerVars
<1>2. CASE Launch(w, j)
  <2> DEFINE run == [Idle EXCEPT !.pc = "launched",
                                 !.allowCleanup = ~jobs[j].forceOcr /\ ~jobs[j].manual]
  <2>1. jobs[j].status = "pending"
    BY <1>2 DEF Launch, CommitClaim, QueueInv, ClaimStands
  <2>2. ~r.scanned
    BY <1>0, <2>1 DEF QueueInv, RunOwnsRow, IsLive
  <2>3. SetRun(w, j, run) /\ ~run.scanned
    BY <1>2 DEF Launch, Idle
  <2> HIDE DEF run
  <2> QED
    BY <2>2, <2>3, ScanRunStep
<1>3. CASE Poll(w, j)
  BY <1>0, <1>3, ScanRunStep DEF Poll, Run
<1>4. CASE Prepare(w, j) \/ AcquireGPU(w, j)
  BY <1>0, <1>4, ScanRunStep DEF Prepare, AcquireGPU, Run, Live
<1>5. ASSUME NEW v \in Vols, BuildTextPDF(w, j, v) \/ BuildVolume(w, j, v)
      PROVE  ScanInv'
  BY <1>0, <1>5, ScanRunStep DEF BuildTextPDF, BuildVolume, Run
<1>6. ASSUME NEW err \in BOOLEAN, ConvertReturns(w, j, err)
      PROVE  ScanInv'
  <2>1. PICK ok : SetRun(w, j, [r EXCEPT !.pc = IF r.signal = "pause" THEN "pausing"
                                                                      ELSE "returned",
                                         !.err = err, !.ok = ok])
    BY <1>6 DEF ConvertReturns
  <2> QED
    BY <1>0, <2>1, ScanRunStep DEF Run, Live
<1>7. CASE CleanInput(w, j) \/ CleanOutput(w, j)
  <2>1. ~r.scanned
    BY <1>0, <1>7 DEF CleanInput, CleanOutput, Live
  <2>2. PICK run \in {[r EXCEPT !.pc = "cleanOutput"], Idle} : SetRun(w, j, run)
    BY <1>7 DEF CleanInput, CleanOutput
  <2>3. ~run.scanned
    BY <1>0, <2>1 DEF Idle, Run
  <2> QED
    BY <2>1, <2>2, <2>3, ScanRunStep
<1> QED
  BY <1>1, <1>2, <1>3, <1>4, <1>5, <1>6, <1>7 DEF QuietJobStep

LEMMA SettleKeepsScan ==
    ASSUME QueueInv, ScanInv, InputsKept, NEW w \in Workers, NEW j \in JobIds,
           runs[w][j].pc \in {"pausing", "returned"}, Settle(w, j)
    PROVE  ScanInv'
<1> DEFINE r == runs[w][j]
           cleans == r.pc = "returned" /\ ~r.ok /\ r.allowCleanup
           run == IF cleans THEN [Idle EXCEPT !.pc = "cleanInput"] ELSE Idle
<1>1. ~run.scanned
  BY DEF Idle
<1>2. /\ scanning' = scanning /\ inProgress' = inProgress
      /\ runs' = [runs EXCEPT ![w][j] = run]
      /\ exiting' = [exiting EXCEPT ![w] = IF r.scanned THEN @ \cup {Input(j)} ELSE @]
  BY DEF Settle
<1> HIDE DEF run
<1>3. /\ \A v \in Workers, k \in JobIds :
            runs'[v][k] = IF v = w /\ k = j THEN run ELSE runs[v][k]
      /\ \A v \in Workers : exiting'[v] =
            IF v = w /\ r.scanned THEN exiting[v] \cup {Input(j)} ELSE exiting[v]
  BY <1>2 DEF QueueInv, TypeInv, TypeOK, WorkerTypeOK
<1>4. \A v \in Workers, k \in JobIds : runs[v][k].scanned => Input(k)' = Input(k)
  BY DEF ScanInv, QueueInv, RunsTracked, InputsKept, Live, Input
<1> SUFFICES ASSUME NEW v \in Workers
    PROVE /\ \A k \in JobIds : runs'[v][k].scanned =>
                /\ runs'[v][k].pc \in Live
                /\ Input(k)' # scanning'[v] /\ Input(k)' \notin exiting'[v]
                /\ \A i \in JobIds : runs'[v][i].scanned /\ Input(i)' = Input(k)' => i = k
          /\ scanning'[v] \notin exiting'[v]
          /\ \A n : n \in inProgress'[v] <=>
                \/ n = scanning'[v] /\ n # NoName
                \/ n \in exiting'[v]
                \/ \E k \in JobIds : runs'[v][k].scanned /\ n = Input(k)'
  BY DEF ScanInv, JobIds
<1>5. CASE v # w
  BY <1>2, <1>3, <1>4, <1>5 DEF ScanInv
<1>6. CASE v = w /\ ~r.scanned
  <2>1. /\ exiting'[w] = exiting[w]
        /\ \A k \in JobIds : runs'[w][k].scanned <=> runs[w][k].scanned
        /\ \A k \in JobIds : runs'[w][k].scanned => runs'[w][k] = runs[w][k]
    BY <1>1, <1>3, <1>6
  <2> QED
    BY <1>2, <1>4, <1>6, <2>1 DEF ScanInv
<1>7. CASE v = w /\ r.scanned
  <2>1. /\ exiting'[w] = exiting[w] \cup {Input(j)}
        /\ \A k \in JobIds : runs'[w][k].scanned <=> k # j /\ runs[w][k].scanned
        /\ \A k \in JobIds : runs'[w][k].scanned => runs'[w][k] = runs[w][k]
    BY <1>1, <1>3, <1>7
  <2> QED
    BY <1>2, <1>4, <1>7, <2>1 DEF ScanInv
<1> QED
  BY <1>5, <1>6, <1>7

LEMMA ScanStepKeepsScan ==
    ASSUME QueueInv, ScanInv, InputsKept, NEW w \in Workers, NEW n,
           (n \in Names /\ (ScanCheck(w, n) \/ ScanExit(w, n))) \/ ScanFail(w) \/ Crash(w)
    PROVE  ScanInv'
<1>1. \A v \in Workers, k \in JobIds : runs[v][k].scanned => Input(k)' = Input(k)
  BY DEF ScanInv, QueueInv, RunsTracked, InputsKept, Live, Input
<1>2. /\ \A v \in Workers : inProgress[v] \subseteq Names
      /\ NoName \notin Names
  BY ConversionJobsAssumption DEF QueueInv, TypeInv, TypeOK, WorkerTypeOK, Names
<1> SUFFICES ASSUME NEW v \in Workers
    PROVE /\ \A k \in JobIds : runs'[v][k].scanned =>
                /\ runs'[v][k].pc \in Live
                /\ Input(k)' # scanning'[v] /\ Input(k)' \notin exiting'[v]
                /\ \A i \in JobIds : runs'[v][i].scanned /\ Input(i)' = Input(k)' => i = k
          /\ scanning'[v] \notin exiting'[v]
          /\ \A m : m \in inProgress'[v] <=>
                \/ m = scanning'[v] /\ m # NoName
                \/ m \in exiting'[v]
                \/ \E k \in JobIds : runs'[v][k].scanned /\ m = Input(k)'
  BY DEF ScanInv, JobIds
<1>3. CASE n \in Names /\ ScanCheck(w, n)
  <2>1. /\ runs' = runs /\ exiting' = exiting
        /\ scanning'[v] = IF v = w THEN n ELSE scanning[v]
        /\ inProgress'[v] = IF v = w THEN inProgress[v] \cup {n} ELSE inProgress[v]
        /\ scanning[w] = NoName /\ n \notin inProgress[w]
    BY <1>3 DEF ScanCheck, QueueInv, TypeInv, TypeOK, WorkerTypeOK
  <2>2. CASE v # w
    BY <1>1, <2>1, <2>2 DEF ScanInv
  <2>3. CASE v = w
    <3>1. /\ \A k \in JobIds : runs[w][k].scanned => Input(k) # n
          /\ n \notin exiting[w] /\ n # NoName
      BY <1>2, <1>3, <2>1 DEF ScanInv
    <3>2. \A m : m \in inProgress'[w] <=>
             m = n \/ m \in exiting[w] \/ \E k \in JobIds : runs[w][k].scanned /\ m = Input(k)
      BY <2>1, <2>3 DEF ScanInv
    <3> QED
      BY <1>1, <2>1, <2>3, <3>1, <3>2 DEF ScanInv
  <2> QED
    BY <2>2, <2>3
<1>4. CASE n \in Names /\ ScanExit(w, n)
  <2>1. /\ runs' = runs /\ scanning' = scanning
        /\ exiting'[v] = IF v = w THEN exiting[v] \ {n} ELSE exiting[v]
        /\ inProgress'[v] = IF v = w THEN inProgress[v] \ {n} ELSE inProgress[v]
        /\ n \in exiting[w]
    BY <1>4 DEF ScanExit, QueueInv, TypeInv, TypeOK, WorkerTypeOK
  <2> QED
    BY <1>1, <1>2, <2>1 DEF ScanInv
<1>5. CASE ScanFail(w)
  <2>1. /\ runs' = runs /\ exiting' = exiting
        /\ scanning'[v] = IF v = w THEN NoName ELSE scanning[v]
        /\ inProgress'[v] = IF v = w THEN inProgress[v] \ {scanning[v]} ELSE inProgress[v]
        /\ scanning[w] # NoName
    BY <1>5 DEF ScanFail, QueueInv, TypeInv, TypeOK, WorkerTypeOK
  <2> QED
    BY <1>1, <1>2, <2>1 DEF ScanInv
<1>6. CASE Crash(w)
  <2>1. /\ \A k \in JobIds : runs'[v][k] = IF v = w THEN Idle ELSE runs[v][k]
        /\ exiting'[v] = IF v = w THEN {} ELSE exiting[v]
        /\ scanning'[v] = IF v = w THEN NoName ELSE scanning[v]
        /\ inProgress'[v] = IF v = w THEN {} ELSE inProgress[v]
    BY <1>6 DEF Crash, QueueInv, TypeInv, TypeOK, WorkerTypeOK
  <2>2. ~Idle.scanned
    BY DEF Idle
  <2> QED
    BY <1>1, <2>1, <2>2 DEF ScanInv
<1> QED
  BY <1>3, <1>4, <1>5, <1>6

LEMMA ScanCreateKeepsScan ==
    ASSUME QueueInv, ScanInv, InputsKept, NEW w \in Workers, ScanCreate(w)
    PROVE  ScanInv'
<1> DEFINE run == [Idle EXCEPT !.pc = "launched", !.scanned = TRUE]
           row == [NoRow EXCEPT !.status = "running", !.name = scanning[w],
                                !.inputPath = scanning[w], !.manual = TRUE]
<1>0. lastId \in Nat
  BY ConversionJobsAssumption DEF QueueInv, TypeInv, TypeOK, TableTypeOK
<1>1. InsertRows(1, row)
  BY DEF ScanCreate, CreateManualJob
<1>2. PICK j \in JobIds : j = lastId + 1 /\ j > lastId
  BY <1>0, <1>1, ConversionJobsAssumption DEF InsertRows, JobIds
<1>3. jobs[j].status = "none"
  BY <1>2 DEF QueueInv, RowsInOrder
<1>4. jobs'[j] = [row EXCEPT !.createdAt = lastId + 1]
  <2>1. j \in (lastId + 1)..(lastId + 1)
    BY <1>0, <1>2
  <2> QED
    BY <1>1, <1>2, <2>1 DEF InsertRows
<1>5. Input(j)' = scanning[w]
  BY <1>4 DEF NoRow, Input
<1>6. /\ runs' = [runs EXCEPT ![w][j] = run]
      /\ run.pc \in Live /\ run.scanned
      /\ scanning' = [scanning EXCEPT ![w] = NoName]
      /\ scanning[w] # NoName
      /\ inProgress' = inProgress /\ exiting' = exiting
  BY <1>2 DEF ScanCreate, Idle, Live
<1> HIDE DEF run, row
<1>7. /\ \A v \in Workers, k \in JobIds :
            runs'[v][k] = IF v = w /\ k = j THEN run ELSE runs[v][k]
      /\ \A v \in Workers : scanning'[v] = IF v = w THEN NoName ELSE scanning[v]
  BY <1>6 DEF QueueInv, TypeInv, TypeOK, WorkerTypeOK
<1>8. \A v \in Workers, k \in JobIds : runs[v][k].scanned => Input(k)' = Input(k) /\ k # j
  BY <1>3 DEF ScanInv, QueueInv, RunsTracked, InputsKept, Live, Input
<1>9. /\ \A v \in Workers : inProgress[v] \subseteq Names
      /\ NoName \notin Names
  BY ConversionJobsAssumption DEF QueueInv, TypeInv, TypeOK, WorkerTypeOK, Names
<1> SUFFICES ASSUME NEW v \in Workers
    PROVE /\ \A k \in JobIds : runs'[v][k].scanned =>
                /\ runs'[v][k].pc \in Live
                /\ Input(k)' # scanning'[v] /\ Input(k)' \notin exiting'[v]
                /\ \A i \in JobIds : runs'[v][i].scanned /\ Input(i)' = Input(k)' => i = k
          /\ scanning'[v] \notin exiting'[v]
          /\ \A m : m \in inProgress'[v] <=>
                \/ m = scanning'[v] /\ m # NoName
                \/ m \in exiting'[v]
                \/ \E k \in JobIds : runs'[v][k].scanned /\ m = Input(k)'
  BY DEF ScanInv, JobIds
<1>10. CASE v # w
  BY <1>6, <1>7, <1>8, <1>10 DEF ScanInv
<1>11. CASE v = w
  <2>1. /\ \A k \in JobIds : runs'[w][k].scanned <=> k = j \/ runs[w][k].scanned
        /\ \A k \in JobIds : runs'[w][k].scanned => runs'[w][k].pc \in Live
        /\ scanning'[w] = NoName
    BY <1>6, <1>7, <1>11 DEF ScanInv
  <2>2. \A k \in JobIds : runs[w][k].scanned => Input(k) \in inProgress[w]
    BY DEF ScanInv
  <2>3. \A m \in exiting[w] : m \in inProgress[w]
    BY DEF ScanInv
  <2>4. /\ NoName \notin exiting[w] /\ scanning[w] \notin exiting[w]
        /\ \A k \in JobIds : runs[w][k].scanned =>
              /\ Input(k) # NoName /\ Input(k) # scanning[w] /\ Input(k) \notin exiting[w]
              /\ \A i \in JobIds : runs[w][i].scanned /\ Input(i) = Input(k) => i = k
    BY <1>9, <2>2, <2>3 DEF ScanInv
  <2>5. ASSUME NEW k \in JobIds, runs'[w][k].scanned
        PROVE  /\ Input(k)' # NoName /\ Input(k)' \notin exiting[w]
               /\ \A i \in JobIds : runs'[w][i].scanned /\ Input(i)' = Input(k)' => i = k
    <3>1. CASE k = j
      BY <1>5, <1>6, <1>8, <2>1, <2>4, <3>1
    <3>2. CASE k # j
      BY <1>5, <1>6, <1>8, <2>1, <2>4, <2>5, <3>2
    <3> QED
      BY <3>1, <3>2
  <2>6. \A m : m \in inProgress[w] <=>
           \/ m \in exiting[w]
           \/ \E k \in JobIds : runs'[w][k].scanned /\ m = Input(k)'
    <3>1. \A m : m \in inProgress[w] <=>
             \/ m = scanning[w] \/ m \in exiting[w]
             \/ \E k \in JobIds : runs[w][k].scanned /\ m = Input(k)
      BY <1>6 DEF ScanInv
    <3>2. ASSUME NEW m
          PROVE  (\E k \in JobIds : runs'[w][k].scanned /\ m = Input(k)') <=>
                    \/ m = scanning[w] \/ \E k \in JobIds : runs[w][k].scanned /\ m = Input(k)
      <4>1. ASSUME NEW k \in JobIds, runs[w][k].scanned
            PROVE  runs'[w][k].scanned /\ Input(k)' = Input(k)
        BY <1>8, <2>1, <4>1
      <4>2. runs'[w][j].scanned
        BY <1>2, <2>1
      <4>3. ASSUME NEW k \in JobIds, runs'[w][k].scanned, k # j
            PROVE  runs[w][k].scanned /\ Input(k)' = Input(k)
        BY <1>8, <2>1, <4>3
      <4> QED
        BY <1>2, <1>5, <4>1, <4>2, <4>3
    <3> QED
      BY <3>1, <3>2
  <2> QED
    BY <1>6, <1>11, <2>1, <2>4, <2>5, <2>6
<1> QED
  BY <1>10, <1>11

LEMMA NextScanInv == QueueInv /\ ScanInv /\ [Next]_vars => ScanInv'
<1> SUFFICES ASSUME QueueInv, ScanInv, [Next]_vars PROVE ScanInv'
  OBVIOUS
<1>0. InputsKept
  BY QueuePermits, NextKeepsInputs
<1>1. UNCHANGED <<runs, scanning, inProgress, exiting>> => ScanInv'
  BY <1>0, ScanQuietStep DEF ScanInv
<1>2. ASSUME NEW w \in Workers, WorkerNext(w) PROVE ScanInv'
  <2>1. ASSUME NEW j \in JobIds, JobStep(w, j) PROVE ScanInv'
    <3>1. \/ Claim(w, j) \/ Launch(w, j) \/ QuietJobStep(w, j)
          \/ FinishStep(w, j) \/ MarkLost(w, j)
      BY <2>1 DEF JobStep, QuietJobStep, FinishStep
    <3>2. FinishStep(w, j) \/ MarkLost(w, j) =>
             runs[w][j].pc \in {"pausing", "returned"} /\ Settle(w, j)
      BY DEF FinishStep, FinishPaused, FinishStopped, FinishFailed, FinishDone, MarkLost
    <3> QED
      BY <1>0, <3>1, <3>2, JobStepKeepsScan, SettleKeepsScan
  <2>2. CASE Start(w) \/ Reclaim(w) \/ ReclaimFails(w)
    BY <1>1, <2>2 DEF Start, Reclaim, SetProc, ReclaimFails
  <2> QED
    BY <1>0, <1>2, <2>1, <2>2, ScanStepKeepsScan, ScanCreateKeepsScan DEF WorkerNext
<1>3. CASE (ApiNext \/ UserNext) /\ UNCHANGED workerVars
  BY <1>1, <1>3 DEF workerVars
<1>4. CASE UNCHANGED vars
  BY <1>1, <1>4 DEF vars, workerVars
<1> QED
  BY <1>2, <1>3, <1>4 DEF Next

\* With one worker, manualInProgress holds exactly the folders that the scan or a
\* manual goroutine has in hand, whatever happens to their rows meanwhile: no
\* entry is forgotten (the folder would never be scanned again) and none is
\* dropped early (it would be converted twice).
THEOREM InProgressIsExact == ASSUME OneWorker PROVE Spec => []InProgressExact
<1>1. ASSUME Init PROVE ScanInv
  <2>1. \A w \in Workers :
           /\ scanning[w] = NoName /\ inProgress[w] = {} /\ exiting[w] = {}
           /\ \A j \in JobIds : ~runs[w][j].scanned
    BY <1>1 DEF Init, WorkerInit, Idle
  <2> QED
    BY <2>1 DEF ScanInv
<1>2. QueueInv /\ ScanInv /\ [Next]_vars => ScanInv'
  BY NextScanInv
<1>3. Spec => []QueueInv
  BY QueueSafe
<1>4. ScanInv => InProgressExact
  BY ScanInvExact
<1> QED
  BY <1>1, <1>2, <1>3, <1>4, PTL DEF Spec

-----------------------------------------------------------------------------
(* Staging folders.                                                        *)

Naming == {"rename", "insertUpload", "insertReconvert", "removeBook", "removeScan",
           "removeEpub", "removeRaw"}

Queued(j) == j \in JobIds /\ jobs[j].status # "none" /\ ~jobs[j].manual

Wiping(req) == req.pc = "wipe" \/ (req.pc = "deleteRow" /\ req.disposable)

\* A request that names a book names one a user chose; one that may wipe an input
\* wipes that of a queued row; a staging folder is there as long as it is being
\* filled, by one request, and no queued row reads it.
StagingInv ==
    /\ \A c \in Clients :
          /\ reqs[c].pc \in Naming => reqs[c].name \in Books
          /\ Wiping(reqs[c]) => Queued(reqs[c].job)
    /\ \A c \in Clients : At(c, "extract") =>
          /\ reqs[c].input \in Stagings
          /\ scans[reqs[c].input] # NoDir
          /\ \A j \in JobIds : Queued(j) => Input(j) # reqs[c].input
          /\ \A d \in Clients : At(d, "extract") /\ reqs[d].input = reqs[c].input => d = c

\* No insert of this step reads a folder that d is filling.
SparesInput(d) ==
    /\ scans'[reqs[d].input] # NoDir
    /\ \A j \in JobIds :
          Queued(j)' /\ jobs[j].status = "none" => jobs'[j].inputPath # reqs[d].input

LEMMA QueuedKept ==
    ASSUME InputsKept, NEW j, Queued(j)
    PROVE  Queued(j)' /\ Input(j)' = Input(j)
BY DEF InputsKept, Queued, Input, JobIds

\* Rows that were there keep their inputs.
LEMMA QueuedInputs ==
    ASSUME InputsKept, NEW d, SparesInput(d),
           \A j \in JobIds : Queued(j) => Input(j) # reqs[d].input
    PROVE  \A j \in JobIds : Queued(j)' => Input(j)' # reqs[d].input
BY DEF InputsKept, Queued, Input, SparesInput, JobIds

LEMMA OtherStagingsKept ==
    ASSUME StagingInv, InputsKept, reqs \in [Clients -> Request],
           NEW c \in Clients, NEW req, reqs' = [reqs EXCEPT ![c] = req],
           req.pc # "extract",
           req.pc \in Naming => req.name \in Books,
           Wiping(req) => Queued(req.job),
           \A d \in Clients \ {c} : At(d, "extract") => SparesInput(d)
    PROVE  StagingInv'
<1>1. \A d \in Clients : reqs'[d] = IF d = c THEN req ELSE reqs[d]
  OBVIOUS
<1>2. ASSUME NEW d \in Clients
      PROVE  /\ reqs'[d].pc \in Naming => reqs'[d].name \in Books
             /\ Wiping(reqs'[d]) =>
                   \E j \in JobIds : j = reqs'[d].job /\ Queued(j)'
  <2>1. Wiping(reqs'[d]) => Queued(reqs'[d].job)
    BY <1>1 DEF StagingInv
  <2> QED
    BY <1>1, <2>1, QueuedKept DEF StagingInv, Queued
<1>3. ASSUME NEW d \in Clients, reqs'[d].pc = "extract"
      PROVE  /\ d # c /\ reqs'[d] = reqs[d] /\ At(d, "extract")
             /\ reqs[d].input \in Stagings
             /\ scans'[reqs[d].input] # NoDir
             /\ \A j \in JobIds : Queued(j)' => Input(j)' # reqs[d].input
  <2>1. d # c /\ reqs'[d] = reqs[d] /\ At(d, "extract")
    BY <1>1, <1>3 DEF At
  <2>2. SparesInput(d) /\ reqs[d].input \in Stagings
    BY <2>1 DEF StagingInv
  <2>3. \A j \in JobIds : Queued(j) => Input(j) # reqs[d].input
    BY <2>1 DEF StagingInv
  <2> QED
    BY <2>1, <2>2, <2>3, QueuedInputs DEF SparesInput
<1>4. ASSUME NEW d \in Clients, reqs'[d].pc = "extract",
             NEW e \in Clients, reqs'[e].pc = "extract", reqs'[e].input = reqs'[d].input
      PROVE  e = d
  BY <1>3, <1>4 DEF StagingInv
<1> QED
  BY <1>2, <1>3, <1>4 DEF StagingInv, At, Wiping, Naming, Queued, JobIds

\* What a step that inserts nothing has to answer for is the folders alone.
LEMMA NoInsertSpares ==
    ASSUME PermitInv, InputsKept, UNCHANGED lastId, NEW d,
           scans'[reqs[d].input] # NoDir
    PROVE  SparesInput(d)
<1>1. \A j \in JobIds : jobs'[j].status # "none" <=> jobs[j].status # "none"
  BY DEF PermitInv, RowsInOrder, InputsKept
<1> QED
  BY <1>1 DEF SparesInput, Queued

LEMMA InsertSpares ==
    ASSUME PermitInv, NEW k \in Nat, NEW n \in Names \cup {NoName},
           NEW input \in Names \cup {NoName}, NEW force \in BOOLEAN, NEW d,
           CreateJobs(k, n, input, force), scans' = scans, scans[reqs[d].input] # NoDir,
           input # reqs[d].input
    PROVE  SparesInput(d)
<1> DEFINE row == [NoRow EXCEPT !.status = "pending", !.name = n, !.inputPath = input,
                                !.forceOcr = force]
<1>1. [row EXCEPT !.createdAt = lastId + 1].inputPath = input
  BY DEF NoRow
<1>2. InsertRows(k, row)
  BY DEF CreateJobs
<1> HIDE DEF row
<1>3. \A j \in JobIds : jobs'[j] = [row EXCEPT !.createdAt = lastId + 1] \/ jobs'[j] = jobs[j]
  BY <1>2 DEF InsertRows
<1> QED
  BY <1>1, <1>3 DEF SparesInput, Queued, JobIds

LEMMA UploadsSpareStaging ==
    ASSUME PermitInv, StagingInv, InputsKept, NEW c \in Clients, UploadStep(c)
    PROVE  StagingInv'
<1>0. /\ reqs \in [Clients -> Request]
      /\ reqs[c].name \in Names \cup {NoName} /\ reqs[c].input \in Names \cup {NoName}
      /\ reqs[c].vols \in SUBSET Vols
      /\ scans \in [Names -> Folder]
      /\ Books \subseteq Names /\ Stagings \subseteq Names
      /\ \A b \in Books : b \notin Stagings
  BY ConversionJobsAssumption
  DEF PermitInv, TypeInv, TypeOK, ApiTypeOK, Request, FoldersTypeOK, Names
<1>1. \A d \in Clients : At(d, "extract") =>
         /\ reqs[d].input \in Stagings /\ scans[reqs[d].input] # NoDir
         /\ reqs[c].name \in Books => reqs[c].name # reqs[d].input
         /\ d # c /\ At(c, "extract") => reqs[c].input # reqs[d].input
  BY <1>0 DEF StagingInv
<1>2. ASSUME UNCHANGED <<tableVars, scans>>
      PROVE  \A d \in Clients : At(d, "extract") => SparesInput(d)
  BY <1>1, <1>2, NoInsertSpares DEF tableVars
<1>3. NoRequest.pc = "idle" /\ ~Wiping(NoRequest) /\ "idle" \notin Naming
  BY DEF NoRequest, Wiping, Naming
<1>4. ASSUME NEW b \in Books, NEW vs \in (SUBSET Vols) \ {{}}, UploadCheck(c, b, vs)
      PROVE  StagingInv'
  <2> DEFINE req == [NoRequest EXCEPT !.pc = "rename", !.name = b, !.vols = vs]
  <2>1. reqs' = [reqs EXCEPT ![c] = req]
    BY <1>4 DEF UploadCheck, Receive
  <2>2. req.pc = "rename" /\ req.name \in Books /\ ~Wiping(req)
    BY DEF NoRequest, Wiping
  <2> HIDE DEF req
  <2>3. UNCHANGED <<tableVars, scans>>
    BY <1>4 DEF UploadCheck, folderVars
  <2> QED
    BY <1>0, <1>2, <2>1, <2>2, <2>3, OtherStagingsKept
<1>5. CASE UploadRename(c)
  <2>1. CASE Reply(c) /\ UNCHANGED scans
    BY <1>0, <1>2, <1>3, <1>5, <2>1, OtherStagingsKept DEF UploadRename, Reply
  <2>2. CASE /\ scans' = [scans EXCEPT ![reqs[c].name] = reqs[c].vols]
             /\ Goto(c, "insertUpload")
    <3> DEFINE req == [reqs[c] EXCEPT !.pc = "insertUpload"]
    <3>1. reqs' = [reqs EXCEPT ![c] = req]
      BY <2>2 DEF Goto
    <3>2. reqs[c].name \in Books
      BY <1>5 DEF UploadRename, At, StagingInv, Naming
    <3>3. req.pc = "insertUpload" /\ req.name \in Books /\ ~Wiping(req)
      BY <1>0, <3>2 DEF Request, Wiping
    <3> HIDE DEF req
    <3>4. \A d \in Clients : At(d, "extract") => scans'[reqs[d].input] # NoDir
      BY <1>0, <1>1, <2>2, <3>2
    <3>5. UNCHANGED lastId
      BY <1>5 DEF UploadRename, tableVars
    <3> QED
      BY <1>0, <3>1, <3>3, <3>4, <3>5, NoInsertSpares, OtherStagingsKept
  <2> QED
    BY <1>5, <2>1, <2>2 DEF UploadRename
<1>6. CASE UploadInsert(c)
  <2>1. reqs[c].name \in Books
    BY <1>6 DEF UploadInsert, At, StagingInv, Naming
  <2>2. \A d \in Clients : At(d, "extract") => SparesInput(d)
    BY <1>0, <1>1, <1>6, <2>1, InsertSpares DEF UploadInsert, folderVars
  <2> QED
    BY <1>0, <1>3, <1>6, <2>2, OtherStagingsKept DEF UploadInsert, Reply
<1>7. CASE UploadFinished(c)
  BY <1>0, <1>2, <1>3, <1>7, OtherStagingsKept DEF UploadFinished, Reply
<1>8. CASE AddInsert(c)
  <2>1. \A d \in Clients \ {c} : At(d, "extract") => SparesInput(d)
    BY <1>0, <1>1, <1>8, InsertSpares DEF AddInsert, folderVars
  <2> QED
    BY <1>0, <1>3, <1>8, <2>1, OtherStagingsKept DEF AddInsert, Reply
<1>9. ASSUME NEW placed \in BOOLEAN, AddEnds(c, placed)
      PROVE  StagingInv'
  <2>1. \A d \in Clients \ {c} : At(d, "extract") => scans'[reqs[d].input] # NoDir
    BY <1>0, <1>1, <1>9 DEF AddEnds
  <2>2. UNCHANGED lastId
    BY <1>9 DEF AddEnds, tableVars
  <2> QED
    BY <1>0, <1>3, <1>9, <2>1, <2>2, NoInsertSpares, OtherStagingsKept DEF AddEnds, Reply
<1>10. ASSUME NEW v \in Vols, AddExtract(c, v)
       PROVE  StagingInv'
  <2>1. reqs[c].input \in Names /\ scans[reqs[c].input] \in SUBSET Vols
    BY <1>0, <1>1, <1>10 DEF AddExtract, FoldersTypeOK, Folder
  <2>2. scans[reqs[c].input] \cup {v} # NoDir
    BY <2>1, LibraryFoldersAssumption
  <2>3. \A n \in Names : scans[n] # NoDir => scans'[n] # NoDir
    BY <1>0, <1>10, <2>2 DEF AddExtract
  <2> QED
    BY <1>0, <1>10, <2>3
    DEF AddExtract, tableVars, StagingInv, At, Wiping, Naming, Queued, Input, JobIds
<1>11. ASSUME NEW b \in Books, NEW s \in Stagings, AddStage(c, b, s)
       PROVE  StagingInv'
  <2> DEFINE req == [NoRequest EXCEPT !.pc = "extract", !.name = b, !.input = s]
  <2>1. reqs' = [reqs EXCEPT ![c] = req] /\ UNCHANGED jobs
    BY <1>11 DEF AddStage, Receive, tableVars
  <2>2. req.pc = "extract" /\ req.input = s /\ ~Wiping(req)
    BY DEF NoRequest, Wiping
  <2> HIDE DEF req
  <2>3. \A d \in Clients : reqs'[d] = IF d = c THEN req ELSE reqs[d]
    BY <1>0, <2>1
  <2>4. /\ \A n \in Names : scans[n] # NoDir => scans'[n] # NoDir
        /\ scans'[s] # NoDir /\ scans[s] = NoDir
    BY <1>0, <1>11, LibraryFoldersAssumption DEF AddStage
  <2>5. \A j \in JobIds : Input(j) # s
    BY <1>11 DEF AddStage, Input
  <2>6. \A d \in Clients : reqs'[d].pc = "extract" =>
           /\ reqs'[d].input \in Stagings /\ scans'[reqs'[d].input] # NoDir
           /\ \A j \in JobIds : Queued(j) => Input(j) # reqs'[d].input
    BY <1>0, <2>2, <2>3, <2>4, <2>5 DEF StagingInv, At
  <2>7. \A d, e \in Clients : reqs'[d].pc = "extract" /\ reqs'[e].pc = "extract"
                                 /\ reqs'[d].input = reqs'[e].input => d = e
    BY <1>1, <2>2, <2>3, <2>4 DEF StagingInv, At
  <2>8. \A d \in Clients :
           /\ reqs'[d].pc \in Naming => reqs'[d].name \in Books
           /\ Wiping(reqs'[d]) => Queued(reqs'[d].job)
    BY <2>2, <2>3 DEF StagingInv, Naming
  <2>9. \A j : Queued(j)' <=> Queued(j)
    BY <2>1 DEF Queued, JobIds
  <2> QED
    BY <2>1, <2>6, <2>7, <2>8 DEF StagingInv, At, Wiping, Naming, Queued, Input, JobIds
<1> QED
  BY <1>4, <1>5, <1>6, <1>7, <1>8, <1>9, <1>10, <1>11 DEF UploadStep

LEMMA RequestsSpareStaging ==
    ASSUME PermitInv, StagingInv, InputsKept, NEW c \in Clients,
           JobRequestStep(c) \/ BookStep(c) \/ Abandon(c)
    PROVE  StagingInv'
<1>0. /\ reqs \in [Clients -> Request]
      /\ reqs[c].name \in Names \cup {NoName} /\ reqs[c].count \in Nat
      /\ scans \in [Names -> Folder]
      /\ Books \subseteq Names /\ Stagings \subseteq Names
      /\ \A b \in Books : b \notin Stagings
  BY ConversionJobsAssumption, RequestCount
  DEF PermitInv, TypeInv, TypeOK, ApiTypeOK, Request, FoldersTypeOK, Names
<1>1. \A d \in Clients : At(d, "extract") =>
         /\ reqs[d].input \in Stagings /\ scans[reqs[d].input] # NoDir
         /\ reqs[c].name \in Books => reqs[c].name # reqs[d].input
         /\ \A j \in JobIds : Queued(j) => Input(j) # reqs[d].input
  BY <1>0 DEF StagingInv
<1>2. ASSUME NEW req, reqs' = [reqs EXCEPT ![c] = req], req.pc # "extract",
             req.pc \in Naming => req.name \in Books,
             Wiping(req) => Queued(req.job), UNCHANGED lastId,
             \A d \in Clients : At(d, "extract") => scans'[reqs[d].input] # NoDir
      PROVE  StagingInv'
  BY <1>0, <1>2, NoInsertSpares, OtherStagingsKept
<1>3. ASSUME UNCHANGED scans
      PROVE  \A d \in Clients : At(d, "extract") => scans'[reqs[d].input] # NoDir
  BY <1>1, <1>3
<1>4. NoRequest.pc = "idle" /\ ~Wiping(NoRequest) /\ "idle" \notin Naming
  BY DEF NoRequest, Wiping, Naming
<1>5. ASSUME UNCHANGED <<lastId, scans>>, Reply(c)
      PROVE  StagingInv'
  BY <1>2, <1>3, <1>4, <1>5 DEF Reply
<1>6. ASSUME NEW b \in Books, NEW k \in {1} \cup BulkSizes, NEW bulk \in BOOLEAN,
             ReconvertCheck(c, b, k, bulk)
      PROVE  StagingInv'
  <2> DEFINE req == [NoRequest EXCEPT !.pc = "insertReconvert", !.name = b, !.count = k]
  <2>1. reqs' = [reqs EXCEPT ![c] = req] /\ UNCHANGED <<lastId, scans>>
    BY <1>6 DEF ReconvertCheck, Receive, tableVars, folderVars
  <2>2. req.pc = "insertReconvert" /\ req.name \in Books /\ ~Wiping(req)
    BY DEF NoRequest, Wiping
  <2> HIDE DEF req
  <2> QED
    BY <1>2, <1>3, <2>1, <2>2
<1>7. CASE ReconvertInsert(c)
  <2>1. reqs[c].name \in Books
    BY <1>7 DEF ReconvertInsert, At, StagingInv, Naming
  <2>2. \A d \in Clients : At(d, "extract") => SparesInput(d)
    BY <1>0, <1>1, <1>7, <2>1, InsertSpares DEF ReconvertInsert, folderVars
  <2> QED
    BY <1>0, <1>4, <1>7, <2>2, OtherStagingsKept DEF ReconvertInsert, Reply
<1>8. ASSUME NEW j \in JobIds, ReadJob(c, j)
      PROVE  StagingInv'
  <2> DEFINE running == jobs[j].status = "running"
             req == [NoRequest EXCEPT !.pc = IF running THEN "stop" ELSE "deleteRow",
                                      !.job = j,
                                      !.disposable = ~running /\ Disposable(j)]
  <2>1. reqs' = [reqs EXCEPT ![c] = req] /\ UNCHANGED <<lastId, scans>>
    BY <1>8 DEF ReadJob, Receive, tableVars, folderVars
  <2>2. req.pc \in {"stop", "deleteRow"} /\ req.job = j
        /\ (req.disposable => Disposable(j))
    BY DEF NoRequest
  <2> HIDE DEF req
  <2>3. req.pc \notin Naming /\ req.pc # "extract" /\ (Wiping(req) => Queued(j))
    BY <1>8, <2>2 DEF Naming, Wiping, ReadJob, Exists, Disposable, Queued
  <2> QED
    BY <1>2, <1>3, <2>1, <2>2, <2>3
<1>9. CASE StopJob(c) \/ PauseRest(c) \/ Abandon(c)
  BY <1>5, <1>9
  DEF StopJob, RequestStop, UpdateRow, PauseRest, PauseRunning, UpdateRows, Abandon, tableVars,
      folderVars
<1>10. CASE DeleteJob(c)
  <2>1. UNCHANGED <<lastId, scans>>
    BY <1>10 DEF DeleteJob, DeleteRow, UpdateRow, folderVars
  <2>2. CASE Goto(c, "wipe") /\ reqs[c].disposable
    <3> DEFINE req == [reqs[c] EXCEPT !.pc = "wipe"]
    <3>1. reqs' = [reqs EXCEPT ![c] = req]
      BY <2>2 DEF Goto
    <3>2. Queued(reqs[c].job)
      BY <1>10, <2>2 DEF DeleteJob, At, StagingInv, Wiping
    <3>3. req.pc = "wipe" /\ req.job = reqs[c].job
      BY <1>0 DEF Request
    <3> HIDE DEF req
    <3>4. "wipe" \notin Naming
      BY DEF Naming
    <3> QED
      BY <1>2, <1>3, <2>1, <3>1, <3>2, <3>3, <3>4
  <2> QED
    BY <1>5, <1>10, <2>1, <2>2 DEF DeleteJob
<1>11. CASE WipeInput(c)
  <2> DEFINE j == reqs[c].job
  <2>1. Queued(j)
    BY <1>11 DEF WipeInput, At, StagingInv, Wiping
  <2>2. \A d \in Clients : At(d, "extract") => scans'[reqs[d].input] # NoDir
    BY <1>0, <1>1, <1>11, <2>1 DEF WipeInput, RemoveScan, Queued, Input
  <2> QED
    BY <1>2, <1>4, <1>11, <2>2 DEF WipeInput, Reply, tableVars
<1>12. CASE Pause(c) \/ Resume(c)
  <2>1. PICK req \in {[NoRequest EXCEPT !.pc = "pauseRunning"], NoRequest} :
           reqs' = [reqs EXCEPT ![c] = req]
    BY <1>12 DEF Pause, Resume, Receive
  <2>2. req.pc \in {"pauseRunning", "idle"}
    BY <2>1 DEF NoRequest
  <2>3. req.pc \notin Naming /\ req.pc # "extract" /\ ~Wiping(req)
    BY <2>2 DEF Naming, Wiping
  <2>4. UNCHANGED <<lastId, scans>>
    BY <1>12 DEF Pause, Resume, PausePending, ResumePaused, UpdateRows, folderVars
  <2> QED
    BY <1>2, <1>3, <2>1, <2>3, <2>4
<1>13. ASSUME NEW req, Receive(c, "book", req), UNCHANGED <<tableVars, folderVars>>,
              req.pc \in {"removeBook", "removeEpub"}, req.name \in Books
       PROVE  StagingInv'
  <2>1. req.pc # "extract" /\ ~Wiping(req)
    BY <1>13 DEF Wiping
  <2> QED
    BY <1>2, <1>3, <1>13, <2>1 DEF Receive, tableVars, folderVars
<1>14. ASSUME NEW b \in Books, DeleteBookCheck(c, b) PROVE StagingInv'
  <2> DEFINE req == [NoRequest EXCEPT !.pc = "removeBook", !.name = b]
  <2>1. req.pc = "removeBook" /\ req.name = b
    BY DEF NoRequest
  <2>2. Receive(c, "book", req) /\ UNCHANGED <<tableVars, folderVars>>
    BY <1>14 DEF DeleteBookCheck
  <2> HIDE DEF req
  <2> QED
    BY <1>13, <2>1, <2>2
<1>15. ASSUME NEW b \in Books, NEW v \in Vols, DeleteVolumeCheck(c, b, v) PROVE StagingInv'
  <2> DEFINE req == [NoRequest EXCEPT !.pc = "removeEpub", !.name = b, !.vols = {v}]
  <2>1. req.pc = "removeEpub" /\ req.name = b
    BY DEF NoRequest
  <2>2. Receive(c, "book", req) /\ UNCHANGED <<tableVars, folderVars>>
    BY <1>15 DEF DeleteVolumeCheck
  <2> HIDE DEF req
  <2> QED
    BY <1>13, <2>1, <2>2
<1>16. CASE DeleteBookStep(c) \/ DeleteVolumeStep(c)
  <2>1. reqs[c].pc \in Naming /\ reqs[c].name \in Books /\ UNCHANGED lastId
    BY <1>16 DEF DeleteBookStep, DeleteVolumeStep, At, StagingInv, Naming, tableVars
  <2>2. \A n \in Names \ {reqs[c].name} : scans'[n] = scans[n]
    BY <1>0, <1>16 DEF DeleteBookStep, DeleteVolumeStep, RemoveBook, RemoveScan
  <2>3. \A d \in Clients : At(d, "extract") => scans'[reqs[d].input] # NoDir
    BY <1>0, <1>1, <2>1, <2>2
  <2>4. CASE Reply(c)
    BY <1>2, <1>4, <2>1, <2>3, <2>4 DEF Reply
  <2>5. ASSUME NEW pc \in {"removeScan", "removeRaw"}, Goto(c, pc)
        PROVE  StagingInv'
    <3> DEFINE req == [reqs[c] EXCEPT !.pc = pc]
    <3>1. reqs' = [reqs EXCEPT ![c] = req]
      BY <2>5 DEF Goto
    <3>2. req.pc = pc /\ req.name \in Books
      BY <1>0, <2>1 DEF Request
    <3> HIDE DEF req
    <3>3. req.pc # "extract" /\ ~Wiping(req)
      BY <2>5, <3>2 DEF Wiping
    <3> QED
      BY <1>2, <2>1, <2>3, <3>1, <3>2, <3>3
  <2> QED
    BY <1>16, <2>4, <2>5 DEF DeleteBookStep, DeleteVolumeStep
<1> QED
  BY <1>6, <1>7, <1>8, <1>9, <1>10, <1>11, <1>12, <1>14, <1>15, <1>16
  DEF JobRequestStep, BookStep

\* The worker fills no folder with a queued input, and wipes only those of queued rows.
LEMMA WorkersSpareStaging ==
    ASSUME PermitInv, StagingInv, InputsKept, UNCHANGED reqs,
           \/ \E w \in Workers : WorkerNext(w)
           \/ UserNext
           \/ UNCHANGED vars
    PROVE  StagingInv'
<1>0. /\ reqs \in [Clients -> Request]
      /\ scans \in [Names -> Folder] /\ NoDir \in Folder
      /\ Books \subseteq Names /\ Stagings \subseteq Names
      /\ \A b \in Books : b \notin Stagings
  BY ConversionJobsAssumption
  DEF PermitInv, TypeInv, TypeOK, ApiTypeOK, FoldersTypeOK, Folder, Names
<1>1. ASSUME \A c \in Clients : At(c, "extract") => SparesInput(c)
      PROVE  StagingInv'
  <2>1. ASSUME NEW c \in Clients, At(c, "extract")
        PROVE  /\ scans'[reqs[c].input] # NoDir
               /\ \A j \in JobIds : Queued(j)' => Input(j)' # reqs[c].input
    <3>1. \A j \in JobIds : Queued(j) => Input(j) # reqs[c].input
      BY <2>1 DEF StagingInv
    <3> QED
      BY <1>1, <2>1, <3>1, QueuedInputs DEF SparesInput
  <2>2. \A j : Queued(j) => Queued(j)'
    BY QueuedKept
  <2> QED
    BY <2>1, <2>2 DEF StagingInv, At, Wiping, Naming, Queued, Input, JobIds
<1>2. ASSUME UNCHANGED lastId,
             \A n \in Stagings :
                scans[n] # NoDir /\ (\A j \in JobIds : Queued(j) => Input(j) # n)
                    => scans'[n] # NoDir
      PROVE  StagingInv'
  <2>1. \A c \in Clients : At(c, "extract") => scans'[reqs[c].input] # NoDir
    BY <1>2 DEF StagingInv
  <2> QED
    BY <1>1, <1>2, <2>1, NoInsertSpares
<1>3. ASSUME NEW w \in Workers, NEW j \in JobIds, JobStep(w, j) PROVE StagingInv'
  <2>1. UNCHANGED lastId
    BY <1>3
    DEF JobStep, Claim, LockOldest, Launch, CommitClaim, Poll, Prepare, BuildTextPDF, BuildVolume,
        AcquireGPU, StartVolume, UpdateJobVolume, ConvertReturns, FinishPaused, FinishStopped,
        FinishFailed, FinishDone, MarkLost, MarkJobPaused, MarkJobStopped, MarkJobFailed,
        MarkJobDone, UpdateRow, CleanInput, CleanOutput, tableVars
  <2>2. CASE CleanInput(w, j)
    <3>1. runs[w][j].pc \in Cleaning /\ runs[w][j].pc # "idle"
      BY <2>2 DEF CleanInput, Cleaning
    <3>2. Queued(j)
      BY <3>1 DEF PermitInv, RunsTracked, CleansPermitted, Queued
    <3>3. \A n \in Names \ {Input(j)} : scans'[n] = scans[n]
      BY <1>0, <2>2 DEF CleanInput, RemoveScan
    <3> QED
      BY <1>0, <1>2, <2>1, <3>2, <3>3
  <2>3. ASSUME NEW v \in Vols, BuildTextPDF(w, j, v) PROVE StagingInv'
    <3>1. \A f \in Folder : v \in Present(f) => f \ {v} # NoDir
      BY LibraryFoldersAssumption DEF Present, Folder
    <3>2. \A n \in Names : scans[n] # NoDir => scans'[n] # NoDir
      BY <1>0, <2>3, <3>1 DEF BuildTextPDF
    <3> QED
      BY <1>0, <1>2, <2>1, <3>2
  <2>4. CASE UNCHANGED scans
    BY <1>2, <2>1, <2>4
  <2> QED
    BY <1>3, <2>2, <2>3, <2>4
    DEF JobStep, Claim, Launch, Poll, Prepare, BuildVolume, AcquireGPU, StartVolume,
        ConvertReturns, FinishPaused, FinishStopped, FinishFailed, FinishDone, MarkLost, Settle,
        CleanOutput, RemoveBook, folderVars
<1>4. ASSUME NEW w \in Workers, ScanCreate(w) PROVE StagingInv'
  <2> DEFINE row == [NoRow EXCEPT !.status = "running", !.name = scanning[w],
                                  !.inputPath = scanning[w], !.manual = TRUE]
  <2>1. [row EXCEPT !.createdAt = lastId + 1].manual
    BY DEF NoRow
  <2>2. InsertRows(1, row) /\ UNCHANGED scans
    BY <1>4 DEF ScanCreate, CreateManualJob, folderVars
  <2> HIDE DEF row
  <2>3. \A j \in JobIds : jobs'[j] = [row EXCEPT !.createdAt = lastId + 1] \/ jobs'[j] = jobs[j]
    BY <2>2 DEF InsertRows
  <2>4. \A c \in Clients : At(c, "extract") => SparesInput(c)
    BY <2>1, <2>2, <2>3 DEF SparesInput, Queued, StagingInv, JobIds
  <2> QED
    BY <1>1, <2>4
<1>5. ASSUME NEW w \in Workers, WorkerNext(w), ~ScanCreate(w), ~\E j \in JobIds : JobStep(w, j)
      PROVE  StagingInv'
  <2>1. UNCHANGED <<lastId, scans>>
    BY <1>5
    DEF WorkerNext, Start, Reclaim, ReclaimPaused, ReclaimStopped, ReclaimRest, UpdateRows,
        ReclaimFails, Crash, ScanCheck, ScanExit, ScanFail, tableVars, folderVars
  <2> QED
    BY <1>2, <2>1
<1>6. CASE UserNext
  <2>1. PICK b \in Books, v \in Vols : DropVolume(b, v)
    BY <1>6 DEF UserNext
  <2>2. \A n \in Stagings : scans'[n] = scans[n]
    BY <1>0, <2>1 DEF DropVolume
  <2> QED
    BY <1>2, <1>6, <2>2 DEF UserNext, tableVars
<1>7. CASE UNCHANGED vars
  BY <1>2, <1>7 DEF vars, tableVars, folderVars
<1> QED
  BY <1>3, <1>4, <1>5, <1>6, <1>7

LEMMA NextStagingInv == PermitInv /\ StagingInv /\ [Next]_vars => StagingInv'
<1> SUFFICES ASSUME PermitInv, StagingInv, [Next]_vars PROVE StagingInv'
  OBVIOUS
<1>1. InputsKept
  BY NextKeepsInputs
<1>2. ASSUME NEW c \in Clients, UploadStep(c) \/ JobRequestStep(c) \/ BookStep(c) \/ Abandon(c)
      PROVE  StagingInv'
  BY <1>1, <1>2, UploadsSpareStaging, RequestsSpareStaging
<1>3. ASSUME (\E w \in Workers : WorkerNext(w) /\ UNCHANGED reqs) \/ UserNext \/ UNCHANGED vars
      PROVE  StagingInv'
  <2>1. UNCHANGED reqs
    BY <1>3 DEF UserNext, vars
  <2> QED
    BY <1>1, <1>3, <2>1, WorkersSpareStaging
<1> QED
  BY <1>2, <1>3 DEF Next, ApiNext

\* However many converter processes there are, the folder an add-to-existing upload
\* is still extracting into is never the input of a queued job's goroutine, although
\* it lies in the library from the start: uploadArchive inserts the row last, and no
\* other request can name the folder, remove it or draw its name again meanwhile.
THEOREM NoQueuedJobReadsHalfStaged == Spec => []NoHalfStagedInput
<1>1. Init => StagingInv
  BY DEF Init, ApiInit, StagingInv, NoRequest, Naming, Wiping, At
<1>2. PermitInv /\ StagingInv /\ [Next]_vars => StagingInv'
  BY NextStagingInv
<1>3. Spec => []PermitInv
  BY PermitSafe
<1>4. PermitInv /\ StagingInv => NoHalfStagedInput
  BY DEF PermitInv, RunsTracked, StagingInv, NoHalfStagedInput, IsLive, Live, Queued
<1> QED
  BY <1>1, <1>2, <1>3, <1>4, PTL DEF Spec
=============================================================================
