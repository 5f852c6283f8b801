--------------------------- MODULE ConverterWorker --------------------------
(***************************************************************************)
(* converter/watch.go: one converter process in watch mode.  It rescues    *)
(* what a dead process left behind, then runs two loops side by side (the  *)
(* queue and the scan for manual "-in" folders), each handing every job to *)
(* a goroutine of its own.  A job's goroutine, its signal poller and its   *)
(* mokuro child are runs[w][j]; only the GPU is serialised between them.   *)
(***************************************************************************)
EXTENDS LibraryFolders

CONSTANTS
    MaxCrashes, \* bound: how often worker processes die
    MaxFaults   \* bound: how many status updates the database refuses

ASSUME WorkerAssumption == MaxCrashes \in Nat /\ MaxFaults \in Nat

VARIABLES
    proc,       \* the process: down, in one of the rescue statements, or up
    runs,       \* runs[w][j]: the goroutine of process w that drives job j
    scanning,   \* the folder the scan has just added to manualInProgress
    inProgress, \* manualInProgress, keyed by folder
    exiting,    \* folders whose goroutine has only its deferred delete left
    crashes,
    faults

workerVars == <<proc, runs, scanning, inProgress, exiting, crashes, faults>>

(* pc of a run: launched; preparing, which ends in the wait for the GPU;   *)
(* ocr; when Convert has returned, the switch has found it pausing or goes *)
(* on as returned; the last two are the removals of cleanupFailedJob.      *)
Live     == {"launched", "preparing", "ocr", "pausing", "returned"}
Cleaning == {"cleanInput", "cleanOutput"}
Run == [pc: Live \cup Cleaning \cup {"idle"}, signal: {"none", "pause", "stop"},
        ok: BOOLEAN, err: BOOLEAN, allowCleanup: BOOLEAN, scanned: BOOLEAN]

Idle == [pc |-> "idle", signal |-> "none", ok |-> FALSE, err |-> FALSE,
         allowCleanup |-> FALSE, scanned |-> FALSE]

WorkerInit ==
    /\ proc = [w \in Workers |-> "down"]
    /\ runs = [w \in Workers |-> [j \in JobIds |-> Idle]]
    /\ scanning = [w \in Workers |-> NoName]
    /\ inProgress = [w \in Workers |-> {}]
    /\ exiting = [w \in Workers |-> {}]
    /\ crashes = 0
    /\ faults = 0

WorkerTypeOK ==
    /\ proc \in [Workers -> {"down", "reclaimPaused", "reclaimStopped", "reclaimRest", "up"}]
    /\ runs \in [Workers -> [JobIds -> Run]]
    /\ scanning \in [Workers -> Names \cup {NoName}]
    /\ inProgress \in [Workers -> SUBSET Names]
    /\ exiting \in [Workers -> SUBSET (Names \cup {NoName})]
    /\ crashes \in 0..MaxCrashes
    /\ faults \in 0..MaxFaults

Input(j)  == jobs[j].inputPath
Output(j) == jobs[j].name

-----------------------------------------------------------------------------
(* Start-up: runWatch calls reclaimOrphanedJobs before it starts the loops. *)

SetProc(w, p) ==
    /\ proc' = [proc EXCEPT ![w] = p]
    /\ UNCHANGED <<runs, scanning, inProgress, exiting, crashes, faults>>

Start(w) ==
    /\ proc[w] = "down"
    /\ SetProc(w, "reclaimPaused")
    /\ UNCHANGED <<tableVars, folderVars>>

Reclaim(w) ==
    /\ UNCHANGED folderVars
    /\ \/ proc[w] = "reclaimPaused"  /\ ReclaimPaused  /\ SetProc(w, "reclaimStopped")
       \/ proc[w] = "reclaimStopped" /\ ReclaimStopped /\ SetProc(w, "reclaimRest")
       \/ proc[w] = "reclaimRest"    /\ ReclaimRest    /\ SetProc(w, "up")

\* A statement of the rescue fails: runWatch logs it and starts the loops.
ReclaimFails(w) ==
    /\ proc[w] \in {"reclaimPaused", "reclaimStopped", "reclaimRest"}
    /\ faults < MaxFaults
    /\ faults' = faults + 1
    /\ proc' = [proc EXCEPT ![w] = "up"]
    /\ UNCHANGED <<runs, scanning, inProgress, exiting, crashes, tableVars, folderVars>>

Crash(w) ==
    /\ proc[w] # "down"
    /\ crashes < MaxCrashes
    /\ crashes' = crashes + 1
    /\ proc' = [proc EXCEPT ![w] = "down"]
    /\ runs' = [runs EXCEPT ![w] = [j \in JobIds |-> Idle]]
    /\ scanning' = [scanning EXCEPT ![w] = NoName]
    /\ inProgress' = [inProgress EXCEPT ![w] = {}]
    /\ exiting' = [exiting EXCEPT ![w] = {}]
    /\ locked' = [locked EXCEPT ![w] = 0]
    /\ UNCHANGED <<faults, jobs, lastId, folderVars>>

-----------------------------------------------------------------------------
(* drainQueue: claim a row, launch its goroutine, claim the next.          *)

SetRun(w, j, run) ==
    /\ runs' = [runs EXCEPT ![w][j] = run]
    /\ UNCHANGED <<proc, scanning, inProgress, exiting, crashes, faults>>

Claim(w, j) ==
    /\ proc[w] = "up"
    /\ LockOldest(w, j)
    /\ UNCHANGED <<workerVars, folderVars>>

\* processQueuedJob decides here what the run may wipe if it converts nothing.
Launch(w, j) ==
    /\ CommitClaim(w, j)
    /\ SetRun(w, j, [Idle EXCEPT !.pc = "launched",
                                 !.allowCleanup = ~jobs[j].forceOcr /\ ~jobs[j].manual])
    /\ UNCHANGED folderVars

-----------------------------------------------------------------------------
(* runTrackedConversion and Convert.                                       *)

\* The ticker of the signal poller: a deleted row reads as "no signal".
Poll(w, j) ==
    LET r == runs[w][j] IN
    /\ r.pc \in {"launched", "preparing", "ocr", "returned"}
    /\ r.signal = "none"
    /\ Exists(j)
    /\ \/ jobs[j].pauseReq /\ SetRun(w, j, [r EXCEPT !.signal = "pause"])
       \/ ~jobs[j].pauseReq /\ jobs[j].stopReq /\ SetRun(w, j, [r EXCEPT !.signal = "stop"])
    /\ UNCHANGED <<tableVars, folderVars>>

\* Convert creates the output folder before it looks at the input.
Prepare(w, j) ==
    /\ runs[w][j].pc = "launched"
    /\ books' = [books EXCEPT ![Output(j)] = Present(@)]
    /\ SetRun(w, j, [runs[w][j] EXCEPT !.pc = "preparing"])
    /\ UNCHANGED <<tableVars, scans>>

\* processPDFVolumes: a PDF with a text layer becomes an EPUB without the GPU
\* and leaves the input folder.
BuildTextPDF(w, j, v) ==
    /\ runs[w][j].pc = "preparing"
    /\ v \in Present(scans[Input(j)])
    /\ books[Output(j)] # NoDir
    /\ books' = [books EXCEPT ![Output(j)] = @ \cup {v}]
    /\ scans' = [scans EXCEPT ![Input(j)] = @ \ {v}]
    /\ SetRun(w, j, [runs[w][j] EXCEPT !.ok = TRUE])
    /\ UNCHANGED tableVars

\* gpuSem has one slot per process.  An input with nothing left to OCR never
\* gets here: Convert has returned.
AcquireGPU(w, j) ==
    /\ runs[w][j].pc = "preparing"
    /\ Present(scans[Input(j)]) # {}
    /\ \A k \in JobIds : runs[w][k].pc # "ocr"
    /\ SetRun(w, j, [runs[w][j] EXCEPT !.pc = "ocr"])
    /\ UNCHANGED <<tableVars, folderVars>>

\* mokuro's progress line names a volume: onVolume records it.
StartVolume(w, j) ==
    /\ runs[w][j].pc = "ocr"
    /\ ~jobs[j].curVol
    /\ UpdateJobVolume(j)
    /\ UNCHANGED <<workerVars, folderVars>>

\* A pass of buildEPUBsForNewMokuroFiles finds a finished volume.
BuildVolume(w, j, v) ==
    /\ runs[w][j].pc = "ocr"
    /\ v \in Present(scans[Input(j)])
    /\ books[Output(j)] # NoDir
    /\ books' = [books EXCEPT ![Output(j)] = @ \cup {v}]
    /\ SetRun(w, j, [runs[w][j] EXCEPT !.ok = TRUE])
    /\ UNCHANGED <<tableVars, scans>>

\* Mutant: the wait for the GPU cannot be abandoned.
ConvertReturnsWithGPU(w, j, err) ==
    LET r == runs[w][j] IN
    /\ \/ r.pc = "ocr"
       \/ r.pc = "launched" /\ err
       \/ r.pc = "preparing" /\ Present(scans[Input(j)]) = {}
    /\ SetRun(w, j, [r EXCEPT !.pc = IF r.signal = "pause" THEN "pausing" ELSE "returned",
                              !.err = err])
    /\ UNCHANGED <<tableVars, folderVars>>

\* Convert returns, and the switch evaluates its first case.  err stands for
\* "err # nil or fail > 0"; without one, a run that never got the GPU must have
\* found nothing left to OCR.  An error of processPDFVolumes discards the count
\* of the EPUBs it has built.
ConvertReturns(w, j, err) ==
    LET r == runs[w][j] IN
    /\ r.pc \in {"launched", "preparing", "ocr"}
    /\ r.pc = "launched" => err
    /\ r.pc = "preparing" /\ ~err => scans[Input(j)] = {}
    /\ \E ok \in {r.ok, r.ok /\ ~(err /\ r.pc = "preparing")} :
          SetRun(w, j, [r EXCEPT !.pc = IF r.signal = "pause" THEN "pausing" ELSE "returned",
                                 !.err = err, !.ok = ok])
    /\ UNCHANGED <<tableVars, folderVars>>

\* The goroutine after its status update: clean up, or return, which for a
\* manual folder leaves the deferred delete to do.
Settle(w, j) ==
    LET r == runs[w][j]
        cleans == r.pc = "returned" /\ ~r.ok /\ r.allowCleanup
    IN  /\ runs' = [runs EXCEPT ![w][j] = IF cleans THEN [Idle EXCEPT !.pc = "cleanInput"] ELSE Idle]
        /\ exiting' = [exiting EXCEPT ![w] = IF r.scanned THEN @ \cup {Input(j)} ELSE @]
        /\ UNCHANGED <<proc, scanning, inProgress, crashes, folderVars>>

FinishPaused(w, j) ==
    /\ runs[w][j].pc = "pausing"
    /\ MarkJobPaused(j)
    /\ Settle(w, j) /\ UNCHANGED faults

FinishStopped(w, j) ==
    /\ runs[w][j].pc = "returned"
    /\ runs[w][j].signal # "none"
    /\ MarkJobStopped(j)
    /\ Settle(w, j) /\ UNCHANGED faults

\* Mutant: cleanupFailedJob comes before markJobFailed.
FinishFailedCleansFirst(w, j) ==
    /\ runs[w][j].pc = "returned"
    /\ runs[w][j].signal = "none"
    /\ runs[w][j].err \/ ~runs[w][j].ok
    /\ Settle(w, j) /\ UNCHANGED <<faults, tableVars>>

FinishFailed(w, j) ==
    /\ runs[w][j].pc = "returned"
    /\ runs[w][j].signal = "none"
    /\ runs[w][j].err \/ ~runs[w][j].ok
    /\ MarkJobFailed(j)
    /\ Settle(w, j) /\ UNCHANGED faults

FinishDone(w, j) ==
    /\ runs[w][j].pc = "returned"
    /\ runs[w][j].signal = "none"
    /\ ~runs[w][j].err /\ runs[w][j].ok
    /\ MarkJobDone(j)
    /\ Settle(w, j) /\ UNCHANGED faults

\* The status update fails; its error is dropped and the goroutine goes on.
MarkLost(w, j) ==
    /\ runs[w][j].pc \in {"pausing", "returned"}
    /\ faults < MaxFaults
    /\ faults' = faults + 1
    /\ Settle(w, j)
    /\ UNCHANGED tableVars

CleanInput(w, j) ==
    /\ runs[w][j].pc = "cleanInput"
    /\ RemoveScan(Input(j))
    /\ SetRun(w, j, [runs[w][j] EXCEPT !.pc = "cleanOutput"])
    /\ UNCHANGED tableVars

CleanOutput(w, j) ==
    /\ runs[w][j].pc = "cleanOutput"
    /\ RemoveBook(Output(j))
    /\ SetRun(w, j, Idle)
    /\ UNCHANGED tableVars

-----------------------------------------------------------------------------
(* scanManualFoldersIn: one folder at a time, on a goroutine of its own.   *)

ScanCheck(w, n) ==
    /\ proc[w] = "up"
    /\ scanning[w] = NoName
    /\ ~PathTracked(n)
    /\ NeedsConversion(n)
    /\ n \notin inProgress[w]
    /\ inProgress' = [inProgress EXCEPT ![w] = @ \cup {n}]
    /\ scanning' = [scanning EXCEPT ![w] = n]
    /\ UNCHANGED <<proc, runs, exiting, crashes, faults, tableVars, folderVars>>

ScanCreate(w) ==
    /\ scanning[w] # NoName
    /\ CreateManualJob(scanning[w])
    /\ runs' = [runs EXCEPT ![w][lastId + 1] = [Idle EXCEPT !.pc = "launched", !.scanned = TRUE]]
    /\ scanning' = [scanning EXCEPT ![w] = NoName]
    /\ UNCHANGED <<proc, inProgress, exiting, crashes, faults, folderVars>>

\* Mutant: the error path forgets manualInProgress.
ScanFailKeepsFolder(w) ==
    /\ scanning[w] # NoName
    /\ scanning' = [scanning EXCEPT ![w] = NoName]
    /\ UNCHANGED <<proc, runs, inProgress, exiting, crashes, faults, tableVars, folderVars>>

\* libraryIDForPath or createManualJob fails, and the folder is let go.
ScanFail(w) ==
    /\ scanning[w] # NoName
    /\ inProgress' = [inProgress EXCEPT ![w] = @ \ {scanning[w]}]
    /\ scanning' = [scanning EXCEPT ![w] = NoName]
    /\ UNCHANGED <<proc, runs, exiting, crashes, faults, tableVars, folderVars>>

\* The deferred delete of a manual folder's goroutine.
ScanExit(w, n) ==
    /\ n \in exiting[w]
    /\ exiting' = [exiting EXCEPT ![w] = @ \ {n}]
    /\ inProgress' = [inProgress EXCEPT ![w] = @ \ {n}]
    /\ UNCHANGED <<proc, runs, scanning, crashes, faults, tableVars, folderVars>>

-----------------------------------------------------------------------------
JobStep(w, j) ==
    \/ Claim(w, j) \/ Launch(w, j) \/ Poll(w, j) \/ Prepare(w, j)
    \/ \E v \in Vols : BuildTextPDF(w, j, v) \/ BuildVolume(w, j, v)
    \/ AcquireGPU(w, j) \/ StartVolume(w, j)
    \/ \E err \in BOOLEAN : ConvertReturns(w, j, err)
    \/ FinishPaused(w, j) \/ FinishStopped(w, j) \/ FinishFailed(w, j) \/ FinishDone(w, j)
    \/ MarkLost(w, j) \/ CleanInput(w, j) \/ CleanOutput(w, j)

WorkerNext(w) ==
    \/ Start(w) \/ Reclaim(w) \/ ReclaimFails(w) \/ Crash(w)
    \/ \E j \in JobIds : JobStep(w, j)
    \/ \E n \in Names : ScanCheck(w, n) \/ ScanExit(w, n)
    \/ ScanCreate(w) \/ ScanFail(w)
=============================================================================
