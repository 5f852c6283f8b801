--------------------------- MODULE ConversionSystem -------------------------
(***************************************************************************)
(* The conversion subsystem: worker processes and API requests that meet   *)
(* only in the jobs table and the library folders.                         *)
(***************************************************************************)
EXTENDS ConverterWorker, ConverterApi

vars == <<tableVars, folderVars, workerVars, reqs>>

Init == TableInit /\ FoldersInit /\ WorkerInit /\ ApiInit

Next ==
    \/ \E w \in Workers : WorkerNext(w) /\ UNCHANGED reqs
    \/ ApiNext /\ UNCHANGED workerVars
    \/ UserNext /\ UNCHANGED workerVars

Spec == Init /\ [][Next]_vars

TypeOK == TableTypeOK /\ FoldersTypeOK /\ WorkerTypeOK /\ ApiTypeOK

IsLive(w, j) == runs[w][j].pc \in Live
Owned(j)     == \E w \in Workers : IsLive(w, j)

-----------------------------------------------------------------------------
(* Safety.                                                                 *)

\* A goroutine is only ever driving a job whose row is running, or was deleted
\* under it: no request, rescue or second claim moves the row away from it.
RunOwnsRow ==
    \A w \in Workers, j \in JobIds :
        IsLive(w, j) => jobs[j].status \in {"running", "deleted"}

\* "They'd hang in the UI forever": once a worker is up, every running row has
\* its goroutine, as long as the database has refused no statement.
NoOrphanedRow ==
    faults = 0 =>
        \A w \in Workers, j \in JobIds :
            proc[w] = "up" /\ jobs[j].status = "running" => Owned(j)

\* "A real one-at-a-time queue per book": claimNextJob never has two jobs of one
\* book running, however many rows a bulk reconvert or adds have piled up.
\* (A manual folder's row is inserted running, without a claim.)
SerialPerBook ==
    \A j, k \in JobIds :
        /\ j # k
        /\ jobs[j].status = "running" /\ jobs[k].status = "running"
        /\ ~jobs[j].manual /\ ~jobs[k].manual
        => jobs[j].name # jobs[k].name

\* cleanupFailedJob only follows a verdict nothing can take back, and never
\* runs for a reconvert or a manual folder, not even for a manual row that was
\* paused, resumed and claimed from the queue like an upload.  If the database
\* refused the verdict, the row still says running: never is it one that the
\* queue would hand out again while its folders are being removed.
CleanupOnlyDisposable ==
    \A w \in Workers, j \in JobIds :
        runs[w][j].pc \in Cleaning =>
            /\ ~jobs[j].forceOcr /\ ~jobs[j].manual
            /\ \/ jobs[j].status \in {"failed", "stopped", "deleted"}
               \/ faults > 0 /\ jobs[j].status = "running"

\* manualInProgress holds exactly the folders the scan is creating a row for,
\* those a manual goroutine is converting and those whose deferred delete is
\* due: an entry left behind would hide its folder from every later scan.
InProgressExact ==
    \A w \in Workers :
        inProgress[w] =
            ({scanning[w]} \ {NoName}) \cup exiting[w]
            \cup {Input(j) : j \in {k \in JobIds : runs[w][k].scanned}}

\* A queued job never reads a folder an upload is still extracting into: the
\* row is inserted last, and it is a new folder or a hidden one until then.
NoHalfStagedInput ==
    \A c \in Clients, w \in Workers, j \in JobIds :
        At(c, "extract") /\ IsLive(w, j) /\ ~jobs[j].manual => Input(j) # reqs[c].input

\* The lifecycle every job keeps to, whoever acts on it: see JobLifecycle.
Lifecycle == INSTANCE JobLifecycle WITH
    Jobs  <- JobIds,
    state <- [j \in JobIds |-> jobs[j].status],
    owned <- [j \in JobIds |-> Owned(j)]

LifecycleSpec == Lifecycle!Spec

-----------------------------------------------------------------------------
(* Claims of the code's comments that its interleavings break.             *)

\* converter/watch.go:161, cleanupFailedJob: "Only called when nothing
\* converted, so the output dir is empty."
CleanupFindsOutputEmpty ==
    \A w \in Workers, j \in JobIds :
        runs[w][j].pc = "cleanOutput" => Present(books[Output(j)]) = {}

\* converter/db.go:150, jobExistsForPath "keeps the manual-folder scan off
\* folders a queued upload or a running/paused reconvert owns right now".
OneConversionPerFolder ==
    \A w \in Workers, j, k \in JobIds :
        j # k /\ IsLive(w, j) /\ IsLive(w, k) => Input(j) # Input(k)

\* converter/db.go:102: "Terminal transitions clear stop_requested: ... the UI
\* keys its disabled "Stopping..." button off the flag alone."
TerminalRowsCarryNoStop ==
    \A j \in JobIds : jobs[j].status \in Terminal => ~jobs[j].stopReq

\* internal/api/converter.go:941, deleteConversionJob: "a running one is only
\* flagged (deleting its files would race the live mokuro)".
NoWipeUnderLiveRun ==
    [][\A c \in Clients : WipeInput(c) =>
         \A w \in Workers, j \in JobIds :
            IsLive(w, j) => Input(j) # jobs[reqs[c].job].inputPath]_vars

-----------------------------------------------------------------------------
(* Fairness.  The worker's loops, its pollers and its goroutines are       *)
(* scheduled by Go and the process is restarted by its supervisor; a       *)
(* cancelled mokuro is killed, so Convert returns.  Nothing obliges a      *)
(* client, a user or an undisturbed mokuro to take a step.                 *)

Cancelled(w, j) ==
    /\ runs[w][j].signal # "none"
    /\ ConvertReturns(w, j, TRUE)

Finish(w, j) == FinishPaused(w, j) \/ FinishStopped(w, j)
             \/ FinishFailed(w, j) \/ FinishDone(w, j)

WorkerFairness(w) ==
    /\ WF_vars((Start(w) \/ Reclaim(w)) /\ UNCHANGED reqs)
    /\ WF_vars((\E j \in JobIds : Claim(w, j) \/ Launch(w, j)) /\ UNCHANGED reqs)
    /\ WF_vars((ScanCreate(w) \/ ScanFail(w)) /\ UNCHANGED reqs)
    /\ \A j \in JobIds :
          /\ WF_vars(Poll(w, j) /\ UNCHANGED reqs)
          /\ WF_vars(Cancelled(w, j) /\ UNCHANGED reqs)
          /\ WF_vars((Finish(w, j) \/ CleanInput(w, j) \/ CleanOutput(w, j)) /\ UNCHANGED reqs)
    /\ \A n \in Names : WF_vars(ScanExit(w, n) /\ UNCHANGED reqs)

FairSpec == Spec /\ \A w \in Workers : WorkerFairness(w)

\* Convert gets as far as it can by itself.  Goroutines blocked on gpuSem are
\* served in order, so one that could have the GPU again and again gets it.
Advance(w, j) ==
    \/ Prepare(w, j)
    \/ AcquireGPU(w, j)
    \/ /\ runs[w][j].pc = "preparing"
       /\ Present(scans[Input(j)]) = {}
       /\ \E err \in BOOLEAN : ConvertReturns(w, j, err)

\* What only mokuro can promise: every OCR pass comes to an end.
MokuroEnds(w, j) == runs[w][j].pc = "ocr" /\ \E err \in BOOLEAN : ConvertReturns(w, j, err)

ConversionsEnd ==
    \A w \in Workers, j \in JobIds :
        /\ SF_vars(Advance(w, j) /\ UNCHANGED reqs)
        /\ WF_vars(MokuroEnds(w, j) /\ UNCHANGED reqs)

-----------------------------------------------------------------------------
(* Liveness.                                                               *)

\* A running job that is asked to stop or pause stops running, even while it
\* queues for a GPU another conversion never gives back, and even if its
\* process dies first.
StopEndsRun ==
    \A j \in JobIds :
        jobs[j].status = "running" /\ (jobs[j].stopReq \/ jobs[j].pauseReq)
            ~> jobs[j].status # "running"

\* A row that a dead process left running is rescued.
OrphansRescued ==
    \A j \in JobIds :
        jobs[j].status = "running" /\ ~Owned(j) ~> jobs[j].status # "running" \/ Owned(j)

\* The rows of a bulk reconvert "start themselves as each one finishes": no
\* pending row waits forever when conversions end.
QueueDrains ==
    ConversionsEnd => \A j \in JobIds : jobs[j].status = "pending" ~> jobs[j].status # "pending"
=============================================================================
