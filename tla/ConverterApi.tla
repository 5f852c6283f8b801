----------------------------- MODULE ConverterApi ----------------------------
(***************************************************************************)
(* The conversion handlers of internal/api/converter.go.  A request is one *)
(* goroutine of the server; what it read early it acts on late, because no *)
(* lock or transaction spans its checks, its folder operations and its     *)
(* statement.  pc names the step a request takes next.                     *)
(***************************************************************************)
EXTENDS LibraryFolders

CONSTANTS
    Clients,    \* requests in flight
    Ops,        \* bound: the kinds of request clients send
    BulkSizes   \* bound: how many volumes a bulk reconvert may list

ASSUME ApiAssumption ==
    /\ Ops \subseteq {"upload", "finished", "add", "reconvert", "delete", "pause", "book", "drop"}
    /\ BulkSizes \subseteq Nat \ {0}

VARIABLE reqs

Request == [pc: {"idle", "rename", "insertUpload", "extract", "insertReconvert", "stop",
                 "deleteRow", "wipe", "pauseRunning", "removeBook", "removeScan",
                 "removeEpub", "removeRaw"},
            name: Names \cup {NoName}, input: Names \cup {NoName}, vols: SUBSET Vols,
            count: {0, 1} \cup BulkSizes, job: 0..MaxJobs, disposable: BOOLEAN]

NoRequest == [pc |-> "idle", name |-> NoName, input |-> NoName, vols |-> {},
              count |-> 0, job |-> 0, disposable |-> FALSE]

ApiInit   == reqs = [c \in Clients |-> NoRequest]
ApiTypeOK == reqs \in [Clients -> Request]

Receive(c, op, req) == op \in Ops /\ reqs[c].pc = "idle" /\ reqs' = [reqs EXCEPT ![c] = req]
Goto(c, pc)         == reqs' = [reqs EXCEPT ![c].pc = pc]
Reply(c)            == reqs' = [reqs EXCEPT ![c] = NoRequest]
At(c, pc)           == reqs[c].pc = pc

-----------------------------------------------------------------------------
(* uploadArchive, new book.  The archive is extracted into a hidden folder *)
(* the manual scan ignores, so its volumes vs appear in one rename.        *)

UploadCheck(c, b, vs) ==
    /\ Receive(c, "upload", [NoRequest EXCEPT !.pc = "rename", !.name = b, !.vols = vs])
    /\ books[b] = NoDir
    /\ scans[b] = NoDir
    /\ ~NameTaken(b)
    /\ UNCHANGED <<tableVars, folderVars>>

\* os.Rename refuses a target that is a folder, even an empty one; the deferred
\* RemoveAll then drops the hidden folder.
UploadRename(c) ==
    LET b == reqs[c].name IN
    /\ At(c, "rename")
    /\ UNCHANGED <<tableVars, books>>
    /\ \/ /\ scans[b] = NoDir
          /\ scans' = [scans EXCEPT ![b] = reqs[c].vols]
          /\ Goto(c, "insertUpload")
       \/ /\ scans[b] # NoDir
          /\ Reply(c) /\ UNCHANGED scans

UploadInsert(c) ==
    /\ At(c, "insertUpload")
    /\ CreateJobs(1, reqs[c].name, reqs[c].name, FALSE)
    /\ Reply(c)
    /\ UNCHANGED folderVars

\* Mutant: the book folder is not created before the EPUB is moved into it.
UploadFinishedNoMkdir(c) ==
    /\ At(c, "rename")
    /\ "finished" \in Ops /\ Cardinality(reqs[c].vols) = 1
    /\ books' = [books EXCEPT ![reqs[c].name] = @ \cup reqs[c].vols]
    /\ Reply(c)
    /\ UNCHANGED <<tableVars, scans>>

\* An EPUB that already has a text layer is placed in the new book's folder as
\* it is, and no job is queued.
UploadFinished(c) ==
    LET b == reqs[c].name IN
    /\ At(c, "rename")
    /\ "finished" \in Ops /\ Cardinality(reqs[c].vols) = 1
    /\ books' = [books EXCEPT ![b] = Present(@) \cup reqs[c].vols]
    /\ Reply(c)
    /\ UNCHANGED <<tableVars, scans>>

-----------------------------------------------------------------------------
(* uploadArchive, existing_series.  The staging folder s is the final      *)
(* "<s>-in" from the start, in sight of the manual scan, and fills up      *)
(* volume by volume.                                                       *)

\* Mutant: the job is queued when its staging folder is made.
AddStageQueued(c, b, s) ==
    /\ Receive(c, "add", [NoRequest EXCEPT !.pc = "extract", !.name = b, !.input = s])
    /\ books[b] # NoDir
    /\ scans[s] = NoDir /\ books[s] = NoDir
    /\ \A j \in JobIds : jobs[j].inputPath # s
    /\ scans' = [scans EXCEPT ![s] = {}]
    /\ CreateJobs(1, b, s, FALSE)
    /\ UNCHANGED books

AddStage(c, b, s) ==
    /\ Receive(c, "add", [NoRequest EXCEPT !.pc = "extract", !.name = b, !.input = s])
    /\ books[b] # NoDir
    /\ scans[s] = NoDir /\ books[s] = NoDir
    /\ \A j \in JobIds : jobs[j].inputPath # s       \* MkdirTemp: a fresh name
    /\ scans' = [scans EXCEPT ![s] = {}]
    /\ UNCHANGED <<tableVars, books>>

AddExtract(c, v) ==
    /\ At(c, "extract")
    /\ scans[reqs[c].input] # NoDir
    /\ v \notin scans[reqs[c].input]
    /\ scans' = [scans EXCEPT ![reqs[c].input] = @ \cup {v}]
    /\ UNCHANGED <<reqs, tableVars, books>>

AddInsert(c) ==
    /\ At(c, "extract")
    /\ Present(scans[reqs[c].input]) # {}
    /\ CreateJobs(1, reqs[c].name, reqs[c].input, FALSE)
    /\ Reply(c)
    /\ UNCHANGED folderVars

\* Refused (nothing usable in it, a volume of that name exists) or placed as a
\* finished EPUB: either way the deferred RemoveAll takes the staging folder.
AddEnds(c, placed) ==
    /\ At(c, "extract")
    /\ placed => "finished" \in Ops /\ Cardinality(Present(scans[reqs[c].input])) = 1
    /\ scans' = [scans EXCEPT ![reqs[c].input] = NoDir]
    /\ books' = IF placed
                THEN [books EXCEPT ![reqs[c].name] = Present(@) \cup Present(scans[reqs[c].input])]
                ELSE books
    /\ Reply(c)
    /\ UNCHANGED tableVars

-----------------------------------------------------------------------------
(* reconvertSeries.  A request that lists volumes, be it one, is a bulk    *)
(* reconvert; only the other form asks ConversionJobNameTaken.             *)

ReconvertCheck(c, b, k, bulk) ==
    /\ Receive(c, "reconvert", [NoRequest EXCEPT !.pc = "insertReconvert", !.name = b, !.count = k])
    /\ books[b] # NoDir
    /\ scans[b] # NoDir
    /\ bulk => k \in BulkSizes
    /\ ~bulk => k = 1 /\ ~NameTaken(b)
    /\ UNCHANGED <<tableVars, folderVars>>

ReconvertInsert(c) ==
    /\ At(c, "insertReconvert")
    /\ CreateJobs(reqs[c].count, reqs[c].name, reqs[c].name, TRUE)
    /\ Reply(c)
    /\ UNCHANGED folderVars

-----------------------------------------------------------------------------
(* deleteConversionJob: everything after the first read trusts its status. *)

\* Only the input of an upload that never succeeded is disposable.
Disposable(j) ==
    ~jobs[j].forceOcr /\ ~jobs[j].manual /\ jobs[j].status \notin {"done", "paused"}

ReadJob(c, j) ==
    /\ Exists(j)
    /\ LET running == jobs[j].status = "running"
       IN  Receive(c, "delete", [NoRequest EXCEPT !.pc = IF running THEN "stop" ELSE "deleteRow",
                                                  !.job = j,
                                                  !.disposable = ~running /\ Disposable(j)])
    /\ UNCHANGED <<tableVars, folderVars>>

StopJob(c) ==
    /\ At(c, "stop")
    /\ RequestStop(reqs[c].job)
    /\ Reply(c)
    /\ UNCHANGED folderVars

DeleteJob(c) ==
    /\ At(c, "deleteRow")
    /\ DeleteRow(reqs[c].job)
    /\ IF Exists(reqs[c].job) /\ reqs[c].disposable THEN Goto(c, "wipe") ELSE Reply(c)
    /\ UNCHANGED folderVars

WipeInput(c) ==
    /\ At(c, "wipe")
    /\ RemoveScan(jobs[reqs[c].job].inputPath)
    /\ Reply(c)
    /\ UNCHANGED tableVars

-----------------------------------------------------------------------------
(* pauseQueue and resumeQueue.                                             *)

Pause(c) ==
    /\ Receive(c, "pause", [NoRequest EXCEPT !.pc = "pauseRunning"])
    /\ PausePending
    /\ UNCHANGED folderVars

PauseRest(c) ==
    /\ At(c, "pauseRunning")
    /\ PauseRunning
    /\ Reply(c)
    /\ UNCHANGED folderVars

Resume(c) ==
    /\ Receive(c, "pause", NoRequest)
    /\ ResumePaused
    /\ UNCHANGED folderVars

-----------------------------------------------------------------------------
(* deleteBook: the whole book, or one volume of it.                        *)

DeleteBookCheck(c, b) ==
    /\ Receive(c, "book", [NoRequest EXCEPT !.pc = "removeBook", !.name = b])
    /\ ~NameTaken(b)
    /\ books[b] # NoDir
    /\ UNCHANGED <<tableVars, folderVars>>

DeleteVolumeCheck(c, b, v) ==
    /\ Receive(c, "book", [NoRequest EXCEPT !.pc = "removeEpub", !.name = b, !.vols = {v}])
    /\ ~NameTaken(b)
    /\ v \in Present(books[b])
    /\ UNCHANGED <<tableVars, folderVars>>

DeleteBookStep(c) ==
    LET b == reqs[c].name IN
    /\ UNCHANGED tableVars
    /\ \/ At(c, "removeBook") /\ RemoveBook(b) /\ Goto(c, "removeScan")
       \/ At(c, "removeScan") /\ RemoveScan(b) /\ Reply(c)

DeleteVolumeStep(c) ==
    LET b == reqs[c].name
        without(f) == IF f = NoDir THEN NoDir ELSE f \ reqs[c].vols
    IN  /\ UNCHANGED tableVars
        /\ \/ /\ At(c, "removeEpub")
              /\ books' = [books EXCEPT ![b] = without(@)]
              /\ Goto(c, "removeRaw") /\ UNCHANGED scans
           \/ /\ At(c, "removeRaw")
              /\ scans' = [scans EXCEPT ![b] = without(@)]
              /\ Reply(c) /\ UNCHANGED books

-----------------------------------------------------------------------------
\* The server dies, or the client goes away and the next statement, bound to
\* the request's context, fails: what was done stays done.
Abandon(c) ==
    /\ reqs[c].pc # "idle"
    /\ Reply(c)
    /\ UNCHANGED <<tableVars, folderVars>>

UploadStep(c) ==
    \/ \E b \in Books, vs \in (SUBSET Vols) \ {{}} : UploadCheck(c, b, vs)
    \/ UploadRename(c) \/ UploadInsert(c) \/ UploadFinished(c)
    \/ \E b \in Books, s \in Stagings : AddStage(c, b, s)
    \/ \E v \in Vols : AddExtract(c, v)
    \/ AddInsert(c)
    \/ \E placed \in BOOLEAN : AddEnds(c, placed)

JobRequestStep(c) ==
    \/ \E b \in Books, k \in {1} \cup BulkSizes, bulk \in BOOLEAN : ReconvertCheck(c, b, k, bulk)
    \/ ReconvertInsert(c)
    \/ \E j \in JobIds : ReadJob(c, j)
    \/ StopJob(c) \/ DeleteJob(c) \/ WipeInput(c)
    \/ Pause(c) \/ PauseRest(c) \/ Resume(c)

BookStep(c) ==
    \/ \E b \in Books : DeleteBookCheck(c, b)
    \/ \E b \in Books, v \in Vols : DeleteVolumeCheck(c, b, v)
    \/ DeleteBookStep(c) \/ DeleteVolumeStep(c)

ApiNext == \E c \in Clients : UploadStep(c) \/ JobRequestStep(c) \/ BookStep(c) \/ Abandon(c)

UserNext ==
    /\ "drop" \in Ops
    /\ UNCHANGED <<tableVars, reqs>>
    /\ \E b \in Books, v \in Vols : DropVolume(b, v)
=============================================================================
