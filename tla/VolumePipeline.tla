---------------------------- MODULE VolumePipeline ---------------------------
(***************************************************************************)
(* converter: Convert on one book.  It turns PDFs into page images (and    *)
(* those with a text layer into EPUBs), runs the mokuro process over the   *)
(* volumes' folders and builds an EPUB from each ".mokuro" file mokuro     *)
(* writes, polling for them while mokuro runs.  The worker may die at any  *)
(* step, the job may be cancelled, and the user may change page images;    *)
(* the job is then run again on the files that were left.                  *)
(*                                                                         *)
(* A page is a name; what is on it is left out, and so are JXL pages, junk *)
(* files, series names and the layout of the EPUB.                         *)
(***************************************************************************)
EXTENDS Naturals, FiniteSets

CONSTANTS
    Vols,       \* volumes of the book
    Pages,      \* page images a volume can have
    NoDir,      \* a folder that does not exist
    All,        \* Convert's argument volume is ""
    Retries,    \* mokuroRetries
    MaxClock,   \* bound: ".mokuro" files written
    MaxFaults,  \* bound: crashes, cancellations, failing steps and mokuro runs
    MaxChanges  \* bound: page images added or removed by the user

ASSUME PipelineAssumption ==
    /\ Pages # {} /\ NoDir \notin SUBSET Pages
    /\ All \notin Vols
    /\ Retries \in Nat \ {0}
    /\ MaxClock \in Nat /\ MaxFaults \in Nat /\ MaxChanges \in Nat

VARIABLES
    pdf,        \* "<v>.pdf": none, with a text layer, or a scan
    images,     \* page images in folder v
    cache,      \* "_ocr/<v>"
    mokuro,     \* "<v>.mokuro"
    epub,       \* "<v>.epub" in the output folder
    clock,      \* time of the last write of a ".mokuro" file
    conv,       \* Convert: where it is, and its locals
    built,      \* builtMTime, 0: no entry
    child,      \* runMokuro and the process it started
    leftover,   \* ghost: builtMTime as the snapshot set it
    changed,    \* ghost: the user changed pages since reconcileOCRCache last came through
    faults, changes

files  == <<pdf, images, cache, mokuro, epub>>
bounds == <<faults, changes>>
vars   == <<files, clock, conv, built, child, leftover, changed, bounds>>

Time   == 0..MaxClock
Mokuro == [mtime: Time, pages: SUBSET Pages, whole: BOOLEAN]
\* of: the write of the ".mokuro" file it was built from, 0 for a text layer.
\* torn: the archive's last bytes are missing, though buildEPUB reported no error.
Epub   == [state: {"none", "partial", "torn", "whole"}, of: Time]
Conv   == [pc: {"idle", "pdfs", "raster", "gpu", "snapshot", "poll", "pass",
                "parse", "create", "close", "rmdir", "return"},
           noCache: BOOLEAN, only: Vols \cup {All},
           vol: Vols \cup {All}, text: BOOLEAN,     \* what it works on
           mtime: Time, of: Time, pages: SUBSET Pages,
           todo: SUBSET Vols, last: BOOLEAN,        \* the pass over the folder
           fail: BOOLEAN, err: BOOLEAN]
Child  == [pc: {"off", "clear", "next", "ocr", "write", "fill", "exit", "failed"},
           vol: Vols \cup {All}, done: SUBSET Vols, attempt: 0..Retries]

NoMokuro == [mtime |-> 0, pages |-> {}, whole |-> FALSE]
NoEpub   == [state |-> "none", of |-> 0]
Idle     == [pc |-> "idle", noCache |-> FALSE, only |-> All, vol |-> All, text |-> FALSE,
             mtime |-> 0, of |-> 0, pages |-> {}, todo |-> {}, last |-> FALSE,
             fail |-> FALSE, err |-> FALSE]
NoChild  == [pc |-> "off", vol |-> All, done |-> {}, attempt |-> 0]

\* An upload that was just extracted: each volume is a folder of images or a PDF.
Init ==
    /\ pdf \in [Vols -> {"none", "text", "scan"}]
    /\ images = [v \in Vols |-> IF pdf[v] = "none" THEN Pages ELSE {}]
    /\ cache = [v \in Vols |-> NoDir]
    /\ mokuro = [v \in Vols |-> NoMokuro]
    /\ epub = [v \in Vols |-> NoEpub]
    /\ clock = 0
    /\ conv = Idle
    /\ built = [v \in Vols |-> 0]
    /\ child = NoChild
    /\ leftover = [v \in Vols |-> 0]
    /\ changed = FALSE
    /\ faults = 0 /\ changes = 0

TypeOK ==
    /\ pdf \in [Vols -> {"none", "text", "scan"}]
    /\ images \in [Vols -> SUBSET Pages]
    /\ cache \in [Vols -> (SUBSET Pages) \cup {NoDir}]
    /\ mokuro \in [Vols -> Mokuro]
    /\ epub \in [Vols -> Epub]
    /\ clock \in Time
    /\ conv \in Conv
    /\ built \in [Vols -> Time]
    /\ child \in Child
    /\ leftover \in [Vols -> Time]
    /\ changed \in BOOLEAN
    /\ faults \in 0..MaxFaults /\ changes \in 0..MaxChanges

Exists(v) == mokuro[v].mtime # 0
HasTextLayer(v) == pdf[v] = "text"
Parses(v) == mokuro[v].whole
IsEmptyInput == \A v \in Vols : images[v] = {} /\ ~Exists(v)
MTimes == [v \in Vols |-> mokuro[v].mtime]
Entries(v) == IF cache[v] = NoDir THEN {} ELSE cache[v]

Fault == faults < MaxFaults /\ faults' = faults + 1 /\ UNCHANGED changes

-----------------------------------------------------------------------------
(* Convert, up to mokuro.                                                  *)

\* processQueuedJob runs the job; only a reconvert names a volume or sets noCache.
StartConvert(noCache, only) ==
    /\ conv.pc = "idle"
    /\ conv' = [Idle EXCEPT !.pc = "pdfs", !.noCache = noCache, !.only = only]
    /\ UNCHANGED <<files, clock, built, child, leftover, changed, bounds>>

\* Any step before mokuro fails (a PDF that cannot be read, a full disk, ...):
\* Convert returns with the count so far.
Fails ==
    /\ conv.pc \in {"pdfs", "raster", "create", "rmdir"} /\ (conv.pc = "create" => conv.text)
    /\ Fault
    /\ conv' = [conv EXCEPT !.pc = "return", !.err = TRUE]
    /\ UNCHANGED <<files, clock, built, child, leftover, changed>>

\* pdftoppm
Rasterize(v) ==
    /\ conv.pc = "pdfs" /\ pdf[v] # "none"
    /\ images' = [images EXCEPT ![v] = @ \cup Pages]
    /\ conv' = [conv EXCEPT !.pc = "raster", !.vol = v]
    /\ UNCHANGED <<pdf, cache, mokuro, epub, clock, built, child, leftover, changed, bounds>>

\* The PDF is removed; if it is a scan, its pages are left to mokuro.
RemoveScanPDF ==
    /\ conv.pc = "raster" /\ ~HasTextLayer(conv.vol)
    /\ pdf' = [pdf EXCEPT ![conv.vol] = "none"]
    /\ conv' = [conv EXCEPT !.pc = "pdfs", !.vol = All]
    /\ UNCHANGED <<images, cache, mokuro, epub, clock, built, child, leftover, changed, bounds>>

\* Mutant: the page images are removed along with the PDF.
RemoveTextPDFAndPages ==
    /\ conv.pc = "raster" /\ HasTextLayer(conv.vol) /\ images[conv.vol] = Pages
    /\ pdf' = [pdf EXCEPT ![conv.vol] = "none"]
    /\ images' = [images EXCEPT ![conv.vol] = {}]
    /\ conv' = [conv EXCEPT !.pc = "create", !.text = TRUE, !.of = 0, !.pages = Pages]
    /\ UNCHANGED <<cache, mokuro, epub, clock, built, child, leftover, changed, bounds>>

\* buildTextVolume has read the layer, and there was an image for each page.
RemoveTextPDF ==
    /\ conv.pc = "raster" /\ HasTextLayer(conv.vol) /\ images[conv.vol] = Pages
    /\ pdf' = [pdf EXCEPT ![conv.vol] = "none"]
    /\ conv' = [conv EXCEPT !.pc = "create", !.text = TRUE, !.of = 0, !.pages = Pages]
    /\ UNCHANGED <<images, cache, mokuro, epub, clock, built, child, leftover, changed, bounds>>

\* ... or there was not.
PageCountMismatch ==
    /\ conv.pc = "raster" /\ HasTextLayer(conv.vol) /\ images[conv.vol] # Pages
    /\ conv' = [conv EXCEPT !.pc = "return", !.err = TRUE]
    /\ UNCHANGED <<files, clock, built, child, leftover, changed, bounds>>

\* The text volume is built: its page images are not needed any more.
RemoveFolder ==
    /\ conv.pc = "rmdir"
    /\ images' = [images EXCEPT ![conv.vol] = {}]
    /\ conv' = [conv EXCEPT !.pc = "pdfs", !.vol = All, !.text = FALSE]
    /\ UNCHANGED <<pdf, cache, mokuro, epub, clock, built, child, leftover, changed, bounds>>

\* Nothing may be left for mokuro, or not the volume that was asked for.
CheckInput ==
    /\ conv.pc = "pdfs" /\ \A v \in Vols : pdf[v] = "none"
    /\ conv' = IF IsEmptyInput
               THEN [conv EXCEPT !.pc = "return"]
               ELSE IF conv.only # All /\ images[conv.only] = {}
               THEN [conv EXCEPT !.pc = "return", !.err = TRUE]
               ELSE [conv EXCEPT !.pc = "gpu"]
    /\ UNCHANGED <<files, clock, built, child, leftover, changed, bounds>>

\* Only a volume that is there and has a cache is reconciled.
HasCache(v) == images[v] # {} /\ cache[v] # NoDir
PassedOver(v) == images[v] # {} /\ cache[v] = NoDir /\ Exists(v)

CleanedCache == [v \in Vols |-> IF HasCache(v) THEN cache[v] \cap images[v] ELSE cache[v]]

\* reconcileStaleMokuroFile: the pages of m that are not in ps are dropped.
KeepPages(m, ps) ==
    IF m.pages \subseteq ps THEN m ELSE [m EXCEPT !.mtime = clock + 1, !.pages = @ \cap ps]

CleanedMokuro == [v \in Vols |-> IF HasCache(v) THEN KeepPages(mokuro[v], images[v]) ELSE mokuro[v]]

Rewritten(ms) ==
    /\ mokuro' = ms
    /\ clock' = IF ms = mokuro THEN clock ELSE clock + 1
    /\ clock' <= MaxClock

\* Mutant: only the cache is cleaned, as before reconcileStaleMokuroFile.
ReconcileCacheOnly ==
    /\ conv.pc = "gpu"
    /\ cache' = CleanedCache
    /\ changed' = (changed /\ \E v \in Vols : PassedOver(v))
    /\ conv' = [conv EXCEPT !.pc = "snapshot"]
    /\ UNCHANGED <<pdf, images, mokuro, epub, clock, built, child, leftover, bounds>>

\* The GPU is ours (gpuSem; the competition for it is in ConverterWorker).
ReconcileOCRCache ==
    /\ conv.pc = "gpu"
    /\ cache' = CleanedCache
    /\ Rewritten(CleanedMokuro)
    /\ changed' = (changed /\ \E v \in Vols : PassedOver(v))
    /\ conv' = [conv EXCEPT !.pc = "snapshot"]
    /\ UNCHANGED <<pdf, images, epub, built, child, leftover, bounds>>

\* Every error in it is ignored, or logged: the book's folder is not listed, or of
\* one volume only the images ps are listed, the entries es of its cache stay, and
\* its ".mokuro" file is not read, rewritten, or torn by the failing write.
ReconcileFails ==
    /\ conv.pc = "gpu" /\ Fault
    /\ \/ UNCHANGED <<cache, mokuro, clock>>
       \/ \E v \in {w \in Vols : HasCache(w)} : \E ps \in SUBSET images[v], es \in SUBSET cache[v] :
            LET kept == KeepPages(mokuro[v], ps)
                torn == [mtime |-> kept.mtime, pages |-> {}, whole |-> FALSE]
            IN  /\ cache[v] \cap ps \subseteq es
                /\ cache' = [CleanedCache EXCEPT ![v] = es]
                /\ \E m \in {mokuro[v], kept} \cup {f \in {torn} : kept # mokuro[v]} :
                       Rewritten([CleanedMokuro EXCEPT ![v] = m])
    /\ conv' = [conv EXCEPT !.pc = "snapshot"]
    /\ UNCHANGED <<pdf, images, epub, built, child, leftover, changed>>

\* snapshotMokuroMTimes, and go runMokuro.
Snapshot ==
    /\ conv.pc = "snapshot"
    /\ built' = MTimes
    /\ leftover' = built'
    /\ child' = [NoChild EXCEPT !.pc = "clear"]
    /\ conv' = [conv EXCEPT !.pc = "poll"]
    /\ UNCHANGED <<files, clock, changed, bounds>>

-----------------------------------------------------------------------------
(* runMokuro, and the mokuro process.                                      *)

Running == child.pc \in {"next", "ocr", "write", "fill"}

\* Without --no_cache, the one volume that is reconverted is made to look new.
ClearCache ==
    /\ child.pc = "clear"
    /\ IF conv.noCache /\ conv.only # All
       THEN /\ mokuro' = [mokuro EXCEPT ![conv.only] = NoMokuro]
            /\ cache' = [cache EXCEPT ![conv.only] = NoDir]
       ELSE UNCHANGED <<mokuro, cache>>
    /\ child' = [child EXCEPT !.pc = "next", !.attempt = 1]
    /\ UNCHANGED <<pdf, images, epub, clock, conv, built, leftover, changed, bounds>>

\* ... as far as its files can be removed; errors are only logged.
ClearCacheFails ==
    /\ child.pc = "clear" /\ conv.noCache /\ conv.only # All /\ Fault
    /\ mokuro' \in {mokuro, [mokuro EXCEPT ![conv.only] = NoMokuro]}
    /\ \E es \in {NoDir} \cup {ps \in SUBSET Pages : ps \subseteq Entries(conv.only)} :
           /\ cache[conv.only] = NoDir => es = NoDir
           /\ cache' = [cache EXCEPT ![conv.only] = es]
    /\ child' = [child EXCEPT !.pc = "next", !.attempt = 1]
    /\ UNCHANGED <<pdf, images, epub, clock, conv, built, leftover, changed>>

NoCacheFlag == conv.noCache /\ conv.only = All

\* A volume with a ".mokuro" file counts as processed, ...
SkipVolume(v) ==
    /\ child.pc = "next" /\ v \notin child.done /\ images[v] # {}
    /\ Exists(v) /\ ~NoCacheFlag
    /\ child' = [child EXCEPT !.done = @ \cup {v}]
    /\ UNCHANGED <<files, clock, conv, built, leftover, changed, bounds>>

\* ... or its pages are put back into the cache.
ProcessVolume(v) ==
    /\ child.pc = "next" /\ v \notin child.done /\ images[v] # {}
    /\ Exists(v) /\ ~mokuro[v].whole => NoCacheFlag
    /\ cache' = [cache EXCEPT ![v] = IF NoCacheFlag THEN {} ELSE Entries(v) \cup mokuro[v].pages]
    /\ child' = [child EXCEPT !.pc = "ocr", !.vol = v]
    /\ UNCHANGED <<pdf, images, mokuro, epub, clock, conv, built, leftover, changed, bounds>>

RecognizePages ==
    /\ child.pc = "ocr"
    /\ cache' = [cache EXCEPT ![child.vol] = Entries(child.vol) \cup images[child.vol]]
    /\ child' = [child EXCEPT !.pc = "write"]
    /\ UNCHANGED <<pdf, images, mokuro, epub, clock, conv, built, leftover, changed, bounds>>

\* generate_mokuro_file opens the file and fills it, unless a page in the cache has
\* no image (a KeyError).
OpenMokuroFile ==
    /\ child.pc = "write" /\ Entries(child.vol) \subseteq images[child.vol]
    /\ clock < MaxClock /\ clock' = clock + 1
    /\ mokuro' = [mokuro EXCEPT ![child.vol] = [mtime |-> clock', pages |-> {}, whole |-> FALSE]]
    /\ child' = [child EXCEPT !.pc = "fill"]
    /\ UNCHANGED <<pdf, images, cache, epub, conv, built, leftover, changed, bounds>>

FillMokuroFile ==
    /\ child.pc = "fill"
    /\ clock < MaxClock /\ clock' = clock + 1
    /\ mokuro' = [mokuro EXCEPT ![child.vol] =
                     [mtime |-> clock', pages |-> Entries(child.vol), whole |-> TRUE]]
    /\ child' = [child EXCEPT !.pc = "next", !.vol = All, !.done = @ \cup {child.vol}]
    /\ UNCHANGED <<pdf, images, cache, epub, conv, built, leftover, changed, bounds>>

MokuroEnds ==
    /\ child.pc = "next" /\ \A v \in Vols : images[v] # {} => v \in child.done
    /\ child' = [child EXCEPT !.pc = "exit"]
    /\ UNCHANGED <<files, clock, conv, built, leftover, changed, bounds>>

\* Mutant: one attempt too many.
RetriesOnceMore ==
    /\ child' = IF child.attempt <= Retries
                THEN [NoChild EXCEPT !.pc = "next", !.attempt = child.attempt + 1]
                ELSE [NoChild EXCEPT !.pc = "failed"]
    /\ UNCHANGED <<files, clock, conv, built, leftover, changed>>

\* mokuro exits with an error; runMokuro starts it once more, or gives up.
Retry ==
    /\ child' = IF child.attempt < Retries
                THEN [NoChild EXCEPT !.pc = "next", !.attempt = child.attempt + 1]
                ELSE [NoChild EXCEPT !.pc = "failed"]
    /\ UNCHANGED <<files, clock, conv, built, leftover, changed>>

MokuroFails == Running /\ Fault /\ Retry

\* The error ends the process, or only this volume.
PhantomPage ==
    /\ child.pc = "write" /\ ~(Entries(child.vol) \subseteq images[child.vol])
    /\ UNCHANGED bounds
    /\ \/ Retry
       \/ /\ child' = [child EXCEPT !.pc = "next", !.vol = All, !.done = @ \cup {child.vol}]
          /\ UNCHANGED <<files, clock, conv, built, leftover, changed>>

\* The job is stopped or paused: the wait for the GPU is given up, mokuro is killed.
Cancel ==
    /\ Fault
    /\ \/ /\ conv.pc = "gpu"
          /\ conv' = [conv EXCEPT !.pc = "return", !.err = TRUE]
          /\ UNCHANGED child
       \/ /\ Running
          /\ child' = [NoChild EXCEPT !.pc = "failed"]
          /\ UNCHANGED conv
    /\ UNCHANGED <<files, clock, built, leftover, changed>>

-----------------------------------------------------------------------------
(* buildEPUBsForNewMokuroFiles, and buildEPUB.                             *)

Files == {v \in Vols : Exists(v)}

Tick ==
    /\ conv.pc = "poll"
    /\ conv' = [conv EXCEPT !.pc = "pass", !.todo = Files]
    /\ UNCHANGED <<files, clock, built, child, leftover, changed, bounds>>

\* Mutant: no pass after mokuro has ended.
MokuroDoneNoPass ==
    /\ conv.pc = "poll" /\ child.pc \in {"exit", "failed"}
    /\ conv' = [conv EXCEPT !.pc = "return", !.err = child.pc = "failed"]
    /\ child' = NoChild
    /\ UNCHANGED <<files, clock, built, leftover, changed, bounds>>

\* <-mokuroErrCh, and one more pass.
MokuroDone ==
    /\ conv.pc = "poll" /\ child.pc \in {"exit", "failed"}
    /\ conv' = [conv EXCEPT !.pc = "pass", !.todo = Files, !.last = TRUE,
                            !.err = child.pc = "failed"]
    /\ child' = NoChild
    /\ UNCHANGED <<files, clock, built, leftover, changed, bounds>>

NextFile == [conv EXCEPT !.pc = "pass", !.vol = All, !.todo = @ \ {conv.vol},
                         !.mtime = 0, !.of = 0, !.pages = {}]

\* The file's time is taken before it is read.
StatFile(v) ==
    /\ conv.pc = "pass" /\ v \in conv.todo
    /\ conv' = IF ~Exists(v) \/ built[v] = mokuro[v].mtime THEN [conv EXCEPT !.todo = @ \ {v}]
               ELSE [conv EXCEPT !.pc = "parse", !.vol = v, !.mtime = mokuro[v].mtime]
    /\ UNCHANGED <<files, clock, built, child, leftover, changed, bounds>>

\* A file that mokuro is still writing does not parse.
ParseMokuroFile ==
    LET m == mokuro[conv.vol] IN
    /\ conv.pc = "parse"
    /\ IF Parses(conv.vol)
       THEN /\ built' = [built EXCEPT ![conv.vol] = conv.mtime]
            /\ conv' = [conv EXCEPT !.pc = "create", !.of = m.mtime, !.pages = m.pages]
       ELSE UNCHANGED built /\ conv' = NextFile
    /\ UNCHANGED <<files, clock, child, leftover, changed, bounds>>

\* Mutant: the file's time is noted when it was read already.
CreateEpubThenStat ==
    /\ conv.pc = "create"
    /\ epub' = [epub EXCEPT ![conv.vol] = [state |-> "partial", of |-> conv.of]]
    /\ built' = [built EXCEPT ![conv.vol] = mokuro[conv.vol].mtime]
    /\ conv' = [conv EXCEPT !.pc = "close"]
    /\ UNCHANGED <<pdf, images, cache, mokuro, clock, child, leftover, changed, bounds>>

\* os.Create: the volume's earlier EPUB is gone.
CreateEpub ==
    /\ conv.pc = "create"
    /\ epub' = [epub EXCEPT ![conv.vol] = [state |-> "partial", of |-> conv.of]]
    /\ conv' = [conv EXCEPT !.pc = "close"]
    /\ UNCHANGED <<pdf, images, cache, mokuro, clock, built, child, leftover, changed, bounds>>

BuildSucceeds(state) ==
    /\ conv.pc = "close" /\ conv.pages \subseteq images[conv.vol]
    /\ epub' = [epub EXCEPT ![conv.vol].state = state]
    /\ conv' = IF conv.text THEN [conv EXCEPT !.pc = "rmdir"] ELSE NextFile
    /\ UNCHANGED <<pdf, images, cache, mokuro, clock, built, child, leftover, changed>>

WriteEpub == BuildSucceeds("whole") /\ UNCHANGED bounds

\* The error of the deferred zw.Close, or f.Close, is dropped.
CloseFails == BuildSucceeds("torn") /\ Fault

BuildError ==
    /\ conv' = IF conv.text THEN [conv EXCEPT !.pc = "return", !.err = TRUE]
               ELSE [NextFile EXCEPT !.fail = TRUE]
    /\ UNCHANGED <<files, clock, built, child, leftover, changed>>

PageMissing ==
    conv.pc = "close" /\ ~(conv.pages \subseteq images[conv.vol]) /\ UNCHANGED bounds /\ BuildError

BuildFails == conv.pc \in {"create", "close"} /\ Fault /\ BuildError

EndPass ==
    /\ conv.pc = "pass" /\ conv.todo = {}
    /\ conv' = [conv EXCEPT !.pc = IF conv.last THEN "return" ELSE "poll"]
    /\ UNCHANGED <<files, clock, built, child, leftover, changed, bounds>>

Forgotten ==
    /\ conv' = Idle
    /\ child' = NoChild
    /\ built' = [v \in Vols |-> 0]
    /\ leftover' = [v \in Vols |-> 0]
    /\ UNCHANGED <<files, clock, changed>>

Return == conv.pc = "return" /\ Forgotten /\ UNCHANGED bounds

-----------------------------------------------------------------------------
(* The worker's death, and the user at the folder.                         *)

Crash == conv.pc # "idle" /\ Fault /\ Forgotten

\* A page is added (or put back), or removed, in a volume that is there.
ChangePages(v, S) ==
    /\ images[v] # {} /\ S # {} /\ S # images[v]
    /\ changes < MaxChanges /\ changes' = changes + 1
    /\ images' = [images EXCEPT ![v] = S]
    /\ changed' = TRUE
    /\ UNCHANGED <<pdf, cache, mokuro, epub, clock, conv, built, child, leftover, faults>>

ConvStep ==
    \/ \E v \in Vols : Rasterize(v) \/ StatFile(v)
    \/ RemoveScanPDF \/ RemoveTextPDF \/ PageCountMismatch \/ RemoveFolder
    \/ CheckInput \/ ReconcileOCRCache \/ Snapshot
    \/ Tick \/ MokuroDone \/ ParseMokuroFile \/ CreateEpub \/ WriteEpub \/ PageMissing
    \/ EndPass \/ Return

ChildStep ==
    \/ ClearCache \/ RecognizePages \/ OpenMokuroFile \/ FillMokuroFile
    \/ MokuroEnds \/ PhantomPage
    \/ \E v \in Vols : SkipVolume(v) \/ ProcessVolume(v)

Faults ==
    \/ Fails \/ ReconcileFails \/ ClearCacheFails \/ MokuroFails \/ Cancel \/ CloseFails \/ BuildFails \/ Crash

Next ==
    \/ \E noCache \in BOOLEAN, only \in Vols \cup {All} : StartConvert(noCache, only)
    \/ ConvStep \/ ChildStep \/ Faults
    \/ \E v \in Vols, S \in SUBSET Pages : ChangePages(v, S)

Spec == Init /\ [][Next]_vars

-----------------------------------------------------------------------------
(* Properties.                                                             *)

\* Convert never takes a volume as built whose ".mokuro" file has changed since:
\* the file whose time it noted is the one the EPUB was built from, however the
\* poll met mokuro's writes.  (A file from before the run is noted unbuilt.)
BuiltIsCurrent ==
    \A v \in Vols :
        \/ built[v] # mokuro[v].mtime \/ built[v] = leftover[v]
        \/ conv.vol = v /\ conv.pc \in {"create", "close"}
        \/ epub[v].of = mokuro[v].mtime \/ conv.fail

\* mokuro never comes to a page in its cache that has no image, though earlier runs
\* died or failed at any step: unless the user changed pages, and no reconciliation
\* since then came through without an error and over every volume with a ".mokuro"
\* file (it passes over one that has no cache).
NoPhantomPage ==
    child.pc = "write" /\ ~changed => Entries(child.vol) \subseteq images[child.vol]

\* A conversion that reports success has built every volume mokuro wrote a file
\* for; the only volume it leaves out has a ".mokuro" file that mokuro takes for
\* processed: one of an earlier run, which may have died before it built the
\* EPUB, or one that an attempt died over.
SuccessIsComplete ==
    conv.pc = "return" /\ ~conv.err /\ ~conv.fail /\ ~changed =>
        \A v \in Vols : images[v] # {} =>
            \/ epub[v].state \in {"whole", "torn"} /\ epub[v].of = mokuro[v].mtime
            \/ Exists(v) /\ (mokuro[v].mtime = leftover[v] \/ ~mokuro[v].whole)

\* Whatever fails and whenever the worker dies, there is something left to make
\* each volume from, or its EPUB; it is lost only if the EPUB's Close failed.
NothingLost ==
    \A v \in Vols : pdf[v] # "none" \/ images[v] # {} \/ epub[v].state \in {"whole", "torn"}

-----------------------------------------------------------------------------
\* A claim of the code's comments that a crash breaks: "a resumed batch picks up
\* where it left off" (db.go:30), that is, a conversion that reports success has
\* left an EPUB of every volume.
ResumePicksUp ==
    conv.pc = "return" /\ ~conv.err /\ ~conv.fail /\ ~changed /\ conv.only = All =>
        \A v \in Vols : epub[v].state \in {"whole", "torn"}
=============================================================================
