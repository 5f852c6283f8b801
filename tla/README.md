# yomekuro in TLA+

yomekuro is a self-hosted library server for EPUBs (a Go server on PostgreSQL)
with a companion converter that turns scanned manga into EPUBs. This directory
models the parts of it whose correctness depends on the order in which
independent actors do things. Paths below are relative to `src/`.

Contents: [1 the system](#1-the-system), [2 modules](#2-modules),
[3 what the runs check](#3-what-the-runs-check), [4 what is proved](#4-what-is-proved),
[5 findings](#5-findings), [6 abstractions](#6-abstractions),
[7 not modelled](#7-what-is-not-modelled-and-why), [8 plan](#8-plan).

To repeat a run: `tlc -workers 2 -config <run>.cfg <module>`; a proof: `tlapm <module>.tla`.

## 1 The system

Three kinds of process share two pieces of state. The **API server**
(`internal/`, `cmd/yomekuro`) serves requests, one goroutine each, and scans the
libraries. The **converter worker** (`converter/`) is a separate container that
claims jobs. A **user** copies folders into a library by hand. They share the
**PostgreSQL database** and the **library directory**. Nothing locks the
directory, and apart from `claimNextJob` hardly anything in the job code is a
transaction, so almost every handler is a sequence of steps others run between.

| Component | State it keeps | Operations | Meets others through |
|---|---|---|---|
| Job table (`converter/db.go`, `internal/db/converter_jobs.go`) | rows: status, two request flags, current volume | insert, claim, progress, verdicts, stop, delete, pause, resume, rescue | every statement is one step; claim is two |
| Library folders | raw scans `<name>-in`, books `<name>` | create, fill, rename, remove | no lock at all |
| Converter worker (`converter/watch.go`) | goroutine per job, `manualInProgress`, GPU slot | rescue, queue loop, manual-folder loop, poll signals, verdict, cleanup | job table, folders |
| Converter pipeline (`convert.go`, `mokuro.go`, `pdf.go`, `epub*.go`) | OCR output, `.mokuro` files, EPUBs | OCR a volume, build its EPUB, build text PDFs | folders; killed by the worker's context |
| Conversion API (`internal/api/converter.go`) | locals of a request | upload, add to a book, reconvert, stop or delete, pause, resume, delete a book | job table, folders |
| Content server (`internal/api/content.go`) | LRU of open archives with reference counts | get, release, evict, invalidate | book rows (hash), EPUB files |
| Scanner and watcher (`internal/scanner`) | timers per path, book rows | scan, process file, remove, debounce | book rows, files |
| Covers (`scanner.saveCover`, `cmd/coverregen`, `coverimage`, `thumbnail`) | one file per book in `covers` | write, supersede, remove, regenerate | book rows, no lock |
| Library integrity (`internal/api/integrity.go`) | a report | compare rows, files and covers | reads all three |
| Accounts (`internal/auth`, `api/users.go`, `api/google_auth.go`) | users, sessions | login, sign up, reset, promote, demote, delete, sweep | users and sessions tables |
| Tags (`internal/db/tags.go`) | tags, links to books | replace a book's tags, list | a transaction under row locks |
| Reading progress (`api/progress.go`, `db/progress.go`) and the web reader (`reader.js`) | one row per user and book; a tab's position | open, move, save, mark read | saves nobody awaits |
| Login limiter (`api/ratelimit.go`) | failures per address | check, fail, reset | one mutex |
| Bookmarks, categories, missing volumes | rows of one user | edit | single statements |
| Extraction and parsing (`internal/archive`, `epub`, `htmlbook`) | none | extract, parse | files |
| Statistics, start-up, shared helpers | samples | | |

What is hard, component by component, and the properties that make it right:

* **Job table and worker.** Check-then-act across autocommit statements; a
  worker that dies with claimed rows; signals (stop, pause) that are flags in a
  row polled once a second; a verdict, a cleanup and a new upload of the same
  name overlapping; one GPU for many goroutines. *A goroutine's row is never
  taken away from it, no running row is without one, a book's jobs run one at a
  time, nothing of the user's is wiped, stops arrive, the queue drains.*
* **Converter pipeline.** mokuro rewrites its files while the poll loop reads
  them; a run resumes on whatever a crash, a cancellation or a failing step left;
  the OCR cache outlives the pages it names. *An EPUB follows the last OCR pass,
  a success is complete, and no volume is ever without a source or an EPUB.*
* **Conversion API.** Status read early and acted on late; a staging folder
  visible under its final name while it fills. *No queued job sees a half staged
  folder.*
* **Content server.** A reader evicted or invalidated while others stream from
  it; a hash read before the cache is asked. *Never closed under a reader,
  closed exactly once, not leaked, not older than its ETag.*
* **Scanner and watcher.** A list collected before the deletion that uses it; two
  `processFile`s of one path; a timer that fires while it is being replaced; a
  volume that is not mounted. *A stale book is never skipped, the row of a file that is
  there all the time is never removed, and scanning again repairs the index.*
* **Covers and integrity.** A cover is a file beside the row that names it,
  written before it, removed after it, by name, by three kinds of writer. *The
  row's cover is there and no other is; the check reports exactly what is wrong.*
* **Accounts.** Count-then-demote; password reset against a login in flight; two
  first logins of one identity. *A reset ends every older session; sign-ups
  agree; the last admin is lost only to overlapping requests.*
* **Tags.** Delete and re-insert under row locks, in the order of a request's
  list. *Readers see whole lists, nobody waits for ever.*
* **Reading progress.** Saves that overtake each other, a file that gets shorter, a
  read-modify-write, chapters that arrive late or never. *A saved position opens on a
  page unless the file got shorter; a manga that is read stays read until the reader
  moves (a text volume does not: section 5); a bookmark survives marking.*

`PROJECT.json` lists every component, and every hazard at its line with the
properties that cover it.

## 2 Modules

```
ConversionJobs          the table: one operator per SQL statement
  LibraryFolders        the directory, and the user who copies into it
    ConverterWorker     converter processes
    ConverterApi        requests
      ConversionSystem  composition, properties, fairness   --implements--> JobLifecycle
        MCConversionSystem     instance for TLC (five runs)
        ConversionProofs       safety of the queue, the refinement, manual and staging folders
ZipCache                content server's cache, requests, rescans
  MCZipCache            instance for TLC
  ZipCacheProofs        safety of the cache
VolumePipeline          Convert on one book, with mokuro
  MCVolumePipeline      instance for TLC
  VolumePipelineProofs  no volume is lost; what an EPUB and the OCR cache follow
LibraryIndex            scans, the watcher's timers, book rows
  MCLibraryIndex        instance for TLC
  LibraryIndexProofs    safety of the index
BookCovers              cover files, coverregen, the integrity check
  MCBookCovers          instance for TLC
  BookCoversProofs      a row's cover, covers left over, exact reports
Accounts                users, sessions and their handlers
  MCAccounts            instance for TLC
  AccountsProofs        sessions, sign-ups and the last admin
BookTags                SetBookTags under row locks
  MCBookTags            instance for TLC
  BookTagsProofs        safety of the tags
ReadingState            a progress row and the reader that saves it
  MCReadingState        instance for TLC
  ReadingStateProofs    safety of a progress row
```

**ConversionJobs.** `jobs` is the table (ids in insertion order, as UUIDs are
never reused), `locked` the row that an uncommitted claim holds. Statements that
are one SQL statement are one operator (`MarkJobDone`, `PausePending`, ...). A
transaction is split where it matters: `claimNextJob` is `LockOldest`
(`SELECT ... FOR UPDATE SKIP LOCKED`) and `CommitClaim`; db.PauseQueue is
`PausePending` and `PauseRunning`; the rescue is three statements. `UpdateRow`
does nothing to a row that is gone and waits for a lock, as PostgreSQL does.

**LibraryFolders.** `scans[n]` is `<n>-in`, a set of volumes; `books[n]` is
`<n>`, a set of EPUBs; `NoDir` is a folder that does not exist.

**ConverterWorker.** `proc[w]` is where a process is in its start-up;
`runs[w][j]` is the goroutine for job j with its poller and mokuro child:
launched, preparing (which ends in the wait for `gpuSem`), ocr, then pausing or
returned as the verdict switch takes its first case, then the two removals of
`cleanupFailedJob`. `Poll` is the signal poller. `ScanCheck`, `ScanCreate`,
`ScanFail`, `ScanExit` are the manual-folder scan around its statements.
`Crash` loses all of that process's state; `ReclaimFails` and `MarkLost` are
statements the database refuses, whose errors the code logs or drops.

**ConverterApi.** `reqs[c]` is one request: the step it takes next and what it
read earlier (`disposable` is the decision that `deleteConversionJob` takes from
a status it will not read again). `Abandon` ends a request between any two
steps: the client went away, or the server died.

**ConversionSystem** puts the two side by side and holds the properties.

**JobLifecycle** is the abstract specification of one job, with a status and
whether a goroutine drives it: at most one owner, only the owner ends a running
job, only the rescue takes an unowned one, a finished job changes no more.
`LifecycleSpec` is its refinement, with `state` mapped to the status column and
`owned` to the existence of a live goroutine in any process.

**ZipCache.** `entries` are the `cacheEntry` structs in the order they were
opened, `items` and `order` the map and the list, `reqs` the page requests,
`file` the version of a file on disk, `row` the hash column, `scans` what a
`processFile` has hashed and not stored. Every method of the cache holds its
mutex, so `get` and `Release` are single steps; `get` is three actions by its
three outcomes (`GetHit`, `GetOpens`, `GetFails`).

**VolumePipeline.** `conv` is the position and the locals of `Convert`, `child` those of
`runMokuro` and the process it started; both run at once. `mokuro[v]` and
`epub[v]` are files that are opened, filled and closed in separate steps, so a
reader or a crash finds them half written. `clock` counts writes of `.mokuro`
files, which is what `snapshotMokuroMTimes` and `builtMTime` compare. What
mokuro does with its folder is an assumption (external in the map), taken from
the comments of `mokuro.go`. The reconciliation and the clearing of caches ignore or
only log every error and go on to mokuro: `ReconcileFails` and `ClearCacheFails` are what
they may leave behind then. `changed` is a ghost: pages were changed and no
reconciliation since did all of its work. The worker sees this module's outcomes as
`ConvertReturns`.

**LibraryIndex.** `row[p]` is the row of a path, `debounce` the watcher's map,
`task` every goroutine that is in `ScanLibrary` or `processFile`, at its
statement and with what it read; `found[s]` is the list a scan collects. A
removal of the library, its return with a new id, a restart, an unmounted
volume and queries that fail (`ProcessFails`, `QueryFails`) are actions. `absent[s]` is a
history: the files a scan could not have read at some moment of it. `watched` keeps the old library ids, as `w.libs` does.

**BookCovers.** One path, its row, and the folder `covers`. `task` is a
`processFile` from `os.Stat` to the removal of the superseded cover, or a
removal of a row and then of its cover; `regen` is `coverregen` at this book;
`check` is `checkLibraryIntegrity`. `DeleteLibrary` and `CreateLibrary` are two requests,
and a goroutine goes on with the library it was started for. What a cover holds is the version of the
file it was taken from. `crossed` and `littered` are ghosts: they say when two
writers overlapped, or one failed, in which case the code promises less.

**Accounts.** `users` and `sessions` are the tables, `requests` what each
handler does next. `Start` is the server's start, which makes an administrator if a
password is configured, the count finds none and the name is free. Authentication
happens once, in `Begin`. A password is the
number of resets it has seen. `alone`, `raced` and `unrevoked` are ghosts.

**BookTags.** `tx[r]` is a request's transaction; `Blockers` says whose locks
its next statement waits for, by PostgreSQL's rules at READ COMMITTED, which the
header states. The DELETE of a book is two steps, `LockBook` and, once its cascade has got
the links, `DeleteBook`; between them it holds the book's row, which a new link needs.
`BreakDeadlock` fails one transaction of a circle, which may go through a DELETE.

**ReadingState.** `progress` is the row, `puts` the bag of saves under way,
`tab` a reader from `init` on, `marking` a `setReadState` between its reads and
its write. A position is a spine item and whether it is at its end. `LoadChapter` is
`loadChapter` up to its fetch, when the index is new and the page on the screen still the
old one; `ShowChapter`, `ShowFirst` and `ChapterFails` are what the fetch brings. A text
chapter is restored to its position if it is longer than the window, and `Reflow` moves it
anywhere afterwards, since what images, stylesheets and the window do to its length is the
browser's. `ClientPut` is any other client, whose body `putProgress` does not check. Ghosts: `len`
and `of` are the length of the spine a position was taken in (`Stray` for none), `found`
whether the tab had found the volume read and stayed where it was.

Definitions introduced by a comment "Mutant:" are plausible bugs: each shows
that one property notices it when the definition it stands in for is replaced.

## 3 What the runs check

Runs that must pass:

| Run | Properties | Question |
|---|---|---|
| `queue_rows` | `RunOwnsRow`, `NoOrphanedRow`, `SerialPerBook`, `InProgressExact`, `LifecycleSpec` | Do rows and goroutines stay in step through reconverts, stops, deletes, pauses, resumes, manual folders and a crash? |
| `queue_folders` | `TypeOK`, `NoHalfStagedInput`, `CleanupOnlyDisposable` | Do the folders survive uploads, additions, deletions, the user and the worker at once, and may a failed job remove only those of a fresh upload, also after a refused status update? |
| `stop_liveness` | `StopEndsRun`, `OrphansRescued` | Does a stop always end its run, even behind a GPU that is never given back or a crash, and is every orphaned row rescued? |
| `queue_liveness` | `QueueDrains` | If every OCR pass ends, does every pending row leave the queue, through pauses and resumes? |
| `zip_cache` | `TypeOK`, `HeldReadersOpen`, `ClosedOnce`, `NoLeak`, `CacheConsistent`, `FreshRead` | Is an archive closed exactly once and never under a reader, and never older than its ETag? |
| `volume_pipeline` | `TypeOK`, `BuiltIsCurrent`, `NoPhantomPage`, `SuccessIsComplete`, `NothingLost` | Does `Convert`, polling mokuro and run again after any failure, build every volume from its last OCR pass and lose none? |
| `library_index` | `TypeOK`, `SkipIsSafe`, `PresentFilesKeepRows`, `ScansConverge` | Do crossing scans and timers never skip a stale book, never drop the row of a file that stayed, and does scanning again repair the index? |
| `book_covers` | `TypeOK`, `CoversMatchRow`, `ReportExact` | Does every writer leave the row's cover and no other, and does the integrity check report exactly what is wrong? |
| `accounts` | `TypeOK`, `OldSessionsRevoked`, `GoogleLoginsAgree`, `LastAdminLostOnlyInRace` | Does a reset end older sessions, do sign-ups of one identity agree, and when can the last admin go? |
| `book_tags` | `TypeOK`, `TagsReplaced`, `RequestsEnd` | Are tags replaced as a whole, and does every request end, deadlocks with another request or with the book's deletion included? |
| `reading_state` | `TypeOK`, `BlankOnlyIfShorter`, `ReadUndoneOnlyByMoving`, `BookmarkCarriedOver` | Does a row stay meaningful whatever order saves and chapters arrive in, and whatever other clients save, for a manga as for a text volume that is scrolled, restored and reflowed? |

What they show:

* `RunOwnsRow`: rescue, pause, delete and claim cannot take a row away from a
  live goroutine. It depends on the order of the rescue (before the loops) and
  on `PauseQueue` touching running rows only through a flag.
* `NoOrphanedRow` holds when the database has refused nothing. With a refused
  statement a row may stay running until the next restart; that is what the
  code does, and why the condition is in the property.
* `SerialPerBook` is about queued rows: a manual folder's row is inserted
  running and is outside the claim.
* `CleanupOnlyDisposable`: `cleanupFailedJob` removes folders only for a
  fresh upload, and only after a verdict that stands. If the database refused the
  verdict (whose error the code drops) the row still says running, which the queue does
  not hand out either. Uploads, additions, manual folders, the refused update and the cleanups
  themselves are in `queue_folders`. Pauses are not (with them it is too large): that a
  paused and resumed manual row keeps its flag is what the theorems `CleanupsAreDisposable` and
  `CleanupsArePermitted` add.
* `InProgressExact` equates `manualInProgress` with the scan's and the
  goroutines' state: no folder is hidden from the scan for good.
* `NoHalfStagedInput` excludes manual rows: the manual scan does see staging
  folders (see the hazards).
* `FreshRead` needs both the cache's key (a hit must match the hash) and the
  fact that hashes only lag behind files.
* `BuiltIsCurrent` is the poll loop's bargain: the time it notes is taken before
  the file is read, so a file rewritten in between differs from it and is built again.
* `NoPhantomPage` needs one reconciliation that comes through over every volume with a
  `.mokuro` file after pages were changed, whatever failed before. One that fails, or passes
  over a volume without a cache, leaves the run as exposed as it was: mokuro may then
  end over a page that is gone, or, where it survives the error, the run may report success
  without that volume. `SuccessIsComplete` therefore excepts changed pages too.
* `SuccessIsComplete` carries the exception the code makes: a `.mokuro` file
  from before the run that mokuro does not rewrite counts as built, even if the
  run that wrote it died before its EPUB (section 5).
* `NothingLost`: PDF, page images or an EPUB of each volume survive every crash. A
  `torn` EPUB counts, because `buildEPUB` drops the error of `zw.Close`.
* `SkipIsSafe` holds because `processFile` takes the file's time before it hashes
  it: whatever crosses, a row's time is not newer than its hash.
* `PresentFilesKeepRows`: a file that could be read from the start of a scan to its end is
  on the list whatever `processFile` did with it (an unreadable EPUB, a failing query), so
  neither this scan's deletion nor an older scan's, of a library created anew, takes its row. Its
  mutant is a walk that lists only what it processed. It does not cover a file that came
  during the walk (`ScanRemovesOnlyVanished`, section 5).
* `ScansConverge` assumes that scans are started again and again and the volume
  ends up mounted. It excepts an empty folder, which the scanner cannot tell
  from a missing volume.
* `CoversMatchRow`: with no overlap the row's cover exists and is not older than
  its hash, and no cover is left over. Overlapping writers can break both (two
  `processFile`s: one removes by name what the other wrote); a `processFile` that then
  runs alone to its end restores the first.
* `ReportExact` is about a check under which nothing changes, in any state the
  crossings and failures have produced.
* `OldSessionsRevoked` and `LastAdminLostOnlyInRace` name in their exceptions the
  races the code does not close (section 5).
* `BlankOnlyIfShorter`: a position opens on a page unless the file has none, or less
  than the one the position is from. Positions that are from no file are excepted: one a
  client made up, and what a reader that is blank itself saves. An empty spine, which
  `epub.OpenManifest` accepts, is among the files; marking counts it as one item, which is why
  it matters that the parked item is the last and not the length.
* `ReadUndoneOnlyByMoving` is about manga, where a page has no position in it and
  "on page N, N pages are read". Saves that were sent before the volume was marked, and
  other clients, may undo it; opening it, a tap on the last page, a late timer or a chapter
  that fails may not. Text volumes break it (section 5).
* `BookmarkCarriedOver` excepts a save that arrives between the read and the write of
  `setReadState`.

**Bounds.** One worker, as the repository deploys. `queue_rows` has one book,
two rows and one request in flight: two rows are what serialisation, a bulk
reconvert and the "oldest first" rule need; each request is itself several
steps, interleaved with the worker and its goroutines, and the two-statement
races are between a request and the worker.
`queue_folders` has uploads and additions in place of reconverts and crashes, a staging name, one volume and
one refused status update. The liveness runs use two books so that one conversion can hold
the GPU against another, with one crash in `stop_liveness`.

`zip_cache` has three paths for a cache of two (so eviction happens), two
requests (so an entry has two readers, or one reads while the other evicts),
three openings (room for an eviction or an invalidation of a held entry and for
the reopening after it), and two versions of a file.

`volume_pipeline`: two volumes (one can be built while the other is recognised),
two pages (one can be removed and one stay), two attempts of mokuro, four writes
of `.mokuro` files (each takes two), two faults (a crash and another one in the
run that resumes) and one edit; 3.5 million states. `library_index`: two paths, one in
a watched folder and one not, one scan and two timers (an old callback beside its
replacement), two changes of files, a library created twice, one fault; 0.7 million states. `book_covers`: two goroutines and `coverregen`, three writers
started in all (two that overlap and one that runs alone after them), two versions of the file, one
extension (names still change, between ids and none), one fault; 2.6 million states. `accounts`: two requests at a time and four in all, two names, one Google
identity, one crash; 0.8 million states. `book_tags`: two requests, one book and
lists with both orders of two tags (the deadlock). `reading_state`: one tab that is
opened again and again, one chapter on its way besides the first, a volume of up to two items
replaced once, and a client that sets a bookmark on a position past the end, for a manga with two saves under
way (they can overtake each other) and a text volume with one (its pages can be anywhere, so saves differ
more); 3.0 million states.

`Max...`, `Ops` and `BulkSizes` are the named bounds; they appear in guards only. Symmetry is
used for paths and requests, volumes and pages, goroutines of a kind, in runs that check
safety only. The theorems below hold for every value of all these constants.

Deadlock is not checked: each model stops when its bounds are used up, and the
real system may well sit idle.

**Fairness** (`FairSpec`). Weak fairness of the worker's start and rescue (its
container restarts it, `restart: unless-stopped`), of its loops and pollers
(tickers that Go schedules), of the status update and cleanup of a goroutine that has its
result, and of `Cancelled`: once the context of a run is cancelled, mokuro is
killed and `acquireGPU` returns. No fairness for clients, for users, or for a
mokuro that nobody cancelled. `QueueDrains` adds, as its own hypothesis
(`ConversionsEnd`), that OCR passes end, and strong fairness of getting the GPU
slot: goroutines blocked on the `gpuSem` channel are served in order. `LibraryIndex`'s `FairSpec` is weak fairness of goroutines
and fired timers, nothing else. `BookTags`'s has strong fairness of statements that wait for a
lock, the DELETE of a book among them (PostgreSQL grants locks in the order of waiting),
and weak fairness of the rest, with the deadlock detector. There is
no liveness property for the cache: a client may read its page as slowly as it
likes, since the server deliberately sets no WriteTimeout
(`cmd/yomekuro/main.go:105`).

## 4 What is proved

With TLAPS, for every value of the constants: any number of workers, books, volumes, rows,
requests, crashes and faults (conversion), of volumes, pages, attempts and faults
(pipeline), of paths, requests, scanners and openings and any capacity (cache), of
files, scans, timers and faults (index), of goroutines, versions of the file, covers and
faults (covers), of users, sessions and requests (accounts), of
tabs, saves and chapters (reading) and of requests, books and tags (tags). Only the named
ASSUMEs of the modules are assumed (section 6 says why they hold), and `OneWorker`
(at most one worker process) where the table says so, which is what the repository deploys.
The two results about several processes keep the model's one goroutine per process and row: they
are about rows and folders, which no second goroutine of the same row would change.

| Theorem | States | From |
|---|---|---|
| `ConversionProofs!TypeCorrect` | `Spec => []TypeOK` | `TypeInv` |
| `ConversionProofs!RunsOwnTheirRows` | `OneWorker` implies `Spec => []RunOwnsRow` | `QueueInv` |
| `ConversionProofs!BooksAreSerial` | the same for `SerialPerBook` | `QueueInv` |
| `ConversionProofs!CleanupsAreDisposable` | the same for `CleanupOnlyDisposable` | `QueueInv` |
| `ConversionProofs!JobsKeepLifecycle` | `OneWorker` implies `Spec => LifecycleSpec`, the refinement of `JobLifecycle` | `QueueInv` |
| `ConversionProofs!NoRowIsOrphaned` | `OneWorker` implies `Spec => []NoOrphanedRow` | `QueueInv` |
| `ConversionProofs!InProgressIsExact` | the same for `InProgressExact` | `ScanInv` |
| `ConversionProofs!CleanupsArePermitted` | `Spec => []CleansPermitted`, the part of `CleanupOnlyDisposable` that holds for any number of workers | `PermitInv` |
| `ConversionProofs!NoQueuedJobReadsHalfStaged` | `Spec => []NoHalfStagedInput` | `PermitInv`, `StagingInv` |
| `ZipCacheProofs!CacheTypes` | `Spec => []TypeOK` | `CacheInv` |
| `ZipCacheProofs!ReadersStayOpen` | `Spec => []HeldReadersOpen` | `CacheInv` |
| `ZipCacheProofs!ArchivesCloseOnce` | `Spec => []ClosedOnce` | `CacheInv` |
| `ZipCacheProofs!NoArchiveLeaks` | `Spec => []NoLeak` | `CacheInv` |
| `ZipCacheProofs!MapAndListAgree` | `Spec => []CacheConsistent` | `CacheInv` |
| `ZipCacheProofs!PagesAreFresh` | `Spec => []FreshRead` | `FreshInv` |
| `VolumePipelineProofs!PipelineTypes` | `Spec => []TypeOK` | `TypeInv` |
| `VolumePipelineProofs!NoVolumeLost` | `Spec => []NothingLost` | `SourceInv` |
| `VolumePipelineProofs!NoPageWithoutImage` | `Spec => []NoPhantomPage` | `CacheInv` |
| `VolumePipelineProofs!NotedIsCurrent` | `Spec => []BuiltIsCurrent` | `BuiltInv` |
| `VolumePipelineProofs!SuccessMeansComplete` | `Spec => []SuccessIsComplete` | `CompleteInv` |
| `LibraryIndexProofs!IndexTypes` | `Spec => []TypeOK` | `TypeInv` |
| `LibraryIndexProofs!SkipSafe` | `Spec => []SkipIsSafe` | `SkipInv` |
| `LibraryIndexProofs!PresentFilesStay` | `Spec => PresentFilesKeepRows` | `MissInv` |
| `AccountsProofs!AccountTypes` | `Spec => []TypeOK` | `TypeInv` |
| `AccountsProofs!ResetEndsSessions` | `Spec => []OldSessionsRevoked` | `Sound` |
| `AccountsProofs!GoogleLoginsEndInOneAccount` | `Spec => []GoogleLoginsAgree` | `GoogleInv` |
| `AccountsProofs!LastAdminLostOnlyByRacers` | `Spec => LastAdminLostOnlyInRace` | `TakerInv` |
| `ReadingStateProofs!ProgressGoesWithVolume` | `Spec => []TypeOK` | `ReadingInv` |
| `ReadingStateProofs!OpensOnPage` | `Spec => []BlankOnlyIfShorter` | `ReadingInv` |
| `ReadingStateProofs!OnlyMovingUndoesRead` | `Spec => ReadUndoneOnlyByMoving` | `ReadingInv` |
| `ReadingStateProofs!MarkingKeepsBookmark` | `Spec => BookmarkCarriedOver` | `ReadingInv` |
| `BookTagsProofs!LinksHaveRows` | `Spec => []TypeOK` | `TagsInv` |
| `BookTagsProofs!SuccessReplacesTags` | `Spec => TagsReplaced` | `TagsInv` |
| `BookCoversProofs!CoverTypes` | `Spec => []TypeOK` | `TypeInv` |
| `BookCoversProofs!ReportsAreExact` | `Spec => []ReportExact` | `ReportInv` |
| `BookCoversProofs!CoversMatch` | `Spec => []CoversMatchRow` | `ServedInv`, `KeptInv` |

### Conversion system

**TypeInv** of `ConversionProofs` adds to `TypeOK` that a request which extracts into a staging folder
knows its name, without which `AddExtract` would index a folder function outside its domain.

**QueueInv** strengthens the three properties because none is inductive alone.
`RowsInOrder`: ids above `lastId` are unused, so a new manual row is not one a
goroutine already drives. `DownIdle`: a process that is not up has no
goroutines, so the rescue takes rows from nobody; it is here that one worker is
needed. `ClaimStands`: what a claim's `NOT EXISTS` saw still holds when it
commits, since only this worker's own claim could start another row.
`RunsTracked` and `PermissionStands`: a goroutine's row was inserted, and what it may wipe
was decided from columns that never change. The hypothesis `OneWorker` cannot
be dropped: section 5 gives an instance with two workers that breaks `SerialPerBook`. The proof has one lemma for
all the steps that start nothing and take nothing (`QuietStep`), and one for
each step that does: claim, launch, verdict, rescue, manual row.

**The refinement** needs no invariant beyond `QueueInv`. The proof first sorts the
steps by what they do to the statuses (`Moved`) and to the set of jobs with a live goroutine
(`Driven`): nothing (`Stutters`), an insert (`Queues`), a pause or resume of the queue
(`Switches`), a deletion, a start, an end, a crash (`Loses`), a statement of the rescue
(`Rescues`). One lemma shows that each kind is a step of `JobLifecycle`, or a stutter, and
one per action of the code shows its kind. `NoOrphanedRow` is read off the same cases: every
kind but `Loses` keeps each running row driven, and `Loses` takes the process down; what
remains are the rescue's three statements, after the last of which no row is left running.

**ScanInv** strengthens `InProgressExact`. That `manualInProgress` is the right set of names
is not inductive: a goroutine that ends takes its folder out, so the folder must not be that of
another goroutine, of the scan, or of a removal already under way. `ScanInv` says that all of
these are different.

**PermitInv** is what remains of `QueueInv` without `OneWorker`: `RowsInOrder`, `RunsTracked`,
`PermissionStands`, that a claim holds an inserted row (`ClaimsTracked`), and that a goroutine which
cleans up was permitted to (`CleansPermitted`). One lemma says what every step of the system does to
the table (`NextKeepsInputs`: rows appear in order and keep their input, their kind and whether they
are manual), another what a step may do to a claim or a goroutine (`PermitStep`).

**StagingInv** strengthens `NoHalfStagedInput`, again for any number of workers: a folder that is being extracted into is there, is in
the hands of one request, carries a staging name, and is the input of no queued row; a request that
names a book names one a user chose; a request that may wipe an input wipes that of a queued row. Hence
nobody removes the folder or draws its name again before its own request inserts the row.

### Content server

**CacheInv** is `TypeOK` with `Numbered` (every id in use is below `opened`,
and a reading request names one), `RefsExact` (a reference count is the number
of requests reading the entry), `CacheConsistent`, `CachedLive` (a cached entry is neither
evicted nor closed) and `DroppedSettled` (an entry that left the cache is
marked evicted and open while it has readers, and closed once when it has none).
The last three say together where an entry is in its life; from `RefsExact` it follows that the release that brings the
count to zero is the last. Each of the four properties is then a short
consequence. The list lemmas (`UnlinkProperties`, `PushFrontProperties`,
`FrontProperties`) state what `list.Remove`, `PushFront` and dropping the back do to an
injective list.

**FreshInv** adds `HashesLag` (rows, pending hashes, requests and entries never
name a version newer than their file, or than what they opened) and `ReadsAsked` (a request
reads an entry of the path and hash it asked for).

### Pipeline

**SourceInv** of `VolumePipelineProofs` strengthens `NothingLost` with what makes each
removal safe: `WorkedOn` (what a step is about to build from, or has built before it
removes a folder, is there), `Recognized` (a volume with a `.mokuro` file has its page
images and no PDF) and `Phases` (where `Convert` has got to: mokuro runs only once no PDF
is left, so a PDF's page images, which are removed when it fails, are never the only
copy of a volume). Each of the 33 actions has a step for the types and a step for this.

**CacheInv** of the pipeline: outside `changed`, neither the cache nor a `.mokuro` file names a page
that has no image (`CachesMatch`), whatever failed; it is inductive with what a volume without a
`.mokuro` file is (`NoFileNoPages`, so that a reconciliation which passes over no `.mokuro` file has seen
all there is) and with the cache being there while mokuro works on a volume (`InUse`). `Reconciled` and
the lemmas on it say what a reconciliation does, done in full or in part.

**BuiltInv**: no noted time is ahead of the clock (`NotedTimes`), the time in hand
was taken before the file was read (`InHand`), and outside the poll nothing is noted but what the
snapshot found (`Unpolled`); then a file whose time is still the noted one has not been
written since, and its EPUB follows it (`BuiltCurrent`).

**CompleteInv** says why the last pass is enough: a mokuro that exits without an error has come to every
volume (`Processed`), nobody writes after it, and each volume is built, left out as the
snapshot found it, or still to come in the pass (`LastPass`). It rests on `BuiltInv`.

### Index

**TypeInv** of `LibraryIndexProofs` adds to `TypeOK` that a goroutine which is about a
path names one, and that a deleted library leaves an id for the next.
**SkipInv** strengthens `SkipIsSafe`: `NoTimeAhead` (no file, row or goroutine has a
time past the clock), `Dated` (a goroutine that has looked at a file holds a time),
`HashFits` (what a goroutine hashed is what the file held at that time or later) and
`SkipIsSafe` for the row. It is needed because the time and the hash of a row come
from one goroutine but from two looks at the file.
**MissInv** strengthens `PresentFilesKeepRows`: a path that a scan's walk has gone by (`Behind`) is on
its list or was absent at some moment since the scan began (`Noticed`), through every step of
`processFile` and every way it can fail.

### Covers

**TypeInv** of `BookCoversProofs` adds to `TypeOK` what the locals of a goroutine and of coverregen
hold at each statement; that a new cover has another name than the one it replaces rests on fresh ids.

**ReportInv**, for `ReportExact`: a check that is under way holds the row and the library of now, since one
under which they change is not followed further, and what it has reported at each of its steps is what is
wrong with the part of the state it has looked at.

**ServedInv** strengthens the first half of `CoversMatchRow`. `AloneInv`: a goroutine marked
`alone` has no other writer beside it, and as long as `crossed` is not set whoever is at work is
alone. `Path` and `RegenPath`: a lone writer still finds the row it read (unless the library
was deleted), the cover it wrote is there, and no version in its hands is older than the row's hash. Hence
only a lone writer, which leaves a good cover, resets `crossed`, and a writer that overlapped
is bound to nothing until then. It rests on `VersionsInv` (hashes never run ahead of the file's versions).

**KeptInv** strengthens the second half: as long as nobody failed, overlapped or deleted the library, every
cover that is there is the row's, or one that the lone writer is about to store in the row or to
remove (`Accounted`). For that the writer's library must still be the one there is, or its
`UpsertBook` would fail and leave its cover behind.

### Accounts, reading and tags

**TypeInv** of `AccountsProofs` says what each handler knows at each of its statements (`Locals`)
and that ids count up (`Rows`). That a password, which counts the resets it has seen, stays within the requests
served is not inductive: `Passwords` also counts the requests whose reset is still to come. On it rest:

* `Sound`, for `OldSessionsRevoked`: the step that makes passwords differ marks the row until the
  sessions are deleted, and a session stored later is stored by a login that ran beside the reset.
* `GoogleInv`, for `GoogleLoginsAgree`: a callback that signs up for an identity is alone with it,
  and no user has it. The advisory lock, taken before the lookup, is what keeps this.
* `TakerInv`, for `LastAdminLostOnlyInRace`: a request that can take admin rights away and overlapped no
  other such request is still alone, and once past its count there is an admin besides its target.

**ReadingInv** is one invariant for the four theorems on reading. `RowInv` and `PutInv`: a position that
was taken in a file lies in its spine, or is its start, and if it says that a manga is read it is that of
the last page; a save of a tab that found a manga read and did not leave the page says "read".
`TabPhase`, `TabPlace` and `TabFound` carry the same through a tab: nothing is on the screen before the manifest
and the row were fetched, a blank tab had no chapter to load, and a tab that found a manga read is on its
last page, also while a chapter is on its way or after it failed. `MarkingInv`: a request that marks holds a
length of at least one, an empty spine included.

**TagsInv** says what a transaction has done at each statement (`TxInv`: it links only tags whose rows
it holds locked) and, for one that met no other on its book, that what it has removed, linked and still
to link is all there is (`LoneTx`).

### What is only model-checked

The liveness properties (`StopEndsRun`, `OrphansRescued`,
`QueueDrains`, `ScansConverge`, `RequestsEnd`), since TLAPS proves neither liveness under fairness nor ENABLED; and
the violation of section 5. Also beyond this prover are induction over data and RECURSIVE operators
(no module here uses one).

## 5 Findings

One run must fail, on a property that quotes the code:

* `cleanup_output` (`CleanupFindsOutputEmpty`): an upload *added to an existing book* that
  converts nothing makes `cleanupFailedJob` (`converter/watch.go:167`) remove the whole
  existing book; the comment says the folder is empty.

The following are stated in the modules as well, and no run checks them: they do not hold
in the code. TLC refutes each within a minute as an INVARIANT or PROPERTY of the
instance named here (what is not named is as in the module's cfg: `queue_rows.cfg`
for `ConversionSystem`).

| Definition | What happens | Instance |
|---|---|---|
| `OneConversionPerFolder` (ConversionSystem) | `jobExistsForPath` and `createManualJob` are separate statements (`watch.go:207`, `:239`); a reconvert queued and claimed between them converts the same folder beside the manual row. | `Vols = {v1, v2}`, `Ops = {"reconvert", "drop"}`, `MaxCrashes = 0` |
| `TerminalRowsCarryNoStop` (ConversionSystem) | A stop decided on a status read earlier (`internal/api/converter.go:954`) lands on a job that has ended; the flag stays and, by the comment at `converter/db.go:102`, so does the UI's disabled button. | `MaxJobs = 1`, `Ops = {"reconvert", "delete"}`, `MaxCrashes = 0` |
| `NoWipeUnderLiveRun` (ConversionSystem) | A delete that read `pending` removes the row and then the input folder (`internal/api/converter.go:963-977`) of a conversion claimed since. | `MaxJobs = 1`, `Ops = {"upload", "delete"}`, `MaxCrashes = 0` |
| `SerialPerBook` with two workers (ConversionSystem) | `claimNextJob`'s `NOT EXISTS` reads committed rows, so two workers claim two rows of one book, where `converter/db.go:64` says that several workers may poll the table safely. The repository deploys one worker. | `Workers = {w1, w2}`, `Ops = {"reconvert"}`, `MaxCrashes = 0` |
| `ScanRemovesOnlyVanished` (LibraryIndex) | A scan's list is older than its deletion (`scanner.go:79`): a book the watcher added meanwhile loses its row, with its readers' progress, where `scanner.go:32` says that entries whose files have vanished are removed. A later scan adds it again. | `Timers = {t1}`, `MaxLibrary = 1`, `MaxFaults = 0`, `SPECIFICATION Spec` |
| `AdminRecoverable` (Accounts) | Two requests that take the last admins away pass the count of `users.go:112` together; the demoted one keeps the administrator's name, so the restart that the comment at `users.go:101` counts on fails in `EnsureAdmin` (`auth.go:241`) on the unique name. | `Subjects = {}`, `MaxRequests = 6`, `MaxCrashes = 0` |
| `ResumePicksUp` (VolumePipeline) | A crash between a `.mokuro` file and its EPUB: the next run counts the file as built, so the volume has no EPUB until it is recognised again, where `converter/db.go:30` says that the OCR caches let a rescued job pick up where it stopped. | as in `volume_pipeline.cfg` |
| `ReopeningKeepsRead` (ReadingState) | Marking parks at the last item, "or reopening would undo it" (`internal/api/progress.go:91-92`). In a text volume reopening undoes it all the same: the position is restored two frames after the text arrived and measured 800 ms later (`reader.js:603-606`, `:895-897`), by a `scrollHeight` that images and stylesheets may have enlarged, and the save that follows says less than 1. | as in `reading_state.cfg` |

## 6 Abstractions

Conversion system and content server:

* A folder is the set of volumes or EPUBs in it; page images, OCR caches and
  `.mokuro` files are inside "this volume is there" (`VolumePipeline` opens that box).
  One volume's EPUB appears in one step.
* `output_path` is always the folder named after the row, as every insert makes
  it; libraries are part of the name, which `Books` makes unique.
* `curVol` says only whether `current_volume` is non-empty, as `PauseQueue` asks.
* Rows of one bulk insert share `created_at`, so any of them may be claimed first.
* A deleted row keeps the columns that a goroutine or request still holds in locals.
* A text PDF's EPUB and the removal of its source are one step; an error on a later PDF
  may discard the count of those already built, as `processPDFVolumes` does.
* `processFile`'s hash is the version of the file at one instant; a rewrite in
  place is a new version at one instant. What a reader sees of an inode that is being
  truncated is the file system's affair and is listed as a hazard.

Two assumptions on constants carry proofs. `Books \cap Stagings = {}` (`ConversionJobs`): a staging
folder's name has a random suffix (`os.MkdirTemp`, `internal/api/converter.go`), so it is no name
a user chose. Reconverting or deleting the book that a manual conversion of a staging folder
would leave is therefore not represented. `IsFiniteSet(Requests)` (`Accounts`): finitely many
requests are in flight, so that those with a reset to come can be counted.

Pipeline: a page image is there or not, a PDF has a text layer or not, OCR text is the
set of pages it covers. Modification times are told apart (`clock` counts writes),
so two writes within one tick of the file system's clock are not considered. The
reconciliation looks at one volume's failure at a time. The
volume is the unit of polling; the order in which `filepath.Glob` lists files is any order.

Index, covers: a file is a time it was last touched at and the contents of its last write;
a touch moves only the first, and every write has a time of its own: `SkipIsSafe` does not
hold for a write within one tick of the clock, or one that keeps the file's time. `Watched` are the paths whose folder raises events. Each path
lies in a folder of its own. `ScansConverge` is about paths and
their rows; what `epub.Parse` finds in a file is not. In `BookCovers` a file's bytes are its version and
its cover's extension; the walk is reduced to what it does at one path, and regeneration to one book.

Accounts: tokens are identities, and a session may expire at any time; the hourly sweep may
then delete it. The bodies of requests are valid.

Tags: PostgreSQL's locking is stated in the module's header (row locks of `DELETE`,
`INSERT ... ON CONFLICT DO UPDATE` and foreign keys, at READ COMMITTED). Deleting a
book by a scan's statement, which may delete several, is one book's. Reading: a position is at the top
of its spine item or at its end, and the percentage matters where it reaches 1. A volume keeps its
layout when its file is replaced. A client's negative index, which the reader ignores as it does one past the end, is
represented by the latter. A manga may turn two pages at once, or the halves of one.

## 7 What is not modelled, and why

* **Login limiter** (`api/ratelimit.go`): three short methods under one mutex; a model
  would restate them.
* **Bookmarks, categories, missing volumes, personal libraries**: each change is one
  statement on rows of one user, with nothing to interleave beyond what PostgreSQL decides.
* **Archive extraction, EPUB, OPF and HTML parsing, page layout**: stateless
  transformations of files. Their outcomes (a parse that fails, an archive that extracts
  nothing, an EPUB that cannot be built) are alternatives in the models that call them.
* **Statistics, start-up, routing, logging, shared helpers** and the browser code other than the
  reader's saves: samples, I/O and user interface.
* Of the conversion API, `uploadHTMLFile`, `renameBook`, listings and exports, which
  do not touch the queue. Deleting a library, which cascades to its job rows, is
  represented by the deletion of rows. Of the scanner, the tags of a parsed book. Of the
  integrity check, issues with the contents of a file (structure, spine, format) and those of
  paths that cannot be looked at or are not what they should be (`outside_library`,
  `not_regular_file`, `path_inaccessible`, `library_unavailable`, `cover_path_inaccessible`): none of them writes. Of `mokuro_run.py`, all but what the
  converter relies on. Thumbnails' pixels (`Downscale`) and the image search of `epub/cover.go`.

## 8 Plan

Done, in the order of importance: the conversion system with its safety, its
refinement of `JobLifecycle` and its liveness runs; the zip cache; the pipeline, the index,
accounts, tags, reading state and covers with their runs. Every invariant and every action property
that a passing run checks is proved; liveness is beyond the prover (section 4).

Modelling left: the pure algorithms (volume numbers of a title, table-of-contents
enrichment, `safeJoin`, the limiter's delay) against reference definitions over bounded inputs.
