----------------------------- MODULE LibraryIndex ----------------------------
(***************************************************************************)
(* internal/scanner: the index of one library's folder.  Scans, started by *)
(* the API or at start-up, walk the folder; the watcher's debounced timers *)
(* process or delete single paths; both run processFile without a lock     *)
(* against the same rows, while users and the converter change the files.  *)
(*                                                                         *)
(* A file's contents are the time it was last written at, and mtime (with  *)
(* the size) is the time it was last written or touched at.                *)
(* Of a row only the file's time and hash are kept: what was parsed, the   *)
(* cover and the tags are left out.  Path p lies in a folder of its own,   *)
(* and the walk visits the folders in the order 1..N.                      *)
(***************************************************************************)
EXTENDS Naturals, Sequences, FiniteSets

CONSTANTS
    N,          \* number of paths
    Watched,    \* paths in folders the watcher watches
    Scans,      \* goroutines of ScanLibrary
    Timers,     \* bound: watcher timers armed or running at once
    NoTimer,    \* the debounce map has no entry for the path
    MaxClock,   \* bound: changes of files
    MaxLibrary, \* bound: how often the library is created
    MaxFaults   \* bound: restarts, unmounts, unreadable folders, files that do not
                \* parse, failing queries

ASSUME IndexAssumption ==
    /\ N \in Nat \ {0} /\ MaxClock \in Nat /\ MaxLibrary \in Nat \ {0} /\ MaxFaults \in Nat
    /\ Watched \subseteq 1..N
    /\ NoTimer \notin Timers
    /\ Scans \cap Timers = {}

VARIABLES
    clock,      \* time of the last change of a file
    file,       \* the folder
    mounted,    \* whether the library's volume is
    row,        \* table books, by path; id 0 is no row
    library,    \* id of the row in table libraries, 0 if it was deleted
    created,    \* how many ids libraries has used
    watched,    \* w.libs: ids of this path's library, oldest first
    debounce,   \* w.debounce
    task,       \* where each goroutine is, and the locals of its processFile
    found,      \* the files each ScanLibrary has come across
    absent,     \* history: the files it could not have come across at some moment
    faults

diskVars    == <<clock, file, mounted>>
libraryVars == <<library, created, watched>>
scanVars    == <<found, absent>>
vars        == <<diskVars, row, libraryVars, debounce, task, scanVars, faults>>

Paths   == 1..N
Tasks   == Scans \cup Timers
Time    == 0..MaxClock
\* Enough that a random UUID is never one in use.
BookIds == 1..(N + Cardinality(Tasks))

File == [there: BOOLEAN, mtime: Time, content: Time]
Row  == [id: {0} \cup BookIds, library: 0..MaxLibrary, mtime: Time, hash: Time]
Task == [pc: {"idle", "process", "delete",                      \* a timer that is armed
              "walk", "count", "clean",                         \* ScanLibrary
              "stat", "look", "hash", "stats", "upsert",      \* processFile
              "remove", "ended"},                               \* a timer that fired
         path: {0} \cup Paths, library: 0..MaxLibrary,
         id: {0} \cup BookIds, mtime: Time, hash: Time]

NoFile == [there |-> FALSE, mtime |-> 0, content |-> 0]
NoRow  == [id |-> 0, library |-> 0, mtime |-> 0, hash |-> 0]
NoTask == [pc |-> "idle", path |-> 0, library |-> 0,
           id |-> 0, mtime |-> 0, hash |-> 0]

Init ==
    /\ clock = 0
    /\ file = [p \in Paths |-> NoFile]
    /\ mounted = TRUE
    /\ row = [p \in Paths |-> NoRow]
    /\ library = 1
    /\ created = 1
    /\ watched = <<1>>
    /\ debounce = [p \in Paths |-> NoTimer]
    /\ task = [k \in Tasks |-> NoTask]
    /\ found = [s \in Scans |-> {}]
    /\ absent = [s \in Scans |-> {}]
    /\ faults = 0

TypeOK ==
    /\ clock \in Time
    /\ file \in [Paths -> File]
    /\ mounted \in BOOLEAN
    /\ row \in [Paths -> Row]
    /\ library \in 0..created
    /\ created \in 1..MaxLibrary
    /\ watched \in Seq(1..MaxLibrary)
    /\ debounce \in [Paths -> Timers \cup {NoTimer}]
    /\ task \in [Tasks -> Task]
    /\ found \in [Scans -> SUBSET Paths]
    /\ absent \in [Scans -> SUBSET Paths]
    /\ faults \in 0..MaxFaults

Readable(p) == mounted /\ file[p].there
Indexed(p)  == row[p].id # 0

\* Paths ps cannot be read at this moment: what the scans under way may miss.
Vanish(ps) ==
    absent' = [s \in Scans |-> IF task[s].pc = "idle" THEN {} ELSE absent[s] \cup ps]

-----------------------------------------------------------------------------
(* The watcher.                                                            *)

Armed(t) == task[t].pc \in {"process", "delete"}

\* t.Stop: it comes too late for a timer that already runs.
Stopped(p) ==
    IF debounce[p] # NoTimer /\ Armed(debounce[p])
    THEN [task EXCEPT ![debounce[p]] = NoTask] ELSE task

DebounceOp(p, op, lib) ==
    LET free == {t \in Timers : Stopped(p)[t].pc = "idle"}
        t    == CHOOSE u \in free : TRUE
    IN  /\ free # {}
        /\ task' = [Stopped(p) EXCEPT ![t] = [NoTask EXCEPT !.pc = op, !.path = p, !.library = lib]]
        /\ debounce' = [debounce EXCEPT ![p] = t]

\* An event can be lost: the folders below a new folder are not watched, nor is
\* what a new folder contains already; the queue of events can overflow.
HandleEvent(p, op) ==
    \/ UNCHANGED <<debounce, task>>
    \/ p \in Watched /\ op = "delete" /\ DebounceOp(p, op, 0)
    \/ p \in Watched /\ op = "process" /\ watched # <<>> /\ DebounceOp(p, op, Head(watched))

\* fn starts in a goroutine of its own.
Fire(t) ==
    /\ Armed(t)
    /\ task' = [task EXCEPT ![t].pc = IF @ = "process" THEN "stat" ELSE "remove"]
    /\ UNCHANGED <<diskVars, row, libraryVars, debounce, scanVars, faults>>

DeleteBookByPath(t) ==
    /\ task[t].pc = "remove"
    /\ row' = [row EXCEPT ![task[t].path] = NoRow]
    /\ task' = [task EXCEPT ![t].pc = "ended"]
    /\ UNCHANGED <<diskVars, libraryVars, debounce, scanVars, faults>>

\* fn has returned: whatever timer the map holds for the path by now is forgotten.
Forget(t) ==
    /\ task[t].pc = "ended"
    /\ debounce' = [debounce EXCEPT ![task[t].path] = NoTimer]
    /\ task' = [task EXCEPT ![t] = NoTask]
    /\ UNCHANGED <<diskVars, row, libraryVars, scanVars, faults>>

-----------------------------------------------------------------------------
(* The folder.  An event of the watcher is handled along with the change.  *)

\* A user, or the converter, creates the file or writes it anew.
WriteFile(p) ==
    /\ mounted /\ clock < MaxClock
    /\ clock' = clock + 1
    /\ file' = [file EXCEPT ![p] = [there |-> TRUE, mtime |-> clock', content |-> clock']]
    /\ HandleEvent(p, "process")
    /\ UNCHANGED <<mounted, row, libraryVars, scanVars, faults>>

\* Only the time changes; the watcher ignores Chmod events.
TouchFile(p) ==
    /\ Readable(p) /\ clock < MaxClock
    /\ clock' = clock + 1
    /\ file' = [file EXCEPT ![p].mtime = clock']
    /\ UNCHANGED <<mounted, row, libraryVars, debounce, task, scanVars, faults>>

RemoveFile(p) ==
    /\ Readable(p)
    /\ file' = [file EXCEPT ![p] = NoFile]
    /\ HandleEvent(p, "delete")
    /\ Vanish({p})
    /\ UNCHANGED <<clock, mounted, row, libraryVars, found, faults>>

Unmount ==
    /\ mounted /\ faults < MaxFaults
    /\ mounted' = FALSE
    /\ faults' = faults + 1
    /\ Vanish(Paths)
    /\ UNCHANGED <<clock, file, row, libraryVars, debounce, task, found>>

Mount ==
    /\ ~mounted
    /\ mounted' = TRUE
    /\ UNCHANGED <<clock, file, row, libraryVars, debounce, task, scanVars, faults>>

-----------------------------------------------------------------------------
(* processFile, for a scan or a timer.                                     *)

\* Mutant: the walk goes on behind its last folder.
WalksOn(k) ==
    IF k \in Timers THEN [NoTask EXCEPT !.pc = "ended", !.path = task[k].path]
    ELSE [NoTask EXCEPT !.pc = "walk", !.library = task[k].library, !.path = task[k].path + 1]

\* A scan goes on to the next folder, a timer returns.
Returned(k) ==
    IF k \in Timers THEN [NoTask EXCEPT !.pc = "ended", !.path = task[k].path]
    ELSE IF task[k].path = N THEN [NoTask EXCEPT !.pc = "count", !.library = task[k].library]
    ELSE [NoTask EXCEPT !.pc = "walk", !.library = task[k].library, !.path = task[k].path + 1]

Return(k) == task' = [task EXCEPT ![k] = Returned(k)]
Continue(k, to) == task' = [task EXCEPT ![k] = to]

Stat(k) ==
    LET p == task[k].path IN
    /\ task[k].pc = "stat"
    /\ IF Readable(p) THEN Continue(k, [task[k] EXCEPT !.pc = "look", !.mtime = file[p].mtime])
       ELSE Return(k)
    /\ UNCHANGED <<diskVars, row, libraryVars, debounce, scanVars, faults>>

\* GetBookByPath, and the cheap check.
Look(k) ==
    LET r == row[task[k].path] IN
    /\ task[k].pc = "look"
    /\ IF r.id # 0 /\ r.mtime = task[k].mtime THEN Return(k)
       ELSE Continue(k, [task[k] EXCEPT !.pc = "hash", !.id = r.id, !.hash = r.hash])
    /\ UNCHANGED <<diskVars, row, libraryVars, debounce, scanVars, faults>>

\* What db.NewUUID can return; never empty.
FreshIds == BookIds \ ({row[p].id : p \in Paths} \cup {task[k].id : k \in Tasks})

\* hashFile, the comparison with the row's hash, and if it differs epub.Open or
\* htmlbook.Open, which read the file once more: what they find is not kept, so
\* that this is one step.
HashAndParse(k) ==
    LET old == task[k]
        h   == file[old.path].content
    IN  /\ old.pc = "hash"
        /\ IF ~Readable(old.path) THEN Return(k)
           ELSE IF old.id # 0 /\ old.hash = h THEN Continue(k, [old EXCEPT !.pc = "stats"])
           ELSE /\ old.id = 0 => FreshIds # {}
                /\ Continue(k, [old EXCEPT !.pc = "upsert", !.hash = h,
                                           !.id = IF @ = 0 THEN CHOOSE i \in FreshIds : TRUE ELSE @])
        /\ UNCHANGED <<diskVars, row, libraryVars, debounce, scanVars, faults>>

\* By id: a row that was deleted meanwhile stays deleted.
UpdateFileStats(k) ==
    LET p == task[k].path IN
    /\ task[k].pc = "stats"
    /\ row' = IF row[p].id = task[k].id
              THEN [row EXCEPT ![p].mtime = task[k].mtime, ![p].hash = task[k].hash] ELSE row
    /\ Return(k)
    /\ UNCHANGED <<diskVars, libraryVars, debounce, scanVars, faults>>

\* Mutant: the row gets the time the file has by now, not the one from before
\* it was hashed.
UpsertBookAtNewTime(k) ==
    LET p == task[k].path
        t == task[k]
    IN  /\ t.pc = "upsert"
        /\ row' = IF Indexed(p)
                  THEN [row EXCEPT ![p].mtime = file[p].mtime, ![p].hash = t.hash]
                  ELSE IF t.library = library
                  THEN [row EXCEPT ![p] = [id |-> t.id, library |-> t.library,
                                           mtime |-> file[p].mtime, hash |-> t.hash]]
                  ELSE row
        /\ Return(k)
        /\ UNCHANGED <<diskVars, libraryVars, debounce, scanVars, faults>>

\* Mutant: ON CONFLICT DO NOTHING.
InsertBook(k) ==
    LET p == task[k].path
        t == task[k]
    IN  /\ t.pc = "upsert"
        /\ row' = IF Indexed(p) \/ t.library # library THEN row
                  ELSE [row EXCEPT ![p] = [id |-> t.id, library |-> t.library,
                                           mtime |-> t.mtime, hash |-> t.hash]]
        /\ Return(k)
        /\ UNCHANGED <<diskVars, libraryVars, debounce, scanVars, faults>>

\* ON CONFLICT (path) the row keeps its id and library; an INSERT for a library
\* that was deleted fails on the foreign key.
UpsertBook(k) ==
    LET p == task[k].path
        t == task[k]
    IN  /\ t.pc = "upsert"
        /\ row' = IF Indexed(p)
                  THEN [row EXCEPT ![p].mtime = t.mtime, ![p].hash = t.hash]
                  ELSE IF t.library = library
                  THEN [row EXCEPT ![p] = [id |-> t.id, library |-> t.library, mtime |-> t.mtime,
                                           hash |-> t.hash]]
                  ELSE row
        /\ Return(k)
        /\ UNCHANGED <<diskVars, libraryVars, debounce, scanVars, faults>>

\* Mutant: a file that was not processed is not one the scan came across.
ProcessFailsForgets(k) ==
    /\ task[k].pc = "stat"
    /\ faults < MaxFaults
    /\ faults' = faults + 1
    /\ found' = [s \in Scans |-> IF s = k THEN found[s] \ {task[k].path} ELSE found[s]]
    /\ Return(k)
    /\ UNCHANGED <<diskVars, row, libraryVars, debounce, absent>>

\* A query fails, or the file does not parse (it may be half written): nothing was
\* changed until then, so that it may as well happen here.
ProcessFails(k) ==
    /\ task[k].pc = "stat"
    /\ faults < MaxFaults
    /\ faults' = faults + 1
    /\ Return(k)
    /\ UNCHANGED <<diskVars, row, libraryVars, debounce, scanVars>>

ProcessFile(k) ==
    Stat(k) \/ Look(k) \/ HashAndParse(k) \/ UpdateFileStats(k) \/ UpsertBook(k) \/ ProcessFails(k)

-----------------------------------------------------------------------------
(* ScanLibrary.                                                            *)

\* triggerScan, or the scan at start-up.
StartScan(s) ==
    /\ task[s].pc = "idle" /\ library # 0
    /\ task' = [task EXCEPT ![s] = [NoTask EXCEPT !.pc = "walk", !.path = 1, !.library = library]]
    /\ found' = [found EXCEPT ![s] = {}]
    /\ absent' = [absent EXCEPT ![s] = {p \in Paths : ~Readable(p)}]
    /\ UNCHANGED <<diskVars, row, libraryVars, debounce, faults>>

\* The walk comes to the folder of path p, ...
VisitFile(s) ==
    LET p == task[s].path IN
    /\ task[s].pc = "walk" /\ Readable(p)
    /\ found' = [found EXCEPT ![s] = @ \cup {p}]
    /\ task' = [task EXCEPT ![s].pc = "stat"]
    /\ UNCHANGED <<diskVars, row, libraryVars, debounce, absent, faults>>

\* ... where there is no file.
VisitNothing(s) ==
    /\ task[s].pc = "walk" /\ ~Readable(task[s].path)
    /\ Return(s)
    /\ UNCHANGED <<diskVars, row, libraryVars, debounce, scanVars, faults>>

\* ... or which cannot be read: a warning.
VisitUnreadable(s) ==
    /\ task[s].pc = "walk" /\ Readable(task[s].path)
    /\ faults < MaxFaults
    /\ faults' = faults + 1
    /\ absent' = [absent EXCEPT ![s] = @ \cup {task[s].path}]
    /\ Return(s)
    /\ UNCHANGED <<diskVars, row, libraryVars, debounce, found>>

EndScan(s) ==
    /\ task' = [task EXCEPT ![s] = NoTask]
    /\ found' = [found EXCEPT ![s] = {}]
    /\ absent' = [absent EXCEPT ![s] = {}]

\* The library's folder itself cannot be read.
WalkFails(s) ==
    /\ task[s].pc = "walk" /\ task[s].path = 1 /\ ~mounted
    /\ EndScan(s)
    /\ UNCHANGED <<diskVars, row, libraryVars, debounce, faults>>

\* CountBooks, and the refusal to empty the index.
CountBooks(s) ==
    /\ task[s].pc = "count"
    /\ IF found[s] = {} /\ \E p \in Paths : row[p].library = task[s].library
       THEN EndScan(s)
       ELSE task' = [task EXCEPT ![s].pc = "clean"] /\ UNCHANGED scanVars
    /\ UNCHANGED <<diskVars, row, libraryVars, debounce, faults>>

\* A nil slice is encoded as NULL, and NOT (path = ANY(NULL)) selects nothing.
NotIn(lib, paths) ==
    {p \in Paths : paths # {} /\ row[p].library = lib /\ p \notin paths}

DeleteBooksNotIn(s) ==
    /\ task[s].pc = "clean"
    /\ row' = [p \in Paths |-> IF p \in NotIn(task[s].library, found[s]) THEN NoRow ELSE row[p]]
    /\ EndScan(s)
    /\ UNCHANGED <<diskVars, libraryVars, debounce, faults>>

\* CountBooks, or DeleteBooksNotIn, returns an error.
QueryFails(s) ==
    /\ task[s].pc \in {"count", "clean"}
    /\ faults < MaxFaults
    /\ faults' = faults + 1
    /\ EndScan(s)
    /\ UNCHANGED <<diskVars, row, libraryVars, debounce>>

-----------------------------------------------------------------------------
(* Libraries and the process.                                              *)

\* The books go with the library (ON DELETE CASCADE); scans of it and the
\* watcher are not told.
DeleteLibrary ==
    /\ library # 0 /\ created < MaxLibrary
    /\ library' = 0
    /\ row' = [p \in Paths |-> NoRow]
    /\ UNCHANGED <<diskVars, created, watched, debounce, task, scanVars, faults>>

CreateLibrary ==
    /\ library = 0
    /\ library' = created + 1
    /\ created' = created + 1
    /\ watched' = Append(watched, created + 1)
    /\ UNCHANGED <<diskVars, row, debounce, task, scanVars, faults>>

\* main: EnsureDefaultLibrary brings a deleted library back, and the watcher
\* watches the libraries there are.
Restart ==
    /\ faults < MaxFaults
    /\ faults' = faults + 1
    /\ IF library # 0 THEN UNCHANGED <<library, created>>
       ELSE library' = created + 1 /\ created' = created + 1
    /\ watched' = <<library'>>
    /\ debounce' = [p \in Paths |-> NoTimer]
    /\ task' = [k \in Tasks |-> NoTask]
    /\ found' = [s \in Scans |-> {}]
    /\ absent' = [s \in Scans |-> {}]
    /\ UNCHANGED <<diskVars, row>>

ScanStep(s) ==
    \/ VisitFile(s) \/ VisitNothing(s) \/ VisitUnreadable(s) \/ WalkFails(s)
    \/ ProcessFile(s) \/ CountBooks(s) \/ DeleteBooksNotIn(s) \/ QueryFails(s)

TimerStep(t) == Fire(t) \/ ProcessFile(t) \/ DeleteBookByPath(t) \/ Forget(t)

Next ==
    \/ \E p \in Paths : WriteFile(p) \/ TouchFile(p) \/ RemoveFile(p)
    \/ Unmount \/ Mount
    \/ \E s \in Scans : StartScan(s) \/ ScanStep(s)
    \/ \E t \in Timers : TimerStep(t)
    \/ DeleteLibrary \/ CreateLibrary \/ Restart

Spec == Init /\ [][Next]_vars

\* Goroutines and timers run on; nobody has to change a file or ask for a scan.
FairSpec ==
    /\ Spec
    /\ \A s \in Scans : WF_vars(ScanStep(s))
    /\ \A t \in Timers : WF_vars(TimerStep(t))

-----------------------------------------------------------------------------
(* Properties.                                                             *)

\* The cheap check never skips a stale book: a row with the file's time holds
\* the hash of what the file contains, whichever processFiles crossed.  (The
\* hash is also the ETag of the pages.)
SkipIsSafe ==
    \A p \in Paths :
        Indexed(p) /\ row[p].mtime = file[p].mtime => row[p].hash = file[p].content

\* A file that could be read throughout a scan keeps its row, and the progress
\* and bookmarks that hang on it: though it does not parse, a query about it
\* fails, it is written or touched under the scan, timers process or delete it,
\* or its library is deleted and created again meanwhile.
PresentFilesKeepRows ==
    [][\A s \in Scans : DeleteBooksNotIn(s) =>
          \A p \in Paths : Indexed(p) /\ row'[p].id = 0 => p \in absent[s]]_vars

\* However scans, timers, deletions of the library and faults crossed: once the
\* files stand still, scanning again makes the index agree with the folder (with
\* an empty folder, which looks like a missing volume, it may not).
Agrees ==
    \A p \in Paths :
        IF file[p].there
        THEN Indexed(p) /\ row[p].library = library /\ row[p].hash = file[p].content
        ELSE ~Indexed(p)

Empty == \A p \in Paths : ~file[p].there

ScansConverge ==
    (\E s \in Scans : []<><<StartScan(s)>>_vars) /\ <>[]mounted => <>[](Agrees \/ Empty)

\* "removes DB entries for files that no longer exist on disk" (scanner.go:32):
\* a scan removes no row of a file that is there.
ScanRemovesOnlyVanished ==
    [][\A s \in Scans : DeleteBooksNotIn(s) =>
          \A p \in Paths : Indexed(p) /\ row'[p].id = 0 => ~Readable(p)]_vars
=============================================================================
