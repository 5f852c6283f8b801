------------------------------ MODULE BookCovers -----------------------------
(***************************************************************************)
(* The cover files of the books: one file of a library, its row in table   *)
(* books, and the folder "covers".  processFile writes a cover before it   *)
(* stores the row and removes the one it replaces; whoever deletes a row   *)
(* removes its cover afterwards; coverregen, a process of its own, gives a *)
(* row a new cover; the integrity check compares rows, files and covers.   *)
(* None of them takes a lock.                                              *)
(*                                                                         *)
(* A cover is named by an id and an extension, and what is in it by the    *)
(* version of the book's file that it was made from.  Which rows a scan    *)
(* processes or deletes, and when, is LibraryIndex's subject.              *)
(***************************************************************************)
EXTENDS Naturals, FiniteSets

CONSTANTS
    Tasks,       \* goroutines of scans and timers
    Exts,        \* extensions of cover files
    NoCover,     \* cover_path is ""
    MaxVersion,  \* bound: versions of the file
    MaxIds,      \* bound: ids in use at one time
    MaxLibrary,  \* bound: how often the library is created
    MaxStarts,   \* bound: how often a writer of covers starts
    MaxFaults    \* bound: deaths of a process, failing writes and statements

ASSUME CoversAssumption ==
    /\ NoCover \notin (1..MaxIds) \X Exts
    /\ MaxVersion \in Nat /\ MaxIds \in Nat /\ MaxLibrary \in Nat \ {0}
    /\ MaxStarts \in Nat /\ MaxFaults \in Nat

VARIABLES
    file,     \* the book's file: its version, 0 for no file, and its cover
    clock,    \* versions there were
    library,  \* id of the library's row, 0 if there is none
    made,     \* libraries there were
    row,      \* the book's row
    covers,   \* the folder of covers
    task,     \* where each goroutine is, and its locals
    regen,    \* the same of coverregen
    check,    \* the same of the integrity check
    crossed,  \* ghost: two writers overlapped since one that ran alone stored the row
    littered, \* ghost: writers overlapped, one failed, or the library was deleted
    starts,   \* writers started
    faults    \* faults there were

disk   == <<file, clock>>
libs   == <<library, made>>
tally  == <<crossed, littered, starts>>
vars   == <<disk, libs, row, covers, task, regen, check, tally, faults>>

Versions == 0..MaxVersion
Ids      == 1..MaxIds
Names    == Ids \X Exts
Cover    == Names \cup {NoCover}

File    == [version: Versions, ext: Exts \cup {"none"}]
Row     == [id: {0} \cup Ids, library: 0..MaxLibrary, hash: Versions, cover: Cover]
\* of: 0 if the file is torn.
Content == [there: BOOLEAN, of: Versions]
Task    == [pc: {"idle", "hash", "stats", "open", "save", "upsert", "supersede", "unlink"},
            library: 0..MaxLibrary, id: {0} \cup Ids, hash: Versions, old: Cover,
            of: Versions, cover: Cover, alone: BOOLEAN]
Regen   == [pc: {"idle", "open", "write", "update", "remove"},
            id: {0} \cup Ids, old: Cover, of: Versions, cover: Cover]
Issue   == {"unknown_library", "missing_file", "size_changed", "missing_cover",
            "missing_cover_file", "unindexed_file", "orphan_cover"}
Check   == [pc: {"idle", "rows", "books", "files", "covers", "done"},
            library: 0..MaxLibrary, row: Row, issues: SUBSET Issue]

NoRow   == [id |-> 0, library |-> 0, hash |-> 0, cover |-> NoCover]
Gone    == [there |-> FALSE, of |-> 0]
Torn    == [there |-> TRUE, of |-> 0]
NoTask  == [pc |-> "idle", library |-> 0, id |-> 0, hash |-> 0, old |-> NoCover,
            of |-> 0, cover |-> NoCover, alone |-> FALSE]
NoRegen == [pc |-> "idle", id |-> 0, old |-> NoCover, of |-> 0, cover |-> NoCover]
NoCheck == [pc |-> "idle", library |-> 0, row |-> NoRow, issues |-> {}]

Init ==
    /\ file = [version |-> 0, ext |-> "none"]
    /\ clock = 0
    /\ library = 1 /\ made = 1
    /\ row = NoRow
    /\ covers = [n \in Names |-> Gone]
    /\ task = [k \in Tasks |-> NoTask]
    /\ regen = NoRegen
    /\ check = NoCheck
    /\ crossed = FALSE /\ littered = FALSE
    /\ starts = 0 /\ faults = 0

TypeOK ==
    /\ file \in File
    /\ clock \in Versions
    /\ library \in 0..made /\ made \in 1..MaxLibrary
    /\ row \in Row
    /\ covers \in [Names -> Content]
    /\ task \in [Tasks -> Task]
    /\ regen \in Regen
    /\ check \in Check
    /\ crossed \in BOOLEAN /\ littered \in BOOLEAN
    /\ starts \in 0..MaxStarts /\ faults \in 0..MaxFaults
    /\ row.id = 0 => row = NoRow
    /\ row.id # 0 => row.library = library /\ library # 0 /\ row.hash # 0

Exists  == file.version # 0
Indexed == row.id # 0
Resting == regen.pc = "idle" /\ \A k \in Tasks : task[k].pc = "idle"

\* db.NewUUID, and coverregen's randomID: an id nobody uses.
InUse == {row.id, regen.id} \cup {task[k].id : k \in Tasks}
         \cup {n[1] : n \in {m \in Names : \/ covers[m].there
                                           \/ m \in {row.cover, regen.old, regen.cover}
                                           \/ \E k \in Tasks : m \in {task[k].old, task[k].cover}}}
FreshId == CHOOSE i \in Ids : i \notin InUse

Remove(n) == IF n = NoCover THEN covers ELSE [covers EXCEPT ![n] = Gone]
Write(n, v) == IF n = NoCover THEN covers ELSE [covers EXCEPT ![n] = [there |-> TRUE, of |-> v]]

Fault == faults < MaxFaults /\ faults' = faults + 1

\* A writer starts; if another one is at work, they overlap.
Overlap ==
    /\ starts < MaxStarts /\ starts' = starts + 1
    /\ crossed' = (crossed \/ ~Resting) /\ littered' = (littered \/ ~Resting)

-----------------------------------------------------------------------------
(* The file and the library.                                               *)

\* The converter or a user writes the file anew, with whatever cover.
WriteFile ==
    /\ clock < MaxVersion
    /\ clock' = clock + 1
    /\ \E ext \in Exts \cup {"none"} : file' = [version |-> clock', ext |-> ext]
    /\ UNCHANGED <<libs, row, covers, task, regen, tally, faults>>

RemoveFile ==
    /\ Exists
    /\ file' = [version |-> 0, ext |-> "none"]
    /\ UNCHANGED <<clock, libs, row, covers, task, regen, tally, faults>>

\* Mutant: the rows stay.
DeleteLibraryOnly ==
    /\ library # 0
    /\ library' = 0
    /\ littered' = TRUE
    /\ UNCHANGED <<disk, made, row, covers, task, regen, crossed, starts, faults>>

\* The rows go (ON DELETE CASCADE), the covers stay.
DeleteLibrary ==
    /\ library # 0
    /\ library' = 0
    /\ row' = NoRow
    /\ littered' = TRUE
    /\ UNCHANGED <<disk, made, covers, task, regen, crossed, starts, faults>>

\* createLibrary for the same folder.
CreateLibrary ==
    /\ library = 0 /\ made < MaxLibrary
    /\ made' = made + 1
    /\ library' = made'
    /\ UNCHANGED <<disk, row, covers, task, regen, tally, faults>>

-----------------------------------------------------------------------------
(* processFile.                                                            *)

Step(k, next) == task' = [task EXCEPT ![k] = next]
Return(k)     == Step(k, NoTask)

Start(k, next) ==
    /\ Overlap
    /\ task' = [j \in Tasks |-> IF j = k THEN [next EXCEPT !.alone = Resting]
                                         ELSE [task[j] EXCEPT !.alone = FALSE]]

\* os.Stat and GetBookByPath.  (If the file looks unchanged it returns at once.)  A scan
\* goes on with the library it was started for, which may have been deleted since.
ProcessFile(k) ==
    /\ task[k].pc = "idle" /\ Exists
    /\ \E id \in 1..made :
          Start(k, [NoTask EXCEPT !.pc = "hash", !.library = id, !.id = row.id,
                                  !.hash = row.hash, !.old = row.cover])
    /\ UNCHANGED <<disk, libs, row, covers, regen, faults>>

\* hashFile, and its comparison with the row that was found.
HashFile(k) ==
    LET t == task[k] IN
    /\ t.pc = "hash"
    /\ CASE ~Exists -> Return(k)
         [] Exists /\ t.id # 0 /\ t.hash = file.version -> Step(k, [t EXCEPT !.pc = "stats"])
         [] OTHER -> /\ t.id = 0 => Ids \ InUse # {}
                     /\ Step(k, [t EXCEPT !.pc = "open", !.hash = file.version,
                                          !.id = IF @ = 0 THEN FreshId ELSE @])
    /\ UNCHANGED <<disk, libs, row, covers, regen, tally, faults>>

UpdateFileStats(k) ==
    /\ task[k].pc = "stats"
    /\ row' = IF row.id = task[k].id THEN [row EXCEPT !.hash = task[k].hash] ELSE row
    /\ Return(k)
    /\ UNCHANGED <<disk, libs, covers, regen, tally, faults>>

\* extractCover; and Downscale, which settles the type of the image.
HasCover == file.ext # "none"
CoverName(id) == <<id, file.ext>>

\* epub.Open reads the file again, with the cover in it.
Open(k) ==
    /\ task[k].pc = "open"
    /\ IF Exists
       THEN Step(k, [task[k] EXCEPT !.pc = "save", !.of = file.version,
                        !.cover = IF HasCover THEN CoverName(task[k].id) ELSE NoCover])
       ELSE Return(k)
    /\ UNCHANGED <<disk, libs, row, covers, regen, tally, faults>>

SaveCover(k) ==
    /\ task[k].pc = "save"
    /\ covers' = Write(task[k].cover, task[k].of)
    /\ Step(k, [task[k] EXCEPT !.pc = "upsert"])
    /\ UNCHANGED <<disk, libs, row, regen, tally, faults>>

\* The cover cannot be written, or not to its end: the book gets none.
SaveFails(k) ==
    /\ task[k].pc = "save" /\ task[k].cover # NoCover
    /\ Fault /\ littered' = TRUE
    /\ covers' \in {covers, [covers EXCEPT ![task[k].cover] = Torn]}
    /\ Step(k, [task[k] EXCEPT !.pc = "upsert", !.cover = NoCover])
    /\ UNCHANGED <<disk, libs, row, regen, crossed, starts>>

\* ON CONFLICT (path) the row keeps its id; an INSERT for a deleted library fails.
UpsertBook(k) ==
    LET t == task[k] IN
    /\ t.pc = "upsert"
    /\ IF Indexed \/ t.library = library
       THEN /\ row' = IF Indexed THEN [row EXCEPT !.hash = t.hash, !.cover = t.cover]
                      ELSE [id |-> t.id, library |-> library, hash |-> t.hash, cover |-> t.cover]
            /\ Step(k, [t EXCEPT !.pc = "supersede"])
       ELSE Return(k) /\ UNCHANGED row
    /\ UNCHANGED <<disk, libs, covers, regen, tally, faults>>

UpsertFails(k) ==
    /\ task[k].pc = "upsert"
    /\ Fault /\ littered' = TRUE
    /\ Return(k)
    /\ UNCHANGED <<disk, libs, row, covers, regen, crossed, starts>>

\* Mutant: the replaced cover goes whatever its name.
SupersededAlways(t) == t.old

\* The cover the row had, if the new one has another name, and processFile returns.
Superseded(t) == IF t.old = t.cover THEN NoCover ELSE t.old

RemoveSuperseded(k) ==
    /\ task[k].pc = "supersede"
    /\ covers' = Remove(Superseded(task[k]))
    /\ crossed' = (crossed /\ ~task[k].alone)
    /\ Return(k)
    /\ UNCHANGED <<disk, libs, row, regen, littered, starts, faults>>

-----------------------------------------------------------------------------
(* A removal: DeleteBookByPath for a timer, DeleteBooksNotIn for a scan.   *)

DeleteRow(k) ==
    /\ task[k].pc = "idle" /\ Indexed
    /\ row' = NoRow
    /\ Start(k, [NoTask EXCEPT !.pc = "unlink", !.old = row.cover])
    /\ UNCHANGED <<disk, libs, covers, regen, faults>>

RemoveCover(k) ==
    /\ task[k].pc = "unlink"
    /\ covers' = Remove(task[k].old)
    /\ Return(k)
    /\ UNCHANGED <<disk, libs, row, regen, tally, faults>>

\* os.Remove fails: a warning.
RemoveFails(k) ==
    /\ task[k].pc \in {"supersede", "unlink"}
    /\ Fault /\ littered' = TRUE
    /\ Return(k)
    /\ UNCHANGED <<disk, libs, row, covers, regen, crossed, starts>>

\* The server dies.
Crash ==
    /\ \E k \in Tasks : task[k].pc # "idle"
    /\ Fault /\ littered' = TRUE
    /\ task' = [k \in Tasks |-> NoTask]
    /\ UNCHANGED <<disk, libs, row, covers, regen, crossed, starts>>

-----------------------------------------------------------------------------
(* coverregen, at this book; all rows were read when it started.           *)

RegenStart ==
    /\ regen.pc = "idle" /\ Indexed
    /\ Overlap
    /\ regen' = [NoRegen EXCEPT !.pc = "open", !.id = row.id, !.old = row.cover]
    /\ task' = [k \in Tasks |-> [task[k] EXCEPT !.alone = FALSE]]
    /\ UNCHANGED <<disk, libs, row, covers, faults>>

RegenOpen ==
    /\ regen.pc = "open"
    /\ IF HasCover
       THEN /\ Ids \ InUse # {}
            /\ regen' = [regen EXCEPT !.pc = "write", !.of = file.version,
                                      !.cover = CoverName(FreshId)]
       ELSE regen' = NoRegen
    /\ UNCHANGED <<disk, libs, row, covers, task, tally, faults>>

RegenWrite ==
    /\ regen.pc = "write"
    /\ covers' = Write(regen.cover, regen.of)
    /\ regen' = [regen EXCEPT !.pc = "update"]
    /\ UNCHANGED <<disk, libs, row, task, tally, faults>>

\* By id: if the row is gone, nothing is updated, and that is no error.
RegenUpdate ==
    /\ regen.pc = "update"
    /\ row' = IF row.id = regen.id THEN [row EXCEPT !.cover = regen.cover] ELSE row
    /\ regen' = [regen EXCEPT !.pc = "remove"]
    /\ UNCHANGED <<disk, libs, covers, task, tally, faults>>

RegenRemove ==
    /\ regen.pc = "remove"
    /\ covers' = Remove(regen.old)
    /\ regen' = NoRegen
    /\ UNCHANGED <<disk, libs, row, task, tally, faults>>

\* A write fails and may leave a torn file, the UPDATE fails and the new file is
\* removed, or the process dies.
RegenFails ==
    /\ regen.pc # "idle"
    /\ Fault /\ littered' = TRUE
    /\ \/ regen.pc = "write" /\ covers' = Write(regen.cover, 0)
       \/ regen.pc = "update" /\ covers' = Remove(regen.cover)
       \/ UNCHANGED covers
    /\ regen' = NoRegen
    /\ UNCHANGED <<disk, libs, row, task, crossed, starts>>

-----------------------------------------------------------------------------
(* checkLibraryIntegrity.  Issues with a book's contents are left out, and *)
(* those of paths that cannot be looked at or are not what they should be. *)

Found(issues, pc) == check' = [check EXCEPT !.pc = pc, !.issues = @ \cup issues]

\* The libraries, and then the rows.
CheckLibraries ==
    /\ check.pc \in {"idle", "done"}
    /\ check' = [NoCheck EXCEPT !.pc = "rows", !.library = library]

CheckRows ==
    /\ check.pc = "rows"
    /\ check' = [check EXCEPT !.pc = "books", !.row = row]

Known == check.row.id # 0 /\ check.row.library = check.library

\* A row whose file and whose cover are looked at; a changed file may have kept its
\* size.
CheckBooks ==
    /\ check.pc = "books"
    /\ CASE check.row.id = 0 -> Found({}, "files")
         [] check.row.id # 0 /\ ~Known -> Found({"unknown_library"}, "files")
         [] Known /\ ~Exists -> Found({"missing_file"}, "files")
         [] OTHER ->
              \E changed \in {{}, {"size_changed"}} :
                 /\ changed # {} => check.row.hash # file.version
                 /\ Found(changed \cup
                          IF check.row.cover = NoCover THEN {"missing_cover"}
                          ELSE IF covers[check.row.cover].there THEN {}
                          ELSE {"missing_cover_file"}, "files")

CheckFiles ==
    /\ check.pc = "files"
    /\ Found(IF check.library # 0 /\ Exists /\ ~Known THEN {"unindexed_file"} ELSE {}, "covers")

\* Mutant: a book whose file is missing does not count.
ReferencesIfThere(n) ==
    Known /\ "missing_file" \notin check.issues /\ check.row.cover = n

References(n) == Known /\ check.row.cover = n

CheckCovers ==
    /\ check.pc = "covers"
    /\ Found(IF \E n \in Names : covers[n].there /\ ~References(n) THEN {"orphan_cover"} ELSE {},
             "done")

CheckStep == CheckLibraries \/ CheckRows \/ CheckBooks \/ CheckFiles \/ CheckCovers

TaskStep(k) ==
    \/ ProcessFile(k) \/ HashFile(k) \/ UpdateFileStats(k) \/ Open(k)
    \/ SaveCover(k) \/ SaveFails(k) \/ UpsertBook(k) \/ UpsertFails(k) \/ RemoveSuperseded(k)
    \/ DeleteRow(k) \/ RemoveCover(k) \/ RemoveFails(k)

RegenStep ==
    RegenStart \/ RegenOpen \/ RegenWrite \/ RegenUpdate \/ RegenRemove \/ RegenFails

\* A check writes nothing, so one under which its subject changes is not followed
\* further: its report may mix old and new.
Disturb ==
    check' = IF <<file, library, row, covers>>' = <<file, library, row, covers>>
             THEN check ELSE NoCheck

Next ==
    \/ /\ \/ WriteFile \/ RemoveFile \/ DeleteLibrary \/ CreateLibrary \/ Crash \/ RegenStep
          \/ \E k \in Tasks : TaskStep(k)
       /\ Disturb
    \/ CheckStep /\ UNCHANGED <<disk, libs, row, covers, task, regen, tally, faults>>

Spec == Init /\ [][Next]_vars

-----------------------------------------------------------------------------
(* Properties.                                                             *)

\* A row's cover is there, and unless its last write failed it is not older than
\* the row's hash, under whose ETag it is served.  Writers that overlap can break
\* this; one that runs alone repairs it, whatever it finds.
CoverServed ==
    Indexed /\ row.cover # NoCover /\ ~crossed =>
        /\ covers[row.cover].there
        /\ covers[row.cover] = Torn \/ covers[row.cover].of >= row.hash

\* If nobody failed, overlapped or deleted the library, no cover is left over,
\* whatever sequence of rewrites, removals and regenerations there was.
NothingLeftOver ==
    Resting /\ ~littered =>
        \A n \in Names : covers[n].there => Indexed /\ row.cover = n

CoversMatchRow == CoverServed /\ NothingLeftOver

\* What is wrong, by the README's words: files and covers that are not accessible,
\* files of a library that are not in the index, covers that no book refers to.
Discrepancies ==
    {i \in Issue :
        \/ i = "missing_file"       /\ Indexed /\ ~Exists
        \/ i = "missing_cover"      /\ Indexed /\ Exists /\ row.cover = NoCover
        \/ i = "missing_cover_file" /\ Indexed /\ Exists /\ row.cover # NoCover
                                    /\ ~covers[row.cover].there
        \/ i = "unindexed_file"     /\ library # 0 /\ Exists /\ ~Indexed
        \/ i = "orphan_cover"       /\ {n \in Names : covers[n].there} \ {row.cover} # {}}

\* An integrity check under which nothing changed reports what is wrong, and
\* nothing else, in whatever state crossings and failures have left the library.
ReportExact ==
    check.pc = "done" => check.issues \ {"size_changed"} = Discrepancies
=============================================================================
