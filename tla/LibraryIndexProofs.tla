-------------------------- MODULE LibraryIndexProofs -------------------------
(***************************************************************************)
(* The index of a library never takes a changed file for an unchanged one, *)
(* and a scan never removes the row of a file that was there throughout:   *)
(* for any number of files, scans and timers, and however they and the     *)
(* users' changes interleave.                                              *)
(***************************************************************************)
EXTENDS LibraryIndex, SequenceTheorems, TLAPS

\* The goroutines that are about a path.
Placed(k) == task[k].pc \notin {"idle", "count", "clean"}

TypeInv ==
    /\ TypeOK
    /\ library = 0 => created < MaxLibrary
    /\ \A k \in Tasks : Placed(k) => task[k].path \in Paths

-----------------------------------------------------------------------------
(* Types.                                                                  *)

LEMMA NoTaskType == NoTask \in Task /\ NoRow \in Row /\ NoFile \in File
<1>1. 0 \in Time /\ 0 \in 0..MaxLibrary
  BY IndexAssumption DEF Time
<1> QED BY <1>1 DEF NoTask, NoRow, NoFile, Task, Row, File

\* What a goroutine goes on with after one path.
LEMMA ReturnedType ==
    ASSUME TypeInv, NEW k \in Tasks, Placed(k)
    PROVE  /\ Returned(k) \in Task
           /\ Returned(k).pc \in {"ended", "count", "walk"}
           /\ Returned(k).pc # "count" => Returned(k).path \in Paths
           /\ Returned(k).mtime = 0
<1>1. task[k] \in Task /\ task[k].path \in Paths
  BY DEF TypeInv, TypeOK
<1>2. 0 \in Time /\ 0 \in 0..MaxLibrary /\ task[k].library \in 0..MaxLibrary
  BY <1>1, IndexAssumption DEF Time, Task
<1>3. CASE k \in Timers
  <2>1. Returned(k) = [NoTask EXCEPT !.pc = "ended", !.path = task[k].path]
    BY <1>3 DEF Returned
  <2> QED BY <2>1, <1>1, <1>2 DEF Task, NoTask
<1>4. CASE k \notin Timers /\ task[k].path = N
  <2>1. Returned(k) = [NoTask EXCEPT !.pc = "count", !.library = task[k].library]
    BY <1>4 DEF Returned
  <2> QED BY <2>1, <1>1, <1>2 DEF Task, NoTask
<1>5. CASE k \notin Timers /\ task[k].path # N
  <2>1. Returned(k) = [NoTask EXCEPT !.pc = "walk", !.library = task[k].library,
                                     !.path = task[k].path + 1]
    BY <1>5 DEF Returned
  <2>2. task[k].path + 1 \in Paths
    BY <1>1, <1>5, IndexAssumption DEF Paths
  <2> QED BY <2>1, <2>2, <1>1, <1>2 DEF Task, NoTask
<1> QED BY <1>3, <1>4, <1>5

\* The timers of the debounce map, stopped and armed anew.
LEMMA StoppedType ==
    ASSUME TypeInv, NEW p \in Paths
    PROVE  /\ Stopped(p) \in [Tasks -> Task]
           /\ \A k \in Tasks : Stopped(p)[k] \in {task[k], NoTask}
<1>1. task \in [Tasks -> Task] /\ debounce[p] \in Timers \cup {NoTimer}
  BY DEF TypeInv, TypeOK
<1>2. CASE debounce[p] # NoTimer /\ Armed(debounce[p])
  <2>1. Stopped(p) = [task EXCEPT ![debounce[p]] = NoTask]
    BY <1>2 DEF Stopped
  <2> QED BY <2>1, <1>1, NoTaskType
<1>3. CASE ~(debounce[p] # NoTimer /\ Armed(debounce[p]))
  <2>1. Stopped(p) = task
    BY <1>3 DEF Stopped
  <2> QED BY <2>1, <1>1
<1> QED BY <1>2, <1>3

\* An event of the watcher leaves a goroutine alone, ends its timer, or arms
\* one whose task has looked at nothing yet.
LEMMA EventType ==
    ASSUME TypeInv, NEW p \in Paths, NEW op \in {"process", "delete"}, HandleEvent(p, op)
    PROVE  /\ task' \in [Tasks -> Task]
           /\ debounce' \in [Paths -> Timers \cup {NoTimer}]
           /\ \A k \in Tasks :
                 \/ task'[k] = task[k]
                 \/ task'[k] = NoTask
                 \/ task'[k].pc = op /\ task'[k].path = p /\ task'[k].mtime = 0
<1>1. task \in [Tasks -> Task] /\ debounce \in [Paths -> Timers \cup {NoTimer}]
  BY DEF TypeInv, TypeOK
<1>2. CASE UNCHANGED <<debounce, task>>
  BY <1>1, <1>2
<1>3. CASE ~UNCHANGED <<debounce, task>>
  <2>1. PICK lib \in 0..MaxLibrary : DebounceOp(p, op, lib)
    <3>1. CASE op = "delete" /\ DebounceOp(p, op, 0)
      BY <3>1, IndexAssumption
    <3>2. CASE watched # <<>> /\ DebounceOp(p, op, Head(watched))
      <4>1. watched \in Seq(1..MaxLibrary)
        BY DEF TypeInv, TypeOK
      <4>2. Head(watched) \in 1..MaxLibrary
        BY <4>1, <3>2, HeadTailProperties
      <4>3. Head(watched) \in 0..MaxLibrary
        BY <4>2, IndexAssumption
      <4> QED BY <3>2, <4>3
    <3> QED BY <1>3, <3>1, <3>2 DEF HandleEvent
  <2>2. PICK t \in Timers :
           /\ task' = [Stopped(p) EXCEPT ![t] = [NoTask EXCEPT !.pc = op, !.path = p,
                                                               !.library = lib]]
           /\ debounce' = [debounce EXCEPT ![p] = t]
    <3> DEFINE free == {t \in Timers : Stopped(p)[t].pc = "idle"}
    <3>1. free # {} /\ (CHOOSE u \in free : TRUE) \in free
      BY <2>1 DEF DebounceOp
    <3>2. /\ task' = [Stopped(p) EXCEPT ![CHOOSE u \in free : TRUE] =
                          [NoTask EXCEPT !.pc = op, !.path = p, !.library = lib]]
          /\ debounce' = [debounce EXCEPT ![p] = CHOOSE u \in free : TRUE]
      BY <2>1 DEF DebounceOp
    <3> QED BY <3>1, <3>2
  <2>3. [NoTask EXCEPT !.pc = op, !.path = p, !.library = lib] \in Task
    BY NoTaskType DEF Task, NoTask
  <2>4. t \in Tasks
    BY DEF Tasks
  <2>5. task' \in [Tasks -> Task]
    BY <2>2, <2>3, <2>4, StoppedType
  <2>6. debounce' \in [Paths -> Timers \cup {NoTimer}]
    BY <2>2, <1>1
  <2>7. ASSUME NEW k \in Tasks
        PROVE  \/ task'[k] \in {task[k], NoTask}
               \/ task'[k] = [NoTask EXCEPT !.pc = op, !.path = p, !.library = lib]
    BY <2>2, <2>4, StoppedType
  <2>8. LET new == [NoTask EXCEPT !.pc = op, !.path = p, !.library = lib] IN
        new.pc = op /\ new.path = p /\ new.mtime = 0
    BY DEF NoTask
  <2> QED BY <2>5, <2>6, <2>7, <2>8
<1> QED BY <1>2, <1>3

\* A step that changes neither the table of libraries nor, where it is about a
\* path, the paths, keeps TypeInv as soon as it keeps the types of what it sets.
LEMMA TaskStepType ==
    ASSUME TypeInv, UNCHANGED <<mounted, libraryVars>>,
           clock' \in Time, file' \in [Paths -> File], row' \in [Paths -> Row],
           debounce' \in [Paths -> Timers \cup {NoTimer}], task' \in [Tasks -> Task],
           found' \in [Scans -> SUBSET Paths], absent' \in [Scans -> SUBSET Paths],
           faults' \in 0..MaxFaults,
           \A k \in Tasks : \/ task'[k].pc \in {"idle", "count", "clean"}
                            \/ task'[k].path \in Paths
    PROVE  TypeInv'
<1>1. TypeOK'
  BY DEF TypeInv, TypeOK, libraryVars
<1>2. (library = 0 => created < MaxLibrary)'
  BY DEF TypeInv, libraryVars
<1>3. (\A k \in Tasks : Placed(k) => task[k].path \in Paths)'
  BY DEF Placed, Tasks
<1> QED BY <1>1, <1>2, <1>3 DEF TypeInv

\* One goroutine goes on, or returns.
LEMMA ContinueType ==
    ASSUME TypeInv, NEW k \in Tasks, NEW to \in Task,
           task' = [task EXCEPT ![k] = to],
           to.pc \notin {"idle", "count", "clean"} => to.path \in Paths
    PROVE  /\ task' \in [Tasks -> Task]
           /\ \A j \in Tasks : \/ task'[j].pc \in {"idle", "count", "clean"}
                               \/ task'[j].path \in Paths
<1>1. task \in [Tasks -> Task]
  BY DEF TypeInv, TypeOK
<1>2. task' \in [Tasks -> Task]
  BY <1>1
<1>3. ASSUME NEW j \in Tasks
      PROVE  task'[j].pc \in {"idle", "count", "clean"} \/ task'[j].path \in Paths
  <2>1. CASE j = k
    BY <2>1, <1>1
  <2>2. CASE j # k
    <3>1. task'[j] = task[j]
      BY <2>2, <1>1
    <3> QED BY <3>1 DEF TypeInv, Placed
  <2> QED BY <2>1, <2>2
<1> QED BY <1>2, <1>3

LEMMA ReturnType ==
    ASSUME TypeInv, NEW k \in Tasks, Placed(k), Return(k)
    PROVE  /\ task' \in [Tasks -> Task]
           /\ \A j \in Tasks : \/ task'[j].pc \in {"idle", "count", "clean"}
                               \/ task'[j].path \in Paths
<1>1. /\ Returned(k) \in Task
      /\ Returned(k).pc \notin {"idle", "count", "clean"} => Returned(k).path \in Paths
  BY ReturnedType
<1>2. task' = [task EXCEPT ![k] = Returned(k)]
  BY DEF Return
<1> HIDE DEF Returned
<1> QED BY <1>1, <1>2, ContinueType

\* processFile.
LEMMA ProcessFileType ==
    ASSUME TypeInv, NEW k \in Tasks, ProcessFile(k),
           absent' \in [Scans -> SUBSET Paths]
    PROVE  TypeInv'
<1>1. /\ task \in [Tasks -> Task] /\ task[k] \in Task
      /\ file \in [Paths -> File] /\ row \in [Paths -> Row] /\ clock \in Time
      /\ debounce \in [Paths -> Timers \cup {NoTimer}]
      /\ found \in [Scans -> SUBSET Paths] /\ faults \in 0..MaxFaults
  BY DEF TypeInv, TypeOK
<1>2. task[k].pc \in {"stat", "look", "hash", "stats", "upsert"}
  BY DEF ProcessFile, Stat, Look, HashAndParse, UpdateFileStats, UpsertBook, ProcessFails
<1>3. Placed(k) /\ task[k].path \in Paths
  BY <1>2 DEF Placed, TypeInv
<1>4. UNCHANGED <<mounted, libraryVars, clock, file, debounce, found>>
  BY DEF ProcessFile, Stat, Look, HashAndParse, UpdateFileStats, UpsertBook, ProcessFails,
         diskVars, scanVars
<1> DEFINE p == task[k].path
<1>5. file[p] \in File /\ row[p] \in Row
  BY <1>1, <1>3
<1> DEFINE Tasked == /\ task' \in [Tasks -> Task]
                     /\ \A j \in Tasks : \/ task'[j].pc \in {"idle", "count", "clean"}
                                         \/ task'[j].path \in Paths
<1>6. faults' \in 0..MaxFaults
  <2>1. CASE ProcessFails(k)
    <3>1. faults \in Nat /\ faults + 1 <= MaxFaults /\ faults' = faults + 1
      BY <2>1, <1>1, IndexAssumption DEF ProcessFails
    <3> QED BY <3>1, IndexAssumption
  <2>2. CASE ~ProcessFails(k)
    <3>1. faults' = faults
      BY <2>2 DEF ProcessFile, Stat, Look, HashAndParse, UpdateFileStats, UpsertBook
    <3> QED BY <3>1, <1>1
  <2> QED BY <2>1, <2>2
<1>7. Return(k) => Tasked
  BY <1>3, ReturnType
<1>8. Tasked /\ row' \in [Paths -> Row]
  <2>1. CASE Stat(k)
    <3>1. row' = row
      BY <2>1 DEF Stat
    <3>2. CASE Continue(k, [task[k] EXCEPT !.pc = "look", !.mtime = file[p].mtime])
      <4> DEFINE to == [task[k] EXCEPT !.pc = "look", !.mtime = file[p].mtime]
      <4>1. to \in Task /\ to.path = p
        BY <1>1, <1>5 DEF Task, File
      <4>2. task' = [task EXCEPT ![k] = to]
        BY <3>2 DEF Continue
      <4> HIDE DEF to
      <4> QED BY <4>1, <4>2, <3>1, <1>1, <1>3, ContinueType
    <3> QED BY <2>1, <3>1, <3>2, <1>1, <1>7 DEF Stat
  <2>2. CASE Look(k)
    <3>1. row' = row
      BY <2>2 DEF Look
    <3>2. CASE Continue(k, [task[k] EXCEPT !.pc = "hash", !.id = row[p].id, !.hash = row[p].hash])
      <4> DEFINE to == [task[k] EXCEPT !.pc = "hash", !.id = row[p].id, !.hash = row[p].hash]
      <4>1. to \in Task /\ to.path = p
        BY <1>1, <1>5 DEF Task, Row
      <4>2. task' = [task EXCEPT ![k] = to]
        BY <3>2 DEF Continue
      <4> HIDE DEF to
      <4> QED BY <4>1, <4>2, <3>1, <1>1, <1>3, ContinueType
    <3> QED BY <2>2, <3>1, <3>2, <1>1, <1>7 DEF Look
  <2>3. CASE HashAndParse(k)
    <3>1. row' = row
      BY <2>3 DEF HashAndParse
    <3>2. CASE Continue(k, [task[k] EXCEPT !.pc = "stats"])
      <4> DEFINE to == [task[k] EXCEPT !.pc = "stats"]
      <4>1. to \in Task /\ to.path = p
        BY <1>1 DEF Task
      <4>2. task' = [task EXCEPT ![k] = to]
        BY <3>2 DEF Continue
      <4> HIDE DEF to
      <4> QED BY <4>1, <4>2, <3>1, <1>1, <1>3, ContinueType
    <3>3. ASSUME NEW i \in BookIds \cup {0},
                 Continue(k, [task[k] EXCEPT !.pc = "upsert", !.hash = file[p].content, !.id = i])
          PROVE  Tasked
      <4> DEFINE to == [task[k] EXCEPT !.pc = "upsert", !.hash = file[p].content, !.id = i]
      <4>1. to \in Task /\ to.path = p
        BY <1>1, <1>5 DEF Task, File
      <4>2. task' = [task EXCEPT ![k] = to]
        BY <3>3 DEF Continue
      <4> HIDE DEF to
      <4> QED BY <4>1, <4>2, <1>3, ContinueType
    <3>4. CASE /\ task[k].id = 0 => FreshIds # {}
               /\ Continue(k, [task[k] EXCEPT !.pc = "upsert", !.hash = file[p].content,
                                  !.id = IF @ = 0 THEN CHOOSE i \in FreshIds : TRUE ELSE @])
      <4> DEFINE i == IF task[k].id = 0 THEN CHOOSE n \in FreshIds : TRUE ELSE task[k].id
      <4>1. i \in BookIds \cup {0}
        <5>1. task[k].id \in {0} \cup BookIds
          BY <1>1 DEF Task
        <5>2. task[k].id = 0 => (CHOOSE n \in FreshIds : TRUE) \in FreshIds
          BY <3>4
        <5>3. FreshIds \subseteq BookIds
          BY DEF FreshIds
        <5> QED BY <5>1, <5>2, <5>3
      <4>2. Continue(k, [task[k] EXCEPT !.pc = "upsert", !.hash = file[p].content, !.id = i])
        BY <3>4
      <4> HIDE DEF i
      <4> QED BY <4>1, <4>2, <3>1, <3>3, <1>1
    <3> QED BY <2>3, <3>1, <3>2, <3>4, <1>1, <1>7 DEF HashAndParse
  <2>4. CASE UpdateFileStats(k)
    <3>1. Return(k)
      BY <2>4 DEF UpdateFileStats
    <3>2. [row[p] EXCEPT !.mtime = task[k].mtime, !.hash = task[k].hash] \in Row
      BY <1>1, <1>5 DEF Task, Row
    <3>3. \/ row' = row
          \/ row' = [row EXCEPT ![p].mtime = task[k].mtime, ![p].hash = task[k].hash]
      BY <2>4 DEF UpdateFileStats
    <3>4. \/ row' = row
          \/ row' = [row EXCEPT ![p] = [row[p] EXCEPT !.mtime = task[k].mtime,
                                                    !.hash = task[k].hash]]
      BY <3>3, <1>1, <1>3
    <3> QED BY <3>1, <3>2, <3>4, <1>1, <1>7
  <2>5. CASE UpsertBook(k)
    <3>1. Return(k)
      BY <2>5 DEF UpsertBook
    <3>2. /\ [row[p] EXCEPT !.mtime = task[k].mtime, !.hash = task[k].hash] \in Row
          /\ [id |-> task[k].id, library |-> task[k].library, mtime |-> task[k].mtime,
              hash |-> task[k].hash] \in Row
      BY <1>1, <1>5 DEF Task, Row
    <3>3. \/ row' = row
          \/ row' = [row EXCEPT ![p].mtime = task[k].mtime, ![p].hash = task[k].hash]
          \/ row' = [row EXCEPT ![p] = [id |-> task[k].id, library |-> task[k].library,
                                      mtime |-> task[k].mtime, hash |-> task[k].hash]]
      BY <2>5 DEF UpsertBook
    <3>4. \/ row' = row
          \/ row' = [row EXCEPT ![p] = [row[p] EXCEPT !.mtime = task[k].mtime,
                                                    !.hash = task[k].hash]]
          \/ row' = [row EXCEPT ![p] = [id |-> task[k].id, library |-> task[k].library,
                                      mtime |-> task[k].mtime, hash |-> task[k].hash]]
      BY <3>3, <1>1, <1>3
    <3> QED BY <3>1, <3>2, <3>4, <1>1, <1>7
  <2>6. CASE ProcessFails(k)
    BY <2>6, <1>1, <1>7 DEF ProcessFails
  <2> QED BY <2>1, <2>2, <2>3, <2>4, <2>5, <2>6 DEF ProcessFile
<1> QED BY <1>1, <1>4, <1>6, <1>8, TaskStepType

\* ScanLibrary, apart from processFile.
LEMMA ScanType ==
    ASSUME TypeInv, NEW s \in Scans, absent' \in [Scans -> SUBSET Paths],
           \/ StartScan(s) \/ VisitFile(s) \/ VisitNothing(s) \/ VisitUnreadable(s)
           \/ WalkFails(s) \/ CountBooks(s) \/ DeleteBooksNotIn(s) \/ QueryFails(s)
    PROVE  TypeInv'
<1>1. /\ task \in [Tasks -> Task] /\ task[s] \in Task /\ s \in Tasks
      /\ file \in [Paths -> File] /\ row \in [Paths -> Row] /\ clock \in Time
      /\ debounce \in [Paths -> Timers \cup {NoTimer}]
      /\ found \in [Scans -> SUBSET Paths] /\ faults \in 0..MaxFaults
  BY DEF TypeInv, TypeOK, Tasks
<1>2. UNCHANGED <<mounted, libraryVars, clock, file, debounce>>
  BY DEF StartScan, VisitFile, VisitNothing, VisitUnreadable, WalkFails, CountBooks,
         DeleteBooksNotIn, QueryFails, diskVars
<1> DEFINE Tasked == /\ task' \in [Tasks -> Task]
                     /\ \A j \in Tasks : \/ task'[j].pc \in {"idle", "count", "clean"}
                                         \/ task'[j].path \in Paths
<1>3. task[s].pc = "walk" => Placed(s)
  BY DEF Placed
<1>4. EndScan(s) => Tasked /\ found' \in [Scans -> SUBSET Paths]
  <2>1. NoTask \in Task /\ NoTask.pc = "idle"
    BY NoTaskType DEF NoTask
  <2> QED BY <2>1, <1>1, ContinueType DEF EndScan
<1>5. /\ Tasked
      /\ row' \in [Paths -> Row]
      /\ found' \in [Scans -> SUBSET Paths]
      /\ faults' \in 0..MaxFaults
  <2>1. CASE StartScan(s)
    <3> DEFINE to == [NoTask EXCEPT !.pc = "walk", !.path = 1, !.library = library]
    <3>1. 1 \in Paths /\ library \in 0..MaxLibrary
      <4>1. library \in 0..created /\ created \in 1..MaxLibrary
        BY DEF TypeInv, TypeOK
      <4> QED BY <4>1, IndexAssumption DEF Paths
    <3>2. to \in Task /\ to.path = 1
      BY <3>1, NoTaskType DEF Task, NoTask
    <3>3. task' = [task EXCEPT ![s] = to]
      BY <2>1 DEF StartScan
    <3> HIDE DEF to
    <3>4. Tasked
      BY <3>1, <3>2, <3>3, <1>1, ContinueType
    <3>5. row' = row /\ faults' = faults /\ found' = [found EXCEPT ![s] = {}]
      BY <2>1 DEF StartScan
    <3> QED BY <3>4, <3>5, <1>1
  <2>2. CASE VisitFile(s)
    <3> DEFINE to == [task[s] EXCEPT !.pc = "stat"]
    <3>1. task[s].path \in Paths
      BY <2>2, <1>1, <1>3 DEF TypeInv, VisitFile
    <3>2. to \in Task /\ to.path = task[s].path
      BY <1>1 DEF Task
    <3>3. task' = [task EXCEPT ![s] = to]
      BY <2>2, <1>1 DEF VisitFile
    <3> HIDE DEF to
    <3>4. Tasked
      BY <3>1, <3>2, <3>3, <1>1, ContinueType
    <3>5. /\ row' = row /\ faults' = faults
          /\ found' = [found EXCEPT ![s] = @ \cup {task[s].path}]
      BY <2>2 DEF VisitFile
    <3> QED BY <3>1, <3>4, <3>5, <1>1
  <2>3. CASE VisitNothing(s)
    <3>1. Return(s) /\ Placed(s) /\ row' = row /\ faults' = faults /\ found' = found
      BY <2>3, <1>3 DEF VisitNothing, scanVars
    <3> QED BY <3>1, <1>1, ReturnType
  <2>4. CASE VisitUnreadable(s)
    <3>1. Return(s) /\ Placed(s) /\ row' = row /\ found' = found
      BY <2>4, <1>3 DEF VisitUnreadable
    <3>2. faults \in Nat /\ faults + 1 <= MaxFaults /\ faults' = faults + 1
      BY <2>4, <1>1, IndexAssumption DEF VisitUnreadable
    <3> QED BY <3>1, <3>2, <1>1, ReturnType, IndexAssumption
  <2>5. CASE WalkFails(s)
    <3>1. row' = row /\ faults' = faults
      BY <2>5 DEF WalkFails
    <3> QED BY <3>1, <2>5, <1>1, <1>4 DEF WalkFails
  <2>6. CASE CountBooks(s)
    <3>1. row' = row /\ faults' = faults
      BY <2>6 DEF CountBooks
    <3>2. CASE task' = [task EXCEPT ![s].pc = "clean"] /\ UNCHANGED scanVars
      <4> DEFINE to == [task[s] EXCEPT !.pc = "clean"]
      <4>1. to \in Task /\ to.pc = "clean"
        BY <1>1 DEF Task
      <4>2. task' = [task EXCEPT ![s] = to]
        BY <3>2, <1>1
      <4> HIDE DEF to
      <4> QED BY <4>1, <4>2, <3>1, <3>2, <1>1, ContinueType DEF scanVars
    <3> QED BY <2>6, <3>1, <3>2, <1>1, <1>4 DEF CountBooks
  <2>7. CASE DeleteBooksNotIn(s)
    <3>1. row' \in [Paths -> Row]
      BY <2>7, <1>1, NoTaskType DEF DeleteBooksNotIn
    <3>2. faults' = faults
      BY <2>7 DEF DeleteBooksNotIn
    <3> QED BY <2>7, <3>1, <3>2, <1>1, <1>4 DEF DeleteBooksNotIn
  <2>8. CASE QueryFails(s)
    <3>1. row' = row
      BY <2>8 DEF QueryFails
    <3>2. faults \in Nat /\ faults + 1 <= MaxFaults /\ faults' = faults + 1
      BY <2>8, <1>1, IndexAssumption DEF QueryFails
    <3> QED BY <3>1, <3>2, <2>8, <1>1, <1>4, IndexAssumption DEF QueryFails
  <2> QED BY <2>1, <2>2, <2>3, <2>4, <2>5, <2>6, <2>7, <2>8
<1> QED BY <1>1, <1>2, <1>5, TaskStepType

\* The watcher's timers, apart from processFile.
LEMMA TimerType ==
    ASSUME TypeInv, NEW t \in Timers, Fire(t) \/ DeleteBookByPath(t) \/ Forget(t),
           absent' \in [Scans -> SUBSET Paths]
    PROVE  TypeInv'
<1>1. /\ task \in [Tasks -> Task] /\ task[t] \in Task /\ t \in Tasks
      /\ file \in [Paths -> File] /\ row \in [Paths -> Row] /\ clock \in Time
      /\ debounce \in [Paths -> Timers \cup {NoTimer}]
      /\ found \in [Scans -> SUBSET Paths] /\ faults \in 0..MaxFaults
  BY DEF TypeInv, TypeOK, Tasks
<1>2. UNCHANGED <<mounted, libraryVars, clock, file, found, faults>>
  BY DEF Fire, DeleteBookByPath, Forget, diskVars, scanVars
<1>3. Placed(t) /\ task[t].path \in Paths
  <2>1. Placed(t)
    BY DEF Fire, DeleteBookByPath, Forget, Armed, Placed
  <2> QED BY <2>1, <1>1 DEF TypeInv
<1> DEFINE Tasked == /\ task' \in [Tasks -> Task]
                     /\ \A j \in Tasks : \/ task'[j].pc \in {"idle", "count", "clean"}
                                         \/ task'[j].path \in Paths
<1>4. /\ Tasked
      /\ row' \in [Paths -> Row]
      /\ debounce' \in [Paths -> Timers \cup {NoTimer}]
  <2>1. ASSUME NEW c \in {"stat", "remove", "ended"}, task' = [task EXCEPT ![t].pc = c]
        PROVE  Tasked
    <3> DEFINE to == [task[t] EXCEPT !.pc = c]
    <3>1. to \in Task /\ to.path = task[t].path
      BY <1>1 DEF Task
    <3>2. task' = [task EXCEPT ![t] = to]
      BY <2>1, <1>1
    <3> HIDE DEF to
    <3> QED BY <3>1, <3>2, <1>1, <1>3, ContinueType
  <2>2. CASE Fire(t)
    <3>1. /\ task' = [task EXCEPT ![t].pc = IF task[t].pc = "process" THEN "stat" ELSE "remove"]
          /\ row' = row /\ debounce' = debounce
      BY <2>2, <1>1 DEF Fire
    <3>2. (IF task[t].pc = "process" THEN "stat" ELSE "remove") \in {"stat", "remove", "ended"}
      OBVIOUS
    <3> QED BY <3>1, <3>2, <2>1, <1>1
  <2>3. CASE DeleteBookByPath(t)
    <3>1. /\ task' = [task EXCEPT ![t].pc = "ended"]
          /\ row' = [row EXCEPT ![task[t].path] = NoRow] /\ debounce' = debounce
      BY <2>3 DEF DeleteBookByPath
    <3> QED BY <3>1, <2>1, <1>1, NoTaskType
  <2>4. CASE Forget(t)
    <3>1. /\ task' = [task EXCEPT ![t] = NoTask] /\ row' = row
          /\ debounce' = [debounce EXCEPT ![task[t].path] = NoTimer]
      BY <2>4 DEF Forget
    <3>2. NoTask \in Task /\ NoTask.pc = "idle"
      BY NoTaskType DEF NoTask
    <3>3. Tasked
      BY <3>1, <3>2, <1>1, ContinueType
    <3> QED BY <3>1, <3>3, <1>1
  <2> QED BY <2>2, <2>3, <2>4
<1> QED BY <1>1, <1>2, <1>4, TaskStepType

\* Changes of the folder, with the event the watcher handles.
LEMMA DiskType ==
    ASSUME TypeInv, absent' \in [Scans -> SUBSET Paths],
           \/ \E p \in Paths : WriteFile(p) \/ TouchFile(p) \/ RemoveFile(p)
           \/ Unmount \/ Mount
    PROVE  TypeInv'
<1>1. /\ task \in [Tasks -> Task] /\ file \in [Paths -> File] /\ row \in [Paths -> Row]
      /\ clock \in Time /\ mounted \in BOOLEAN
      /\ debounce \in [Paths -> Timers \cup {NoTimer}]
      /\ found \in [Scans -> SUBSET Paths] /\ faults \in 0..MaxFaults
  BY DEF TypeInv, TypeOK
<1> DEFINE Tasked == /\ task' \in [Tasks -> Task]
                     /\ \A j \in Tasks : \/ task'[j].pc \in {"idle", "count", "clean"}
                                         \/ task'[j].path \in Paths
<1>2. task' = task => Tasked
  BY <1>1 DEF TypeInv, Placed
<1>3. ASSUME NEW p \in Paths, NEW op \in {"process", "delete"}, HandleEvent(p, op)
      PROVE  Tasked /\ debounce' \in [Paths -> Timers \cup {NoTimer}]
  <2>1. NoTask.pc = "idle"
    BY DEF NoTask
  <2> QED BY <1>3, <2>1, <1>1, EventType DEF TypeInv, Placed
<1>4. ASSUME clock < MaxClock, clock' = clock + 1
      PROVE  clock' \in Time
  BY <1>1, <1>4, IndexAssumption DEF Time
<1>5. ASSUME NEW p \in Paths, WriteFile(p)
      PROVE  TypeInv'
  <2>1. clock' \in Time
    BY <1>4, <1>5 DEF WriteFile
  <2>2. [there |-> TRUE, mtime |-> clock', content |-> clock'] \in File
    BY <2>1 DEF File
  <2>3. file' \in [Paths -> File]
    BY <1>5, <2>2, <1>1 DEF WriteFile
  <2>4. HandleEvent(p, "process") /\ UNCHANGED <<mounted, row, libraryVars, found, faults>>
    BY <1>5 DEF WriteFile, scanVars
  <2> QED BY <2>1, <2>3, <2>4, <1>1, <1>3, TaskStepType
<1>6. ASSUME NEW p \in Paths, TouchFile(p)
      PROVE  TypeInv'
  <2>1. clock' \in Time
    BY <1>4, <1>6 DEF TouchFile
  <2>2. file[p] \in File /\ [file[p] EXCEPT !.mtime = clock'] \in File
    BY <2>1, <1>1 DEF File
  <2>3. file' = [file EXCEPT ![p] = [file[p] EXCEPT !.mtime = clock']]
    BY <1>6, <1>1 DEF TouchFile
  <2>4. UNCHANGED <<mounted, row, libraryVars, debounce, task, found, faults>>
    BY <1>6 DEF TouchFile, scanVars
  <2> QED BY <2>1, <2>2, <2>3, <2>4, <1>1, <1>2, TaskStepType
<1>7. ASSUME NEW p \in Paths, RemoveFile(p)
      PROVE  TypeInv'
  <2>1. /\ file' = [file EXCEPT ![p] = NoFile] /\ HandleEvent(p, "delete")
        /\ UNCHANGED <<clock, mounted, row, libraryVars, found, faults>>
    BY <1>7 DEF RemoveFile
  <2>2. file' \in [Paths -> File]
    BY <2>1, <1>1, NoTaskType
  <2> QED BY <2>1, <2>2, <1>1, <1>3, TaskStepType
<1>8. ASSUME Unmount \/ Mount
      PROVE  TypeInv'
  <2>1. /\ UNCHANGED <<clock, file, row, libraryVars, debounce, task, found>>
        /\ mounted' \in BOOLEAN
    BY <1>8 DEF Unmount, Mount, scanVars
  <2>2. faults' \in 0..MaxFaults
    <3>1. CASE Unmount
      <4>1. faults \in Nat /\ faults + 1 <= MaxFaults /\ faults' = faults + 1
        BY <3>1, <1>1, IndexAssumption DEF Unmount
      <4> QED BY <4>1, IndexAssumption
    <3>2. CASE Mount
      BY <3>2, <1>1 DEF Mount
    <3> QED BY <3>1, <3>2, <1>8
  <2> QED BY <2>1, <2>2 DEF TypeInv, TypeOK, libraryVars, Placed, Tasks
<1> QED BY <1>5, <1>6, <1>7, <1>8

\* The table of libraries and the process.
LEMMA LibraryType ==
    ASSUME TypeInv, DeleteLibrary \/ CreateLibrary \/ Restart,
           absent' \in [Scans -> SUBSET Paths]
    PROVE  TypeInv'
<1>1. /\ library \in 0..created /\ created \in 1..MaxLibrary /\ watched \in Seq(1..MaxLibrary)
      /\ library = 0 => created < MaxLibrary
      /\ faults \in 0..MaxFaults /\ clock \in Time /\ file \in [Paths -> File]
      /\ mounted \in BOOLEAN /\ row \in [Paths -> Row]
  BY DEF TypeInv, TypeOK
<1>2. CASE DeleteLibrary
  <2>1. /\ library' = 0 /\ created < MaxLibrary
        /\ UNCHANGED <<clock, file, mounted, created, watched, debounce, task, found, faults>>
        /\ row' \in [Paths -> Row]
    BY <1>2, NoTaskType DEF DeleteLibrary, diskVars, scanVars
  <2>2. library' \in 0..created'
    BY <2>1, <1>1, IndexAssumption
  <2> QED BY <2>1, <2>2 DEF TypeInv, TypeOK, Placed
<1>3. CASE CreateLibrary
  <2>1. /\ library = 0 /\ library' = created + 1 /\ created' = created + 1
        /\ watched' = Append(watched, created + 1)
        /\ UNCHANGED <<clock, file, mounted, row, debounce, task, found, faults>>
    BY <1>3 DEF CreateLibrary, diskVars, scanVars
  <2>2. created + 1 \in 1..MaxLibrary /\ created + 1 # 0 /\ created + 1 \in 0..(created + 1)
    BY <2>1, <1>1, IndexAssumption
  <2>3. watched' \in Seq(1..MaxLibrary)
    BY <2>1, <2>2, <1>1, AppendProperties
  <2> QED BY <2>1, <2>2, <2>3 DEF TypeInv, TypeOK, Placed
<1>4. CASE Restart
  <2>1. /\ watched' = <<library'>>
        /\ debounce' = [p \in Paths |-> NoTimer]
        /\ task' = [k \in Tasks |-> NoTask]
        /\ found' = [s \in Scans |-> {}]
        /\ UNCHANGED <<clock, file, mounted, row>>
        /\ faults < MaxFaults /\ faults' = faults + 1
    BY <1>4 DEF Restart, diskVars
  <2>2. faults' \in 0..MaxFaults
    BY <2>1, <1>1, IndexAssumption
  <2>3. library' \in 1..created' /\ created' \in 1..MaxLibrary
    <3>1. CASE library # 0
      BY <3>1, <1>4, <1>1, IndexAssumption DEF Restart
    <3>2. CASE library = 0
      <4>1. library' = created + 1 /\ created' = created + 1
        BY <3>2, <1>4 DEF Restart
      <4> QED BY <4>1, <3>2, <1>1, IndexAssumption
    <3> QED BY <3>1, <3>2
  <2>4. library' \in 1..MaxLibrary /\ library' \in 0..created' /\ library' # 0
    BY <2>3, IndexAssumption
  <2>5. watched' \in Seq(1..MaxLibrary)
    BY <2>1, <2>4
  <2>6. /\ task' \in [Tasks -> Task] /\ (\A k \in Tasks : ~Placed(k))'
    <3>1. NoTask \in Task /\ NoTask.pc = "idle"
      BY NoTaskType DEF NoTask
    <3> QED BY <3>1, <2>1 DEF Placed, Tasks
  <2>7. debounce' \in [Paths -> Timers \cup {NoTimer}] /\ found' \in [Scans -> SUBSET Paths]
    BY <2>1
  <2>8. TypeOK'
    BY <2>1, <2>2, <2>3, <2>4, <2>5, <2>6, <2>7, <1>1 DEF TypeOK
  <2> QED BY <2>4, <2>6, <2>8 DEF TypeInv
<1> QED BY <1>2, <1>3, <1>4

LEMMA TypeInit == Init => TypeInv
<1> SUFFICES ASSUME Init PROVE TypeInv
  OBVIOUS
<1>1. 0 \in Time /\ 1 \in 1..MaxLibrary /\ 0 \in 0..MaxFaults /\ 1 \in 0..1
  BY IndexAssumption DEF Time
<1>2. watched \in Seq(1..MaxLibrary)
  BY <1>1 DEF Init
<1>3. task \in [Tasks -> Task] /\ \A k \in Tasks : ~Placed(k)
  <2>1. NoTask \in Task /\ NoTask.pc = "idle"
    BY NoTaskType DEF NoTask
  <2> QED BY <2>1 DEF Init, Placed
<1>4. file \in [Paths -> File] /\ row \in [Paths -> Row]
  BY NoTaskType DEF Init
<1>5. TypeOK
  BY <1>1, <1>2, <1>3, <1>4 DEF Init, TypeOK
<1> QED BY <1>3, <1>5, <1>1 DEF Init, TypeInv

\* What scans may have missed is a set of paths.
LEMMA AbsentType ==
    ASSUME TypeInv, Next
    PROVE  absent' \in [Scans -> SUBSET Paths]
<1>1. absent \in [Scans -> SUBSET Paths]
  BY DEF TypeInv, TypeOK
<1>2. ASSUME NEW ps \in SUBSET Paths, Vanish(ps)
      PROVE  absent' \in [Scans -> SUBSET Paths]
  BY <1>1, <1>2 DEF Vanish
<1>3. ASSUME NEW p \in Paths, WriteFile(p) \/ TouchFile(p) \/ RemoveFile(p)
      PROVE  absent' \in [Scans -> SUBSET Paths]
  <2>1. absent' = absent \/ Vanish({p})
    BY <1>3 DEF WriteFile, TouchFile, RemoveFile, scanVars
  <2>2. {p} \in SUBSET Paths
    BY <1>3
  <2> QED BY <1>1, <1>2, <2>1, <2>2
<1>4. ASSUME Unmount \/ Mount
      PROVE  absent' \in [Scans -> SUBSET Paths]
  <2>1. absent' = absent \/ Vanish(Paths)
    BY <1>4 DEF Unmount, Mount, scanVars
  <2> QED BY <1>1, <1>2, <2>1
<1>5. ASSUME NEW k \in Tasks, ProcessFile(k)
      PROVE  absent' = absent
  BY <1>5 DEF ProcessFile, Stat, Look, HashAndParse, UpdateFileStats, UpsertBook, ProcessFails,
              scanVars
<1>6. ASSUME NEW s \in Scans, StartScan(s) \/ ScanStep(s)
      PROVE  absent' \in [Scans -> SUBSET Paths]
  <2>1. CASE EndScan(s)
    BY <2>1, <1>1 DEF EndScan
  <2>2. CASE StartScan(s)
    BY <2>2, <1>1 DEF StartScan
  <2>3. CASE VisitUnreadable(s)
    <3>1. task[s].path \in Paths
      BY <2>3 DEF VisitUnreadable, TypeInv, Placed, Tasks
    <3> QED BY <2>3, <3>1, <1>1 DEF VisitUnreadable
  <2>4. CASE ProcessFile(s)
    BY <2>4, <1>1, <1>5 DEF Tasks
  <2>5. CASE VisitFile(s) \/ VisitNothing(s) \/ CountBooks(s)
    BY <2>1, <2>5, <1>1 DEF VisitFile, VisitNothing, CountBooks, scanVars
  <2>6. CASE WalkFails(s) \/ DeleteBooksNotIn(s) \/ QueryFails(s)
    BY <2>1, <2>6 DEF WalkFails, DeleteBooksNotIn, QueryFails
  <2> QED BY <1>6, <2>2, <2>3, <2>4, <2>5, <2>6 DEF ScanStep
<1>7. ASSUME NEW t \in Timers, TimerStep(t)
      PROVE  absent' = absent
  BY <1>5, <1>7 DEF TimerStep, Fire, DeleteBookByPath, Forget, scanVars, Tasks
<1>8. ASSUME DeleteLibrary \/ CreateLibrary \/ Restart
      PROVE  absent' \in [Scans -> SUBSET Paths]
  BY <1>1, <1>8 DEF DeleteLibrary, CreateLibrary, Restart, scanVars
<1> QED BY <1>1, <1>3, <1>4, <1>6, <1>7, <1>8 DEF Next

LEMMA TypeStep == TypeInv /\ [Next]_vars => TypeInv'
<1> SUFFICES ASSUME TypeInv, [Next]_vars PROVE TypeInv'
  OBVIOUS
<1>0. Next => absent' \in [Scans -> SUBSET Paths]
  BY AbsentType
<1>1. CASE UNCHANGED vars
  BY <1>1 DEF vars, diskVars, libraryVars, scanVars, TypeInv, TypeOK, Placed
<1>2. CASE \/ \E p \in Paths : WriteFile(p) \/ TouchFile(p) \/ RemoveFile(p)
           \/ Unmount \/ Mount
  BY <1>2, <1>0, DiskType DEF Next
<1>3. ASSUME NEW s \in Scans, StartScan(s) \/ ScanStep(s)
      PROVE  TypeInv'
  <2>1. CASE ProcessFile(s)
    BY <1>0, <1>3, <2>1, ProcessFileType DEF Next, Tasks
  <2> QED BY <2>1, <1>0, <1>3, ScanType DEF Next, ScanStep
<1>4. ASSUME NEW t \in Timers, TimerStep(t)
      PROVE  TypeInv'
  <2>1. CASE ProcessFile(t)
    BY <1>0, <1>4, <2>1, ProcessFileType DEF Next, Tasks
  <2> QED BY <2>1, <1>0, <1>4, TimerType DEF Next, TimerStep
<1>5. CASE DeleteLibrary \/ CreateLibrary \/ Restart
  BY <1>0, <1>5, LibraryType DEF Next
<1> QED BY <1>1, <1>2, <1>3, <1>4, <1>5 DEF Next

\* Every state of the index has the declared types: no goroutine ever walks or
\* works on a path outside the folder, no row of a library that never was.
THEOREM IndexTypes == Spec => []TypeOK
<1>1. TypeInv => TypeOK
  BY DEF TypeInv
<1> QED BY TypeInit, TypeStep, <1>1, PTL DEF Spec

-----------------------------------------------------------------------------
(* The cheap check.  A row is dated by the time its file had before it was *)
(* hashed, so a row, or a goroutine about to write one, whose time is the  *)
(* file's time has the file's contents.  Every later write is given a      *)
(* later time, which is why no time may ever be ahead of the clock.        *)

NoTimeAhead ==
    /\ \A p \in Paths : file[p].mtime <= clock /\ row[p].mtime <= clock
    /\ \A k \in Tasks : task[k].mtime <= clock

\* 0 is the time of no file: rows and goroutines were dated by a file.
Dated ==
    /\ \A p \in Paths : file[p].there => file[p].mtime # 0
    /\ \A p \in Paths : Indexed(p) => row[p].mtime # 0
    /\ \A k \in Tasks : task[k].pc \in {"look", "hash", "stats", "upsert"} => task[k].mtime # 0

HashFits ==
    \A k \in Tasks :
        task[k].pc \in {"stats", "upsert"} /\ task[k].mtime = file[task[k].path].mtime =>
            task[k].hash = file[task[k].path].content

SkipInv == TypeInv /\ NoTimeAhead /\ Dated /\ HashFits /\ SkipIsSafe

\* What a step may leave in a row or a goroutine while the files stand still.
GoodRow(r, p) ==
    r.id # 0 => r.mtime # 0 /\ (r.mtime = file[p].mtime => r.hash = file[p].content)

GoodTask(t) ==
    /\ t.pc \in {"look", "hash", "stats", "upsert"} => t.mtime # 0
    /\ t.pc \in {"stats", "upsert"} /\ t.mtime = file[t.path].mtime => t.hash = file[t.path].content

LEMMA SkipParts == SkipInv <=>
    /\ TypeInv
    /\ \A p \in Paths : file[p].mtime <= clock /\ (file[p].there => file[p].mtime # 0)
    /\ \A p \in Paths : row[p].mtime <= clock /\ GoodRow(row[p], p)
    /\ \A k \in Tasks : task[k].mtime <= clock /\ GoodTask(task[k])
  BY DEF SkipInv, NoTimeAhead, Dated, HashFits, SkipIsSafe, GoodRow, GoodTask, Indexed

LEMMA NothingGood ==
    ASSUME NEW p
    PROVE  /\ GoodRow(NoRow, p) /\ NoRow.mtime = 0
           /\ GoodTask(NoTask) /\ NoTask.mtime = 0
  BY DEF GoodRow, GoodTask, NoRow, NoTask

\* While the files stand still.
LEMMA SkipFrame ==
    ASSUME SkipInv, TypeInv', UNCHANGED <<clock, file>>,
           \A p \in Paths : \/ row'[p] = row[p]
                            \/ row'[p].mtime <= clock /\ GoodRow(row'[p], p),
           \A k \in Tasks : \/ task'[k] = task[k]
                            \/ task'[k].mtime <= clock /\ GoodTask(task'[k])
    PROVE  SkipInv'
<1>1. /\ \A p \in Paths : file[p].mtime <= clock /\ (file[p].there => file[p].mtime # 0)
      /\ \A p \in Paths : row[p].mtime <= clock /\ GoodRow(row[p], p)
      /\ \A k \in Tasks : task[k].mtime <= clock /\ GoodTask(task[k])
  BY SkipParts
<1>2. /\ \A p \in Paths : row'[p].mtime <= clock /\ GoodRow(row'[p], p)
      /\ \A k \in Tasks : task'[k].mtime <= clock /\ GoodTask(task'[k])
  BY <1>1
<1>3. ASSUME NEW p \in Paths
      PROVE  (GoodRow(row[p], p))'
  BY <1>2 DEF GoodRow
<1>4. ASSUME NEW k \in Tasks
      PROVE  (GoodTask(task[k]))'
  BY <1>2 DEF GoodTask
<1>5. (\A p \in Paths : file[p].mtime <= clock /\ (file[p].there => file[p].mtime # 0))'
  BY <1>1
<1>6. (\A p \in Paths : row[p].mtime <= clock /\ GoodRow(row[p], p))'
  BY <1>2, <1>3
<1>7. (\A k \in Tasks : task[k].mtime <= clock /\ GoodTask(task[k]))'
  BY <1>2, <1>4 DEF Tasks
<1>8. (/\ TypeInv
       /\ \A p \in Paths : file[p].mtime <= clock /\ (file[p].there => file[p].mtime # 0)
       /\ \A p \in Paths : row[p].mtime <= clock /\ GoodRow(row[p], p)
       /\ \A k \in Tasks : task[k].mtime <= clock /\ GoodTask(task[k]))' => SkipInv'
  BY DEF SkipInv, NoTimeAhead, Dated, HashFits, SkipIsSafe, GoodRow, GoodTask, Indexed, Tasks
<1> QED BY <1>5, <1>6, <1>7, <1>8

\* One goroutine goes on or returns; the others stay.
LEMMA SkipOneTask ==
    ASSUME SkipInv, TypeInv', UNCHANGED <<clock, file>>, NEW k \in Tasks, NEW to,
           task' = [task EXCEPT ![k] = to], to.mtime <= clock, GoodTask(to),
           \A p \in Paths : \/ row'[p] = row[p]
                            \/ row'[p].mtime <= clock /\ GoodRow(row'[p], p)
    PROVE  SkipInv'
<1>1. task \in [Tasks -> Task]
  BY DEF SkipInv, TypeInv, TypeOK
<1>2. \A j \in Tasks : task'[j] = task[j] \/ task'[j] = to
  BY <1>1
<1>3. \A j \in Tasks : \/ task'[j] = task[j]
                       \/ task'[j].mtime <= clock /\ GoodTask(task'[j])
  BY <1>2 DEF GoodTask
<1> QED BY <1>3, SkipFrame

LEMMA SkipReturn ==
    ASSUME SkipInv, TypeInv', UNCHANGED <<clock, file>>, NEW k \in Tasks, Placed(k), Return(k),
           \A p \in Paths : \/ row'[p] = row[p]
                            \/ row'[p].mtime <= clock /\ GoodRow(row'[p], p)
    PROVE  SkipInv'
<1>1. Returned(k).pc \in {"ended", "count", "walk"} /\ Returned(k).mtime = 0
  BY ReturnedType DEF SkipInv
<1>2. Returned(k).mtime <= clock
  <2>1. clock \in Nat
    BY IndexAssumption DEF SkipInv, TypeInv, TypeOK, Time
  <2> QED BY <2>1, <1>1
<1>3. GoodTask(Returned(k))
  BY <1>1 DEF GoodTask
<1>4. task' = [task EXCEPT ![k] = Returned(k)]
  BY DEF Return
<1> HIDE DEF Returned
<1> QED BY <1>2, <1>3, <1>4, SkipOneTask

LEMMA SkipProcessFile ==
    ASSUME SkipInv, TypeInv', NEW k \in Tasks, ProcessFile(k)
    PROVE  SkipInv'
<1>1. /\ TypeInv /\ task[k] \in Task /\ clock \in Nat
      /\ file \in [Paths -> File] /\ row \in [Paths -> Row]
  BY IndexAssumption DEF SkipInv, TypeInv, TypeOK, Time
<1>2. task[k].pc \in {"stat", "look", "hash", "stats", "upsert"}
  BY DEF ProcessFile, Stat, Look, HashAndParse, UpdateFileStats, UpsertBook, ProcessFails
<1>3. Placed(k) /\ task[k].path \in Paths
  BY <1>1, <1>2 DEF Placed, TypeInv
<1>4. UNCHANGED <<clock, file>>
  BY DEF ProcessFile, Stat, Look, HashAndParse, UpdateFileStats, UpsertBook, ProcessFails,
         diskVars, scanVars
<1> DEFINE p == task[k].path
           t == task[k]
<1>5. /\ t.mtime <= clock /\ GoodTask(t)
      /\ file[p].mtime <= clock /\ (file[p].there => file[p].mtime # 0)
      /\ row[p].mtime <= clock /\ GoodRow(row[p], p)
  BY <1>3, SkipParts
<1>6. ASSUME Return(k), row' = row
      PROVE  SkipInv'
  <2>1. \A q \in Paths : \/ row'[q] = row[q]
                         \/ row'[q].mtime <= clock /\ GoodRow(row'[q], q)
    BY <1>6
  <2> QED BY <2>1, <1>6, <1>3, <1>4, SkipReturn
<1>7. ASSUME NEW to, Continue(k, to), to.mtime <= clock, GoodTask(to), row' = row
      PROVE  SkipInv'
  <2>1. \A q \in Paths : \/ row'[q] = row[q]
                         \/ row'[q].mtime <= clock /\ GoodRow(row'[q], q)
    BY <1>7
  <2>2. task' = [task EXCEPT ![k] = to]
    BY <1>7 DEF Continue
  <2> QED BY <2>1, <2>2, <1>7, <1>4, SkipOneTask
<1>8. CASE Stat(k)
  <2>1. row' = row
    BY <1>8 DEF Stat
  <2>2. CASE Readable(p) /\ Continue(k, [t EXCEPT !.pc = "look", !.mtime = file[p].mtime])
    <3> DEFINE to == [t EXCEPT !.pc = "look", !.mtime = file[p].mtime]
    <3>1. to.pc = "look" /\ to.mtime = file[p].mtime
      BY <1>1 DEF Task
    <3>2. file[p].there
      BY <2>2 DEF Readable
    <3> HIDE DEF to
    <3>3. to.mtime <= clock /\ GoodTask(to)
      BY <3>1, <3>2, <1>5 DEF GoodTask
    <3>4. Continue(k, to)
      BY <2>2 DEF to
    <3> QED BY <3>3, <3>4, <2>1, <1>7
  <2> QED BY <1>8, <2>1, <2>2, <1>6 DEF Stat
<1>9. CASE Look(k)
  <2>1. row' = row
    BY <1>9 DEF Look
  <2>2. CASE Continue(k, [t EXCEPT !.pc = "hash", !.id = row[p].id, !.hash = row[p].hash])
    <3> DEFINE to == [t EXCEPT !.pc = "hash", !.id = row[p].id, !.hash = row[p].hash]
    <3>1. to.pc = "hash" /\ to.mtime = t.mtime
      BY <1>1 DEF Task
    <3>2. t.mtime # 0
      BY <1>5, <1>9 DEF Look, GoodTask
    <3> HIDE DEF to
    <3>3. to.mtime <= clock /\ GoodTask(to)
      BY <3>1, <3>2, <1>5 DEF GoodTask
    <3>4. Continue(k, to)
      BY <2>2 DEF to
    <3> QED BY <3>3, <3>4, <2>1, <1>7
  <2> QED BY <1>9, <2>1, <2>2, <1>6 DEF Look
<1>10. CASE HashAndParse(k)
  <2>1. row' = row /\ t.pc = "hash"
    BY <1>10 DEF HashAndParse
  <2>2. t.mtime # 0
    BY <2>1, <1>5 DEF GoodTask
  <2>3. CASE t.hash = file[p].content /\ Continue(k, [t EXCEPT !.pc = "stats"])
    <3> DEFINE to == [t EXCEPT !.pc = "stats"]
    <3>1. to.path = p /\ to.mtime = t.mtime /\ to.hash = t.hash
      BY <1>1 DEF Task
    <3> HIDE DEF to
    <3>2. to.mtime <= clock /\ GoodTask(to)
      BY <3>1, <2>2, <2>3, <1>5 DEF GoodTask
    <3>3. Continue(k, to)
      BY <2>3 DEF to
    <3> QED BY <3>2, <3>3, <2>1, <1>7
  <2>4. ASSUME NEW i, Continue(k, [t EXCEPT !.pc = "upsert", !.hash = file[p].content, !.id = i])
        PROVE  SkipInv'
    <3> DEFINE to == [t EXCEPT !.pc = "upsert", !.hash = file[p].content, !.id = i]
    <3>1. to.path = p /\ to.mtime = t.mtime /\ to.hash = file[p].content
      BY <1>1 DEF Task
    <3> HIDE DEF to
    <3>2. to.mtime <= clock /\ GoodTask(to)
      BY <3>1, <2>2, <1>5 DEF GoodTask
    <3>3. Continue(k, to)
      BY <2>4 DEF to
    <3> QED BY <3>2, <3>3, <2>1, <1>7
  <2>5. CASE Continue(k, [t EXCEPT !.pc = "upsert", !.hash = file[p].content,
                                   !.id = IF @ = 0 THEN CHOOSE i \in FreshIds : TRUE ELSE @])
    <3> DEFINE i == IF t.id = 0 THEN CHOOSE n \in FreshIds : TRUE ELSE t.id
    <3>1. Continue(k, [t EXCEPT !.pc = "upsert", !.hash = file[p].content, !.id = i])
      BY <2>5
    <3> HIDE DEF i
    <3> QED BY <3>1, <2>4
  <2> QED BY <1>10, <2>1, <2>3, <2>5, <1>6 DEF HashAndParse
<1>11. CASE UpdateFileStats(k) \/ UpsertBook(k)
  <2>1. Return(k) /\ t.pc \in {"stats", "upsert"}
    BY <1>11 DEF UpdateFileStats, UpsertBook
  <2>2. t.mtime # 0 /\ (t.mtime = file[p].mtime => t.hash = file[p].content)
    BY <2>1, <1>5 DEF GoodTask
  <2>3. \/ row' = row
        \/ row' = [row EXCEPT ![p].mtime = t.mtime, ![p].hash = t.hash]
        \/ row' = [row EXCEPT ![p] = [id |-> t.id, library |-> t.library,
                                    mtime |-> t.mtime, hash |-> t.hash]]
    BY <1>11 DEF UpdateFileStats, UpsertBook
  <2>4. \/ row' = row
        \/ /\ row'[p].mtime = t.mtime /\ row'[p].hash = t.hash
           /\ \A q \in Paths : q # p => row'[q] = row[q]
    <3>1. row[p] \in Row
      BY <1>1, <1>3
    <3> QED BY <2>3, <3>1, <1>1, <1>3 DEF Row
  <2>5. \A q \in Paths : \/ row'[q] = row[q]
                         \/ row'[q].mtime <= clock /\ GoodRow(row'[q], q)
    <3>1. row'[p] = row[p] \/ (row'[p].mtime = t.mtime /\ row'[p].hash = t.hash)
      BY <2>4
    <3>2. \/ row'[p] = row[p]
          \/ row'[p].mtime <= clock /\ GoodRow(row'[p], p)
      BY <3>1, <2>2, <1>5 DEF GoodRow
    <3>3. \A q \in Paths : q # p => row'[q] = row[q]
      BY <2>4
    <3> QED BY <3>2, <3>3
  <2> QED BY <2>1, <2>5, <1>3, <1>4, SkipReturn
<1>12. CASE ProcessFails(k)
  BY <1>12, <1>6 DEF ProcessFails
<1> QED BY <1>8, <1>9, <1>10, <1>11, <1>12 DEF ProcessFile

LEMMA SkipScan ==
    ASSUME SkipInv, TypeInv', NEW s \in Scans,
           \/ StartScan(s) \/ VisitFile(s) \/ VisitNothing(s) \/ VisitUnreadable(s)
           \/ WalkFails(s) \/ CountBooks(s) \/ DeleteBooksNotIn(s) \/ QueryFails(s)
    PROVE  SkipInv'
<1>1. /\ TypeInv /\ s \in Tasks /\ task[s] \in Task /\ clock \in Nat
      /\ task \in [Tasks -> Task] /\ row \in [Paths -> Row]
  BY IndexAssumption DEF SkipInv, TypeInv, TypeOK, Time, Tasks
<1>2. UNCHANGED <<clock, file>>
  BY DEF StartScan, VisitFile, VisitNothing, VisitUnreadable, WalkFails, CountBooks,
         DeleteBooksNotIn, QueryFails, diskVars
<1>3. task[s].mtime <= clock /\ GoodTask(task[s])
  BY <1>1, SkipParts
<1>4. NoTask.mtime <= clock /\ GoodTask(NoTask) /\ NoRow.mtime <= clock
  BY <1>1, NothingGood
<1> DEFINE RowsKept == \A p \in Paths :
                          \/ row'[p] = row[p]
                          \/ row'[p].mtime <= clock /\ GoodRow(row'[p], p)
<1>5. row' = row => RowsKept
  OBVIOUS
<1>6. ASSUME NEW to, task' = [task EXCEPT ![s] = to], to.mtime <= clock, GoodTask(to), RowsKept
      PROVE  SkipInv'
  BY <1>6, <1>1, <1>2, SkipOneTask
<1>7. CASE StartScan(s)
  <2> DEFINE to == [NoTask EXCEPT !.pc = "walk", !.path = 1, !.library = library]
  <2>1. to.pc = "walk" /\ to.mtime = 0
    BY DEF NoTask
  <2>2. task' = [task EXCEPT ![s] = to] /\ row' = row
    BY <1>7 DEF StartScan
  <2> HIDE DEF to
  <2>3. to.mtime <= clock /\ GoodTask(to)
    BY <2>1, <1>1 DEF GoodTask
  <2> QED BY <2>2, <2>3, <1>5, <1>6
<1>8. ASSUME NEW c \in {"stat", "clean"}, task' = [task EXCEPT ![s].pc = c], row' = row
      PROVE  SkipInv'
  <2> DEFINE to == [task[s] EXCEPT !.pc = c]
  <2>1. to.pc = c /\ to.mtime = task[s].mtime
    BY <1>1 DEF Task
  <2>2. task' = [task EXCEPT ![s] = to]
    BY <1>8, <1>1
  <2> HIDE DEF to
  <2>3. to.mtime <= clock /\ GoodTask(to)
    BY <2>1, <1>3, <1>8 DEF GoodTask
  <2> QED BY <2>2, <2>3, <1>5, <1>6, <1>8
<1>9. CASE VisitFile(s)
  BY <1>8, <1>9 DEF VisitFile
<1>10. CASE VisitNothing(s) \/ VisitUnreadable(s)
  <2>1. Return(s) /\ Placed(s) /\ row' = row
    BY <1>10 DEF VisitNothing, VisitUnreadable, Placed
  <2> QED BY <2>1, <1>1, <1>2, <1>5, SkipReturn
<1>11. EndScan(s) /\ RowsKept => SkipInv'
  BY <1>4, <1>6 DEF EndScan
<1>12. CASE WalkFails(s)
  BY <1>5, <1>11, <1>12 DEF WalkFails
<1>13. CASE CountBooks(s)
  BY <1>5, <1>8, <1>11, <1>13 DEF CountBooks
<1>14. CASE DeleteBooksNotIn(s)
  <2>1. ASSUME NEW p \in Paths
        PROVE  row'[p] = row[p] \/ row'[p] = NoRow
    BY <1>14 DEF DeleteBooksNotIn
  <2>2. RowsKept
    BY <2>1, <1>4, NothingGood
  <2> QED BY <2>2, <1>11, <1>14 DEF DeleteBooksNotIn
<1>15. CASE QueryFails(s)
  BY <1>5, <1>11, <1>15 DEF QueryFails
<1> QED BY <1>7, <1>9, <1>10, <1>12, <1>13, <1>14, <1>15

LEMMA SkipTimer ==
    ASSUME SkipInv, TypeInv', NEW t \in Timers, Fire(t) \/ DeleteBookByPath(t) \/ Forget(t)
    PROVE  SkipInv'
<1>1. /\ t \in Tasks /\ task[t] \in Task /\ clock \in Nat
      /\ task \in [Tasks -> Task] /\ row \in [Paths -> Row]
  BY IndexAssumption DEF SkipInv, TypeInv, TypeOK, Time, Tasks
<1>2. UNCHANGED <<clock, file>>
  BY DEF Fire, DeleteBookByPath, Forget, diskVars
<1>3. task[t].mtime <= clock
  BY <1>1, SkipParts
<1> DEFINE RowsKept == \A p \in Paths :
                          \/ row'[p] = row[p]
                          \/ row'[p].mtime <= clock /\ GoodRow(row'[p], p)
<1>4. RowsKept
  <2>1. ASSUME NEW p \in Paths
        PROVE  row'[p] = row[p] \/ row'[p] = NoRow
    BY <1>1 DEF Fire, DeleteBookByPath, Forget
  <2> QED BY <2>1, <1>1, NothingGood
<1>5. CASE Forget(t)
  <2>1. task' = [task EXCEPT ![t] = NoTask]
    BY <1>5 DEF Forget
  <2>2. NoTask.mtime <= clock /\ GoodTask(NoTask)
    BY <1>1, NothingGood
  <2> QED BY <2>1, <2>2, <1>1, <1>2, <1>4, SkipOneTask
<1>6. ASSUME NEW c \in {"stat", "remove", "ended"}, task' = [task EXCEPT ![t].pc = c]
      PROVE  SkipInv'
  <2> DEFINE to == [task[t] EXCEPT !.pc = c]
  <2>1. to.pc = c /\ to.mtime = task[t].mtime
    BY <1>1 DEF Task
  <2>2. task' = [task EXCEPT ![t] = to]
    BY <1>6, <1>1
  <2> HIDE DEF to
  <2>3. to.mtime <= clock /\ GoodTask(to)
    BY <2>1, <1>3, <1>6 DEF GoodTask
  <2> QED BY <2>2, <2>3, <1>1, <1>2, <1>4, SkipOneTask
<1>7. CASE Fire(t)
  <2>1. task' = [task EXCEPT ![t].pc = IF task[t].pc = "process" THEN "stat" ELSE "remove"]
    BY <1>7, <1>1 DEF Fire
  <2>2. (IF task[t].pc = "process" THEN "stat" ELSE "remove") \in {"stat", "remove", "ended"}
    OBVIOUS
  <2> QED BY <2>1, <2>2, <1>6
<1>8. CASE DeleteBookByPath(t)
  BY <1>6, <1>8 DEF DeleteBookByPath
<1> QED BY <1>5, <1>7, <1>8

\* A changed file gets a time no row and no goroutine has; a removed one gets 0.
LEMMA SkipDisk ==
    ASSUME SkipInv, TypeInv',
           \/ \E p \in Paths : WriteFile(p) \/ TouchFile(p) \/ RemoveFile(p)
           \/ Unmount \/ Mount
    PROVE  SkipInv'
<1>1. /\ TypeInv /\ clock \in Nat
      /\ task \in [Tasks -> Task] /\ file \in [Paths -> File] /\ row \in [Paths -> Row]
  BY IndexAssumption DEF SkipInv, TypeInv, TypeOK, Time
<1>2. /\ \A q \in Paths : file[q].mtime <= clock /\ (file[q].there => file[q].mtime # 0)
      /\ \A q \in Paths : row[q].mtime <= clock /\ GoodRow(row[q], q)
      /\ \A k \in Tasks : task[k].mtime <= clock /\ GoodTask(task[k])
  BY SkipParts
<1>3. /\ \A k \in Tasks : task[k].mtime \in Nat /\ task[k].mtime <= clock
      /\ \A q \in Paths : row[q].mtime \in Nat /\ row[q].mtime <= clock
      /\ \A q \in Paths : file[q].mtime \in Nat /\ file[q].mtime <= clock
  <2>1. \A n \in Time : n \in Nat
    BY IndexAssumption DEF Time
  <2> QED BY <2>1, <1>1, <1>2 DEF Task, Row, File
<1>4. ASSUME NEW p \in Paths, WriteFile(p) \/ TouchFile(p) \/ RemoveFile(p)
      PROVE  SkipInv'
  <2>1. /\ row' = row
        /\ \/ clock' = clock + 1 /\ file'[p].mtime = clock'
           \/ clock' = clock /\ file'[p].mtime = 0 /\ ~file'[p].there
        /\ \A q \in Paths : q # p => file'[q] = file[q]
    <3>1. CASE WriteFile(p)
      BY <3>1, <1>1 DEF WriteFile
    <3>2. CASE TouchFile(p)
      <4>1. file[p] \in File
        BY <1>1
      <4> QED BY <3>2, <4>1, <1>1 DEF TouchFile, File
    <3>3. CASE RemoveFile(p)
      BY <3>3, <1>1 DEF RemoveFile, NoFile
    <3> QED BY <1>4, <3>1, <3>2, <3>3
  <2>2. \A k \in Tasks : \/ task'[k] = task[k]
                         \/ task'[k].pc \in {"idle", "process", "delete"} /\ task'[k].mtime = 0
    <3>1. NoTask.pc = "idle" /\ NoTask.mtime = 0
      BY DEF NoTask
    <3>2. CASE \E op \in {"process", "delete"} : HandleEvent(p, op)
      BY <3>1, <3>2, <1>1, EventType
    <3>3. CASE task' = task
      BY <3>3
    <3> QED BY <1>4, <3>2, <3>3 DEF WriteFile, TouchFile, RemoveFile
  <2>3. clock' \in Nat /\ clock <= clock'
    BY <2>1, <1>1
  <2>4. \A n \in Nat : n <= clock /\ n # 0 => n # file'[p].mtime
    BY <2>1, <1>1
  <2>5. (\A q \in Paths : file[q].mtime <= clock /\ (file[q].there => file[q].mtime # 0))'
    <3>1. ASSUME NEW q \in Paths, q # p
          PROVE  file'[q].mtime <= clock' /\ (file'[q].there => file'[q].mtime # 0)
      <4>1. file'[q] = file[q]
        BY <2>1, <3>1
      <4>2. /\ file[q].mtime \in Nat /\ file[q].mtime <= clock
            /\ file[q].there => file[q].mtime # 0
        BY <1>2, <1>3
      <4>3. file[q].mtime <= clock'
        BY <4>2, <2>3, <1>1
      <4> QED BY <4>1, <4>2, <4>3
    <3>2. file'[p].mtime <= clock' /\ (file'[p].there => file'[p].mtime # 0)
      BY <2>1, <1>1
    <3> QED BY <3>1, <3>2
  <2>6. ASSUME NEW q \in Paths
        PROVE  (row[q].mtime <= clock /\ GoodRow(row[q], q))'
    <3>1. row'[q] = row[q] /\ row[q].mtime \in Nat /\ row[q].mtime <= clock
      BY <2>1, <1>3
    <3>2. row[q].mtime <= clock'
      BY <3>1, <2>3, <1>1
    <3>3. row[q].id # 0 => row[q].mtime # 0
      BY <1>2 DEF GoodRow
    <3>4. row[q].id # 0 /\ row[q].mtime = file'[q].mtime => row[q].hash = file'[q].content
      <4>1. CASE q = p
        BY <4>1, <3>1, <3>3, <2>4
      <4>2. CASE q # p
        <5>1. file'[q] = file[q]
          BY <4>2, <2>1
        <5> QED BY <5>1, <1>2 DEF GoodRow
      <4> QED BY <4>1, <4>2
    <3> QED BY <3>1, <3>2, <3>3, <3>4 DEF GoodRow
  <2>7. ASSUME NEW k \in Tasks
        PROVE  (task[k].mtime <= clock /\ GoodTask(task[k]))'
    <3>1. CASE task'[k].pc \in {"idle", "process", "delete"} /\ task'[k].mtime = 0
      <4>1. 0 <= clock'
        BY <2>3
      <4> QED BY <3>1, <4>1 DEF GoodTask
    <3>2. CASE task'[k] = task[k]
      <4>1. task[k].mtime \in Nat /\ task[k].mtime <= clock
        BY <1>3
      <4>2. task[k].mtime <= clock'
        BY <4>1, <2>3, <1>1
      <4>3. task[k].pc \in {"look", "hash", "stats", "upsert"} => task[k].mtime # 0
        BY <1>2 DEF GoodTask
      <4>4. task[k].pc \in {"stats", "upsert"} /\ task[k].mtime = file'[task[k].path].mtime =>
                task[k].hash = file'[task[k].path].content
        <5>1. CASE task[k].path = p
          BY <5>1, <4>1, <4>3, <2>4
        <5>2. CASE task[k].pc \in {"stats", "upsert"} /\ task[k].path # p
          <6>1. task[k].path \in Paths
            BY <5>2, <1>1 DEF TypeInv, Placed
          <6>2. file'[task[k].path] = file[task[k].path]
            BY <5>2, <6>1, <2>1
          <6> QED BY <6>2, <1>2 DEF GoodTask
        <5> QED BY <5>1, <5>2
      <4> QED BY <3>2, <4>2, <4>3, <4>4 DEF GoodTask
    <3> QED BY <2>2, <3>1, <3>2
  <2>8. (/\ TypeInv
         /\ \A q \in Paths : file[q].mtime <= clock /\ (file[q].there => file[q].mtime # 0)
         /\ \A q \in Paths : row[q].mtime <= clock /\ GoodRow(row[q], q)
         /\ \A k \in Tasks : task[k].mtime <= clock /\ GoodTask(task[k]))' => SkipInv'
    BY DEF SkipInv, NoTimeAhead, Dated, HashFits, SkipIsSafe, GoodRow, GoodTask, Indexed, Tasks
  <2>9. (\A q \in Paths : row[q].mtime <= clock /\ GoodRow(row[q], q))'
    BY <2>6
  <2>10. (\A k \in Tasks : task[k].mtime <= clock /\ GoodTask(task[k]))'
    BY <2>7 DEF Tasks
  <2> QED BY <2>5, <2>8, <2>9, <2>10
<1>5. CASE Unmount \/ Mount
  <2>1. UNCHANGED <<clock, file, row, task>>
    BY <1>5 DEF Unmount, Mount
  <2> QED BY <2>1, SkipFrame
<1> QED BY <1>4, <1>5

LEMMA SkipLibrary ==
    ASSUME SkipInv, TypeInv', DeleteLibrary \/ CreateLibrary \/ Restart
    PROVE  SkipInv'
<1>1. clock \in Nat /\ 0 <= clock
  BY IndexAssumption DEF SkipInv, TypeInv, TypeOK, Time
<1>2. UNCHANGED <<clock, file>>
  BY DEF DeleteLibrary, CreateLibrary, Restart, diskVars
<1>3. ASSUME NEW p \in Paths
      PROVE  row'[p] = row[p] \/ (row'[p].mtime <= clock /\ GoodRow(row'[p], p))
  <2>1. row'[p] = row[p] \/ row'[p] = NoRow
    BY DEF DeleteLibrary, CreateLibrary, Restart
  <2>2. NoRow.mtime <= clock /\ GoodRow(NoRow, p)
    BY <1>1, NothingGood
  <2> QED BY <2>1, <2>2
<1>4. ASSUME NEW k \in Tasks
      PROVE  task'[k] = task[k] \/ (task'[k].mtime <= clock /\ GoodTask(task'[k]))
  <2>1. task'[k] = task[k] \/ task'[k] = NoTask
    BY DEF DeleteLibrary, CreateLibrary, Restart
  <2>2. NoTask.mtime <= clock /\ GoodTask(NoTask)
    BY <1>1, NothingGood
  <2> QED BY <2>1, <2>2
<1> QED BY <1>2, <1>3, <1>4, SkipFrame

LEMMA SkipInit == Init => SkipInv
<1> SUFFICES ASSUME Init PROVE SkipInv
  OBVIOUS
<1>1. TypeInv /\ clock = 0
  BY TypeInit DEF Init
<1>2. \A p \in Paths : file[p] = NoFile /\ row[p] = NoRow
  BY DEF Init
<1>3. \A k \in Tasks : task[k] = NoTask
  BY DEF Init
<1>4. \A p \in Paths : file[p].mtime <= clock /\ (file[p].there => file[p].mtime # 0)
  BY <1>1, <1>2 DEF NoFile
<1>5. \A p \in Paths : row[p].mtime <= clock /\ GoodRow(row[p], p)
  BY <1>1, <1>2, NothingGood
<1>6. \A k \in Tasks : task[k].mtime <= clock /\ GoodTask(task[k])
  BY <1>1, <1>3, NothingGood
<1> QED BY <1>1, <1>4, <1>5, <1>6, SkipParts

LEMMA SkipStep == SkipInv /\ [Next]_vars => SkipInv'
<1> SUFFICES ASSUME SkipInv, [Next]_vars PROVE SkipInv'
  OBVIOUS
<1>1. TypeInv'
  BY TypeStep DEF SkipInv
<1>2. CASE UNCHANGED vars
  BY <1>1, <1>2, SkipFrame DEF vars, diskVars
<1>3. CASE \/ \E p \in Paths : WriteFile(p) \/ TouchFile(p) \/ RemoveFile(p)
           \/ Unmount \/ Mount
  BY <1>1, <1>3, SkipDisk
<1>4. ASSUME NEW s \in Scans, StartScan(s) \/ ScanStep(s)
      PROVE  SkipInv'
  <2>1. CASE ProcessFile(s)
    BY <1>1, <2>1, SkipProcessFile DEF Tasks
  <2> QED BY <2>1, <1>1, <1>4, SkipScan DEF ScanStep
<1>5. ASSUME NEW t \in Timers, TimerStep(t)
      PROVE  SkipInv'
  <2>1. CASE ProcessFile(t)
    BY <1>1, <2>1, SkipProcessFile DEF Tasks
  <2> QED BY <2>1, <1>1, <1>5, SkipTimer DEF TimerStep
<1>6. CASE DeleteLibrary \/ CreateLibrary \/ Restart
  BY <1>1, <1>6, SkipLibrary
<1> QED BY <1>2, <1>3, <1>4, <1>5, <1>6 DEF Next

\* However many scans, timers and restarts cross on one path, a row that has its
\* file's time has the hash of its file's contents: the files that processFile
\* skips are the ones it need not read.
THEOREM SkipSafe == Spec => []SkipIsSafe
<1>1. SkipInv => SkipIsSafe
  BY DEF SkipInv
<1> QED BY SkipInit, SkipStep, <1>1, PTL DEF Spec

-----------------------------------------------------------------------------
(* What a scan may remove.  While a scan is under way, what it has not come *)
(* across of the folders behind it could not be read at some moment.        *)

\* The walk has come by path p.
Behind(t, p) ==
    \/ t.pc = "walk" /\ p < t.path
    \/ t.pc \in {"stat", "look", "hash", "stats", "upsert"} /\ p <= t.path
    \/ t.pc \in {"count", "clean"}

Noticed(s, p) ==
    /\ task[s].pc # "idle" /\ ~Readable(p) => p \in absent[s]
    /\ Behind(task[s], p) => p \in found[s] \cup absent[s]

MissInv == TypeInv /\ \A s \in Scans, p \in Paths : Noticed(s, p)

\* The goroutine of a scan is no timer of the watcher.
LEMMA ScansKept ==
    ASSUME TypeInv, NEW s \in Scans, NEW p \in Paths, NEW op, HandleEvent(p, op)
    PROVE  task'[s] = task[s]
<1>1. task \in [Tasks -> Task] /\ debounce[p] \in Timers \cup {NoTimer} /\ s \in Tasks
      /\ s \notin Timers
  BY IndexAssumption DEF TypeInv, TypeOK, Tasks
<1>2. Stopped(p)[s] = task[s] /\ Stopped(p) \in [Tasks -> Task]
  <2>1. Stopped(p) = task \/ \E t \in Timers : Stopped(p) = [task EXCEPT ![t] = NoTask]
    BY <1>1 DEF Stopped
  <2> QED BY <1>1, <2>1, StoppedType
<1>3. ASSUME NEW lib, DebounceOp(p, op, lib)
      PROVE  task'[s] = task[s]
  <2> DEFINE free == {t \in Timers : Stopped(p)[t].pc = "idle"}
  <2>1. (CHOOSE u \in free : TRUE) \in free
    BY <1>3 DEF DebounceOp
  <2>2. \E t \in Timers : \E new : task' = [Stopped(p) EXCEPT ![t] = new]
    BY <1>3, <2>1 DEF DebounceOp
  <2> QED BY <1>1, <1>2, <2>2
<1> QED BY <1>3 DEF HandleEvent

\* A goroutine that returns from a path has none behind it but the ones up to it.
LEMMA ReturnedBehind ==
    ASSUME TypeInv, NEW s \in Scans, Placed(s), NEW p \in Paths, Behind(Returned(s), p)
    PROVE  p <= task[s].path
<1>1. task[s] \in Task /\ task[s].path \in Paths /\ s \notin Timers
  BY IndexAssumption DEF TypeInv, TypeOK, Tasks
<1>2. CASE task[s].path = N
  BY <1>2 DEF Paths
<1>3. CASE task[s].path # N
  <2> DEFINE to == [NoTask EXCEPT !.pc = "walk", !.library = task[s].library,
                                  !.path = task[s].path + 1]
  <2>1. Returned(s) = to
    BY <1>1, <1>3 DEF Returned
  <2>2. to.pc = "walk" /\ to.path = task[s].path + 1
    BY DEF NoTask
  <2> HIDE DEF to
  <2>3. p < task[s].path + 1
    BY <2>1, <2>2 DEF Behind
  <2> QED BY <2>3, <1>1 DEF Paths
<1> QED BY <1>2, <1>3

\* One scan takes a step, while the files stay as they are.
LEMMA MissScanStep ==
    ASSUME MissInv, TypeInv', NEW s \in Scans, NEW to, task' = [task EXCEPT ![s] = to],
           UNCHANGED <<file, mounted>>,
           NEW fs \in SUBSET Paths, found' = [found EXCEPT ![s] = fs],
           NEW as \in SUBSET Paths, absent' = [absent EXCEPT ![s] = as],
           \A p \in Paths : to.pc # "idle" /\ ~Readable(p) => p \in as,
           \A p \in Paths : Behind(to, p) => p \in fs \cup as
    PROVE  MissInv'
<1>1. /\ task \in [Tasks -> Task] /\ found \in [Scans -> SUBSET Paths] /\ s \in Tasks
      /\ absent \in [Scans -> SUBSET Paths]
  BY DEF MissInv, TypeInv, TypeOK, Tasks
<1>2. \A p \in Paths : Readable(p)' <=> Readable(p)
  BY DEF Readable
<1>3. ASSUME NEW r \in Scans, NEW p \in Paths
      PROVE  Noticed(r, p)'
  <2>1. CASE r = s
    <3>1. task'[r] = to /\ found'[r] = fs /\ absent'[r] = as
      BY <2>1, <1>1
    <3> QED BY <3>1, <1>2 DEF Noticed
  <2>2. CASE r # s
    <3>1. task'[r] = task[r] /\ found'[r] = found[r] /\ absent'[r] = absent[r]
      BY <2>2, <1>1
    <3>2. Noticed(r, p)
      BY DEF MissInv
    <3> QED BY <3>1, <3>2, <1>2 DEF Noticed
  <2> QED BY <2>1, <2>2
<1> QED BY <1>3 DEF MissInv

\* The same where it has come across nothing new.
LEMMA MissContinue ==
    ASSUME MissInv, TypeInv', NEW s \in Scans, NEW to, task' = [task EXCEPT ![s] = to],
           UNCHANGED <<file, mounted, found, absent>>,
           task[s].pc # "idle",
           \A p \in Paths : Behind(to, p) => p \in found[s] \cup absent[s]
    PROVE  MissInv'
<1>1. /\ found' = [found EXCEPT ![s] = found[s]] /\ found[s] \in SUBSET Paths
      /\ absent' = [absent EXCEPT ![s] = absent[s]] /\ absent[s] \in SUBSET Paths
  BY DEF MissInv, TypeInv, TypeOK
<1>2. \A p \in Paths : ~Readable(p) => p \in absent[s]
  BY DEF MissInv, Noticed
<1> QED BY <1>1, <1>2, MissScanStep

\* Steps of others: the scans and what they came across stay, and whatever can
\* no longer be read is noted.
LEMMA MissOthers ==
    ASSUME MissInv, TypeInv', \A s \in Scans : task'[s] = task[s], found' = found,
           \A s \in Scans : task[s].pc # "idle" => absent[s] \subseteq absent'[s],
           \A s \in Scans, p \in Paths :
               task[s].pc # "idle" /\ ~Readable(p)' => ~Readable(p) \/ p \in absent'[s]
    PROVE  MissInv'
<1>1. ASSUME NEW s \in Scans, NEW p \in Paths
      PROVE  Noticed(s, p)'
  <2>1. Noticed(s, p) /\ task'[s] = task[s] /\ found'[s] = found[s]
    BY DEF MissInv
  <2>2. CASE task[s].pc = "idle"
    <3>1. ~Behind(task'[s], p)
      BY <2>1, <2>2 DEF Behind
    <3> QED BY <3>1, <2>1, <2>2 DEF Noticed
  <2>3. CASE task[s].pc # "idle"
    <3>1. absent[s] \subseteq absent'[s]
      BY <2>3
    <3>2. ~Readable(p)' => p \in absent'[s]
      BY <2>1, <2>3, <3>1 DEF Noticed
    <3>3. Behind(task'[s], p) => p \in found'[s] \cup absent'[s]
      BY <2>1, <3>1 DEF Noticed
    <3> QED BY <3>2, <3>3 DEF Noticed
  <2> QED BY <2>2, <2>3
<1> QED BY <1>1 DEF MissInv

LEMMA MissDisk ==
    ASSUME MissInv, TypeInv',
           \/ \E p \in Paths : WriteFile(p) \/ TouchFile(p) \/ RemoveFile(p)
           \/ Unmount \/ Mount
    PROVE  MissInv'
<1>1. /\ TypeInv /\ file \in [Paths -> File] /\ absent \in [Scans -> SUBSET Paths]
  BY DEF MissInv, TypeInv, TypeOK
<1>2. ASSUME NEW p \in Paths, WriteFile(p) \/ TouchFile(p)
      PROVE  MissInv'
  <2>1. \A s \in Scans : task'[s] = task[s]
    BY <1>1, <1>2, ScansKept DEF WriteFile, TouchFile
  <2>2. found' = found /\ absent' = absent /\ mounted' = mounted
    BY <1>2 DEF WriteFile, TouchFile, scanVars
  <2>3. \A q \in Paths : file[q].there => file'[q].there
    <3>1. CASE WriteFile(p)
      BY <3>1, <1>1 DEF WriteFile
    <3>2. CASE TouchFile(p)
      <4>1. file[p] \in File
        BY <1>1
      <4> QED BY <3>2, <4>1, <1>1 DEF TouchFile, File
    <3> QED BY <3>1, <3>2, <1>2
  <2> QED BY <2>1, <2>2, <2>3, MissOthers DEF Readable
<1>3. ASSUME NEW p \in Paths, RemoveFile(p)
      PROVE  MissInv'
  <2>1. \A s \in Scans : task'[s] = task[s]
    BY <1>1, <1>3, ScansKept DEF RemoveFile
  <2>2. /\ found' = found /\ mounted' = mounted /\ file' = [file EXCEPT ![p] = NoFile]
        /\ Vanish({p})
    BY <1>3 DEF RemoveFile
  <2>3. \A s \in Scans : task[s].pc # "idle" => absent'[s] = absent[s] \cup {p}
    BY <2>2 DEF Vanish
  <2>4. \A q \in Paths : q # p => file'[q] = file[q]
    BY <2>2, <1>1
  <2> QED BY <2>1, <2>2, <2>3, <2>4, MissOthers DEF Readable
<1>4. CASE Unmount
  <2>1. found' = found /\ task' = task /\ Vanish(Paths)
    BY <1>4 DEF Unmount
  <2>2. \A s \in Scans : task[s].pc # "idle" => absent'[s] = absent[s] \cup Paths
    BY <2>1 DEF Vanish
  <2> QED BY <2>1, <2>2, MissOthers
<1>5. CASE Mount
  <2>1. found' = found /\ task' = task /\ absent' = absent /\ file' = file /\ mounted'
    BY <1>5 DEF Mount, scanVars
  <2> QED BY <2>1, MissOthers DEF Readable
<1> QED BY <1>2, <1>3, <1>4, <1>5

LEMMA MissScan ==
    ASSUME MissInv, TypeInv', NEW s \in Scans, StartScan(s) \/ ScanStep(s)
    PROVE  MissInv'
<1>1. /\ TypeInv /\ task \in [Tasks -> Task] /\ task[s] \in Task /\ s \in Tasks
      /\ found[s] \in SUBSET Paths /\ absent[s] \in SUBSET Paths
      /\ found \in [Scans -> SUBSET Paths] /\ absent \in [Scans -> SUBSET Paths]
  BY DEF MissInv, TypeInv, TypeOK, Tasks
<1>2. \A p \in Paths : Noticed(s, p)
  BY DEF MissInv
<1>3. UNCHANGED <<file, mounted>>
  BY DEF StartScan, ScanStep, ProcessFile, VisitFile, VisitNothing, VisitUnreadable, WalkFails,
         CountBooks, DeleteBooksNotIn, QueryFails, Stat, Look, HashAndParse, UpdateFileStats,
         UpsertBook, ProcessFails, diskVars
<1>4. EndScan(s) => MissInv'
  <2> SUFFICES ASSUME EndScan(s) PROVE MissInv'
    OBVIOUS
  <2>1. NoTask.pc = "idle"
    BY DEF NoTask
  <2>2. \A p \in Paths : ~Behind(NoTask, p)
    BY <2>1 DEF Behind
  <2> QED BY <2>1, <2>2, <1>3, MissScanStep DEF EndScan
<1>5. CASE StartScan(s)
  <2> DEFINE to == [NoTask EXCEPT !.pc = "walk", !.path = 1, !.library = library]
  <2>1. to.pc = "walk" /\ to.path = 1
    BY DEF NoTask
  <2>2. /\ task' = [task EXCEPT ![s] = to]
        /\ found' = [found EXCEPT ![s] = {}]
        /\ absent' = [absent EXCEPT ![s] = {p \in Paths : ~Readable(p)}]
    BY <1>5 DEF StartScan
  <2> HIDE DEF to
  <2>3. \A p \in Paths : ~Behind(to, p)
    BY <2>1, IndexAssumption DEF Behind, Paths
  <2>4. {p \in Paths : ~Readable(p)} \in SUBSET Paths /\ {} \in SUBSET Paths
    OBVIOUS
  <2> DEFINE as == {p \in Paths : ~Readable(p)}
  <2>5. \A p \in Paths : ~Readable(p) => p \in as
    OBVIOUS
  <2> HIDE DEF as
  <2> QED BY <2>2, <2>3, <2>4, <2>5, <1>3, MissScanStep DEF as
<1>6. CASE VisitFile(s)
  <2> DEFINE q == task[s].path
             to == [task[s] EXCEPT !.pc = "stat"]
  <2>1. to.pc = "stat" /\ to.path = q /\ q \in Paths /\ task[s].pc = "walk"
    BY <1>6, <1>1 DEF Task, VisitFile, TypeInv, Placed
  <2>2. /\ task' = [task EXCEPT ![s] = to]
        /\ found' = [found EXCEPT ![s] = found[s] \cup {q}]
        /\ absent' = [absent EXCEPT ![s] = absent[s]]
    BY <1>6, <1>1 DEF VisitFile
  <2> HIDE DEF to
  <2>3. \A p \in Paths : Behind(to, p) => p = q \/ Behind(task[s], p)
    BY <2>1 DEF Behind, Paths
  <2>4. \A p \in Paths : Behind(to, p) => p \in (found[s] \cup {q}) \cup absent[s]
    BY <2>3, <1>2 DEF Noticed
  <2>5. \A p \in Paths : ~Readable(p) => p \in absent[s]
    BY <2>1, <1>2 DEF Noticed
  <2>6. found[s] \cup {q} \in SUBSET Paths
    BY <1>1, <2>1
  <2> QED BY <2>2, <2>4, <2>5, <2>6, <1>1, <1>3, MissScanStep
<1>7. ASSUME Return(s), task[s].pc # "idle", Placed(s), UNCHANGED <<found, absent>>,
             \A p \in Paths : p <= task[s].path => p \in found[s] \cup absent[s]
      PROVE  MissInv'
  <2>1. \A p \in Paths : Behind(Returned(s), p) => p \in found[s] \cup absent[s]
    BY <1>1, <1>7, ReturnedBehind
  <2>2. task' = [task EXCEPT ![s] = Returned(s)]
    BY <1>7 DEF Return
  <2> QED BY <2>1, <2>2, <1>3, <1>7, MissContinue
<1>8. ASSUME task[s].pc = "walk"
      PROVE  /\ Placed(s) /\ task[s].path \in Paths
             /\ \A p \in Paths : p <= task[s].path /\ p # task[s].path =>
                                     p \in found[s] \cup absent[s]
  <2>1. Placed(s) /\ task[s].path \in Paths
    BY <1>1, <1>8 DEF TypeInv, Placed
  <2>2. \A p \in Paths : p <= task[s].path /\ p # task[s].path => p < task[s].path
    BY <2>1 DEF Paths
  <2>3. \A p \in Paths : p < task[s].path => p \in found[s] \cup absent[s]
    BY <1>2, <1>8 DEF Noticed, Behind
  <2> QED BY <2>1, <2>2, <2>3
<1>9. CASE VisitNothing(s)
  <2>1. /\ task[s].pc = "walk" /\ ~Readable(task[s].path) /\ Return(s)
        /\ UNCHANGED <<found, absent>>
    BY <1>9 DEF VisitNothing, scanVars
  <2>2. task[s].path \in absent[s]
    BY <2>1, <1>2, <1>8 DEF Noticed
  <2> QED BY <2>1, <2>2, <1>7, <1>8
<1>10. CASE VisitUnreadable(s)
  <2> DEFINE q  == task[s].path
             as == absent[s] \cup {q}
  <2>1. task[s].pc = "walk" /\ Return(s) /\ found' = found
    BY <1>10 DEF VisitUnreadable
  <2>2. /\ task' = [task EXCEPT ![s] = Returned(s)]
        /\ found' = [found EXCEPT ![s] = found[s]]
        /\ absent' = [absent EXCEPT ![s] = as]
    BY <1>1, <1>10 DEF VisitUnreadable, Return
  <2>3. \A p \in Paths : Behind(Returned(s), p) => p \in found[s] \cup as
    <3>1. \A p \in Paths : Behind(Returned(s), p) => p <= task[s].path
      BY <1>1, <1>8, <2>1, ReturnedBehind
    <3> QED BY <3>1, <2>1, <1>8
  <2>4. \A p \in Paths : ~Readable(p) => p \in as
    BY <2>1, <1>2 DEF Noticed
  <2>5. as \in SUBSET Paths
    BY <1>1, <1>8, <2>1
  <2> HIDE DEF as
  <2> QED BY <2>2, <2>3, <2>4, <2>5, <1>1, <1>3, MissScanStep
<1>11. CASE ProcessFile(s)
  <2>1. task[s].pc \in {"stat", "look", "hash", "stats", "upsert"} /\ UNCHANGED <<found, absent>>
    BY <1>11 DEF ProcessFile, Stat, Look, HashAndParse, UpdateFileStats, UpsertBook,
                 ProcessFails, scanVars
  <2>2. \A p \in Paths : p <= task[s].path => p \in found[s] \cup absent[s]
    BY <2>1, <1>2 DEF Noticed, Behind
  <2>3. CASE Return(s)
    BY <2>1, <2>2, <2>3, <1>7 DEF Placed
  <2>4. ASSUME NEW to, task' = [task EXCEPT ![s] = to], to.path = task[s].path,
               to.pc \in {"look", "hash", "stats", "upsert"}
        PROVE  MissInv'
    <3>1. \A p \in Paths : Behind(to, p) => p <= task[s].path
      BY <2>4 DEF Behind
    <3> QED BY <3>1, <2>1, <2>2, <2>4, <1>3, MissContinue
  <2>5. \/ Return(s)
        \/ \E to : /\ task' = [task EXCEPT ![s] = to] /\ to.path = task[s].path
                   /\ to.pc \in {"look", "hash", "stats", "upsert"}
    <3>1. CASE Stat(s)
      <4> DEFINE to == [task[s] EXCEPT !.pc = "look", !.mtime = file[task[s].path].mtime]
      <4>1. to.pc = "look" /\ to.path = task[s].path
        BY <1>1 DEF Task
      <4>2. Return(s) \/ task' = [task EXCEPT ![s] = to]
        BY <3>1 DEF Stat, Continue
      <4> HIDE DEF to
      <4> QED BY <4>1, <4>2
    <3>2. CASE Look(s)
      <4> DEFINE r  == row[task[s].path]
                 to == [task[s] EXCEPT !.pc = "hash", !.id = r.id, !.hash = r.hash]
      <4>1. to.pc = "hash" /\ to.path = task[s].path
        BY <1>1 DEF Task
      <4>2. Return(s) \/ task' = [task EXCEPT ![s] = to]
        BY <3>2 DEF Look, Continue
      <4> HIDE DEF to
      <4> QED BY <4>1, <4>2
    <3>3. CASE HashAndParse(s)
      <4>1. \/ Return(s)
            \/ task' = [task EXCEPT ![s] = [task[s] EXCEPT !.pc = "stats"]]
            \/ \E h, i : task' = [task EXCEPT ![s] = [task[s] EXCEPT !.pc = "upsert", !.hash = h,
                                                                    !.id = i]]
        BY <3>3 DEF HashAndParse, Continue
      <4>2. CASE Return(s)
        BY <4>2
      <4>3. CASE task' = [task EXCEPT ![s] = [task[s] EXCEPT !.pc = "stats"]]
        <5> DEFINE to == [task[s] EXCEPT !.pc = "stats"]
        <5>1. to.pc = "stats" /\ to.path = task[s].path
          BY <1>1 DEF Task
        <5> HIDE DEF to
        <5> QED BY <4>3, <5>1 DEF to
      <4>4. ASSUME NEW h, NEW i,
                   task' = [task EXCEPT ![s] = [task[s] EXCEPT !.pc = "upsert", !.hash = h,
                                                               !.id = i]]
            PROVE  \E to : /\ task' = [task EXCEPT ![s] = to] /\ to.path = task[s].path
                           /\ to.pc \in {"look", "hash", "stats", "upsert"}
        <5> DEFINE to == [task[s] EXCEPT !.pc = "upsert", !.hash = h, !.id = i]
        <5>1. to.pc = "upsert" /\ to.path = task[s].path
          BY <1>1 DEF Task
        <5>2. task' = [task EXCEPT ![s] = to]
          BY <4>4
        <5> HIDE DEF to
        <5> QED BY <5>1, <5>2
      <4> QED BY <4>1, <4>2, <4>3, <4>4
    <3>4. CASE UpdateFileStats(s) \/ UpsertBook(s) \/ ProcessFails(s)
      BY <3>4 DEF UpdateFileStats, UpsertBook, ProcessFails
    <3> QED BY <3>1, <3>2, <3>3, <3>4, <1>11 DEF ProcessFile
  <2> QED BY <2>3, <2>4, <2>5
<1>12. CASE CountBooks(s)
  <2>1. CASE task' = [task EXCEPT ![s].pc = "clean"] /\ UNCHANGED scanVars
    <3> DEFINE to == [task[s] EXCEPT !.pc = "clean"]
    <3>1. task' = [task EXCEPT ![s] = to] /\ UNCHANGED <<found, absent>>
      BY <2>1, <1>1 DEF scanVars
    <3>2. task[s].pc = "count"
      BY <1>12 DEF CountBooks
    <3>3. \A p \in Paths : p \in found[s] \cup absent[s]
      BY <3>2, <1>2 DEF Noticed, Behind
    <3> HIDE DEF to
    <3> QED BY <3>1, <3>2, <3>3, <1>3, MissContinue
  <2> QED BY <2>1, <1>4, <1>12 DEF CountBooks
<1>13. CASE WalkFails(s) \/ DeleteBooksNotIn(s) \/ QueryFails(s)
  BY <1>4, <1>13 DEF WalkFails, DeleteBooksNotIn, QueryFails
<1> QED BY <1>5, <1>6, <1>9, <1>10, <1>11, <1>12, <1>13 DEF ScanStep

LEMMA MissTimer ==
    ASSUME MissInv, TypeInv', NEW t \in Timers, TimerStep(t)
    PROVE  MissInv'
<1>1. /\ UNCHANGED <<file, mounted, found, absent>>
      /\ \E to : task' = [task EXCEPT ![t] = to]
  BY DEF TimerStep, Fire, DeleteBookByPath, Forget, ProcessFile, Stat, Look, HashAndParse,
         UpdateFileStats, UpsertBook, ProcessFails, Return, Continue, diskVars, scanVars
<1>2. \A s \in Scans : task'[s] = task[s]
  BY <1>1, IndexAssumption DEF MissInv, TypeInv, TypeOK, Tasks
<1> QED BY <1>1, <1>2, MissOthers DEF Readable

LEMMA MissLibrary ==
    ASSUME MissInv, TypeInv', DeleteLibrary \/ CreateLibrary \/ Restart
    PROVE  MissInv'
<1>1. CASE DeleteLibrary \/ CreateLibrary
  <2>1. UNCHANGED <<file, mounted, task, found, absent>>
    BY <1>1 DEF DeleteLibrary, CreateLibrary, diskVars, scanVars
  <2> QED BY <2>1, MissOthers DEF Readable
<1>2. CASE Restart
  <2>1. \A s \in Scans : task'[s].pc = "idle"
    BY <1>2 DEF Restart, NoTask, Tasks
  <2> QED BY <2>1 DEF MissInv, Noticed, Behind
<1> QED BY <1>1, <1>2

LEMMA MissStep == MissInv /\ [Next]_vars => MissInv'
<1> SUFFICES ASSUME MissInv, [Next]_vars PROVE MissInv'
  OBVIOUS
<1>1. TypeInv'
  BY TypeStep DEF MissInv
<1>2. CASE UNCHANGED vars
  <2>1. UNCHANGED <<file, mounted, task, found, absent>>
    BY <1>2 DEF vars, diskVars, scanVars
  <2> QED BY <1>1, <2>1, MissOthers DEF Readable
<1>3. CASE \/ \E p \in Paths : WriteFile(p) \/ TouchFile(p) \/ RemoveFile(p)
           \/ Unmount \/ Mount
  BY <1>1, <1>3, MissDisk
<1>4. ASSUME NEW s \in Scans, StartScan(s) \/ ScanStep(s)
      PROVE  MissInv'
  BY <1>1, <1>4, MissScan
<1>5. ASSUME NEW t \in Timers, TimerStep(t)
      PROVE  MissInv'
  BY <1>1, <1>5, MissTimer
<1>6. CASE DeleteLibrary \/ CreateLibrary \/ Restart
  BY <1>1, <1>6, MissLibrary
<1> QED BY <1>2, <1>3, <1>4, <1>5, <1>6 DEF Next

LEMMA MissInit == Init => MissInv
<1> SUFFICES ASSUME Init PROVE MissInv
  OBVIOUS
<1>1. TypeInv
  BY TypeInit
<1>2. \A s \in Scans : task[s].pc = "idle"
  BY DEF Init, NoTask, Tasks
<1> QED BY <1>1, <1>2 DEF MissInv, Noticed, Behind

\* A scan removes no row of a file that could be read all the while, for any
\* number of files, scans and timers: every path the walk went by was come
\* across or could not be read, and a file it came across stays on the list,
\* whatever becomes of it in processFile.
THEOREM PresentFilesStay == Spec => PresentFilesKeepRows
<1>1. ASSUME MissInv, NEW s \in Scans, DeleteBooksNotIn(s), NEW p \in Paths, Indexed(p),
             row'[p].id = 0
      PROVE  p \in absent[s]
  <2>1. p \in found[s] \cup absent[s]
    BY <1>1 DEF MissInv, Noticed, Behind, DeleteBooksNotIn
  <2>2. p \in NotIn(task[s].library, found[s])
    BY <1>1 DEF DeleteBooksNotIn, Indexed
  <2> QED BY <2>1, <2>2 DEF NotIn
<1>2. MissInv => [\A s \in Scans : DeleteBooksNotIn(s) =>
                     \A p \in Paths : Indexed(p) /\ row'[p].id = 0 => p \in absent[s]]_vars
  BY <1>1
<1> QED BY MissInit, MissStep, <1>2, PTL DEF Spec, PresentFilesKeepRows
=============================================================================
