-------------------------- MODULE BookCoversProofs --------------------------
(***************************************************************************)
(* For any number of goroutines, versions of the file, covers, crashes and *)
(* failing writes: unless writers overlapped, the row's cover is there and *)
(* is not older than its hash; a writer that runs alone repairs it; no     *)
(* cover is left over if nothing failed; and an integrity check under      *)
(* which nothing changed reports exactly what is wrong.                    *)
(***************************************************************************)
EXTENDS BookCovers, TLAPS

\* What a goroutine's locals are when it is at pc, and coverregen's.
TaskLocals(t) ==
    /\ t.pc \in {"stats", "open", "save", "upsert", "supersede"} => t.id # 0 /\ t.hash # 0
    /\ t.pc = "hash" /\ t.id # 0 => t.hash # 0
    /\ t.pc \in {"hash", "open", "save", "upsert"} => t.library # 0

RegenLocals ==
    /\ regen.pc # "idle" => regen.id # 0
    /\ regen.pc \in {"write", "update", "remove"} =>
          regen.cover # NoCover /\ regen.cover # regen.old

TypeInv ==
    /\ TypeOK
    /\ \A k \in Tasks : TaskLocals(task[k])
    /\ RegenLocals
    /\ check.pc = "idle" => check = NoCheck

-----------------------------------------------------------------------------
(* Files and names.                                                        *)

\* A fresh id is no part of the name of a cover that is there, or that the row or
\* coverregen names.
LEMMA FreshIds ==
    ASSUME Ids \ InUse # {}
    PROVE  /\ FreshId \in Ids
           /\ \A n \in Names :
                 covers[n].there \/ n \in {row.cover, regen.old, regen.cover} => n[1] # FreshId
<1>1. FreshId \in Ids /\ FreshId \notin InUse
  BY DEF FreshId
<1> QED BY <1>1 DEF InUse

\* The folder with a cover written, and with one removed.
LEMMA FolderTypes ==
    ASSUME covers \in [Names -> Content]
    PROVE  /\ \A n \in Cover, v \in Versions : Write(n, v) \in [Names -> Content]
           /\ \A n \in Cover : Remove(n) \in [Names -> Content]
           /\ \A n \in Names : [covers EXCEPT ![n] = Torn] \in [Names -> Content]
<1>1. Gone \in Content /\ (0 \in Versions => Torn \in Content)
  BY CoversAssumption DEF Gone, Torn, Content, Versions
<1> QED BY <1>1, CoversAssumption DEF Write, Remove, Cover, Content, Versions, Torn

\* What is set to begin with has its type.
LEMMA Constants ==
    /\ 0 \in Versions /\ 0 \in 0..MaxLibrary /\ 1 \in 1..MaxLibrary
    /\ 0 \in 0..MaxStarts /\ 0 \in 0..MaxFaults
    /\ NoRow \in Row /\ NoTask \in Task /\ NoRegen \in Regen /\ NoCheck \in Check
    /\ NoCover \in Cover /\ NoCover \notin Names
    /\ TaskLocals(NoTask)
BY CoversAssumption
   DEF NoRow, NoTask, NoRegen, NoCheck, Row, Task, Regen, Check, Cover, Names, Versions, Ids,
       TaskLocals

LEMMA DisturbTypes ==
    ASSUME TypeInv, Disturb
    PROVE  check' \in Check /\ (check'.pc = "idle" => check' = NoCheck)
<1>1. check' = check \/ check' = NoCheck
  BY DEF Disturb
<1> QED BY <1>1, Constants DEF TypeInv, TypeOK

-----------------------------------------------------------------------------
(* Types.                                                                  *)

\* A goroutine takes a step.
LEMMA StepTypes ==
    ASSUME TypeInv, NEW k \in Tasks, NEW t \in Task, TaskLocals(t), Step(k, t)
    PROVE  /\ task' \in [Tasks -> Task] /\ task'[k] = t
           /\ \A j \in Tasks \ {k} : task'[j] = task[j]
           /\ \A j \in Tasks : TaskLocals(task'[j])
BY DEF TypeInv, TypeOK, Step

LEMMA ReturnTypes ==
    ASSUME TypeInv, NEW k \in Tasks, Return(k)
    PROVE  /\ task' \in [Tasks -> Task] /\ task'[k] = NoTask
           /\ \A j \in Tasks \ {k} : task'[j] = task[j]
           /\ \A j \in Tasks : TaskLocals(task'[j])
<1>1. NoTask \in Task /\ TaskLocals(NoTask) /\ Step(k, NoTask)
  BY Constants DEF Return
<1> QED BY <1>1, StepTypes

\* A writer starts: the others are not alone any more.
LEMMA StartTypes ==
    ASSUME TypeInv, NEW k \in Tasks, NEW t \in Task, TaskLocals(t), Start(k, t)
    PROVE  /\ task' \in [Tasks -> Task]
           /\ task'[k] = [t EXCEPT !.alone = Resting]
           /\ \A j \in Tasks \ {k} : task'[j] = [task[j] EXCEPT !.alone = FALSE]
           /\ \A j \in Tasks : TaskLocals(task'[j])
           /\ crossed' \in BOOLEAN /\ littered' \in BOOLEAN /\ starts' \in 0..MaxStarts
<1>1. Resting \in BOOLEAN
  BY DEF Resting
<1>2. \A s \in Task, b \in BOOLEAN :
          /\ [s EXCEPT !.alone = b] \in Task
          /\ TaskLocals(s) => TaskLocals([s EXCEPT !.alone = b])
  BY DEF Task, TaskLocals
<1>3. /\ task'[k] = [t EXCEPT !.alone = Resting]
      /\ \A j \in Tasks \ {k} : task'[j] = [task[j] EXCEPT !.alone = FALSE]
      /\ task' = [j \in Tasks |-> IF j = k THEN [t EXCEPT !.alone = Resting]
                                           ELSE [task[j] EXCEPT !.alone = FALSE]]
  BY DEF Start
<1>4. /\ [t EXCEPT !.alone = Resting] \in Task
      /\ TaskLocals([t EXCEPT !.alone = Resting])
  BY <1>1, <1>2
<1>5. \A j \in Tasks : /\ [task[j] EXCEPT !.alone = FALSE] \in Task
                       /\ TaskLocals([task[j] EXCEPT !.alone = FALSE])
  BY <1>2 DEF TypeInv, TypeOK
<1>6. task' \in [Tasks -> Task]
  BY <1>3, <1>4, <1>5
<1>7. \A j \in Tasks : TaskLocals(task'[j])
  BY <1>3, <1>4, <1>5
<1>8. crossed' \in BOOLEAN /\ littered' \in BOOLEAN /\ starts' \in 0..MaxStarts
  BY <1>1, CoversAssumption DEF Start, Overlap, TypeInv, TypeOK
<1> QED BY <1>3, <1>6, <1>7, <1>8

FaultTypes == faults' \in 0..MaxFaults

LEMMA FaultsCount == TypeInv /\ Fault => FaultTypes
BY CoversAssumption DEF TypeInv, TypeOK, Fault, FaultTypes

\* A step of a goroutine that changes neither the row nor the covers.
LEMMA QuietTypes ==
    ASSUME TypeInv, Disturb, UNCHANGED <<disk, libs, row, regen>>,
           covers' \in [Names -> Content],
           task' \in [Tasks -> Task], \A k \in Tasks : TaskLocals(task'[k]),
           crossed' \in BOOLEAN, littered' \in BOOLEAN,
           starts' \in 0..MaxStarts, faults' \in 0..MaxFaults
    PROVE  TypeInv'
BY DisturbTypes DEF TypeInv, TypeOK, RegenLocals, disk, libs

LEMMA TaskTypes ==
    ASSUME TypeInv, Disturb, NEW k \in Tasks, TaskStep(k)
    PROVE  TypeInv'
<1> DEFINE t == task[k]
<1>a. /\ t \in Task /\ TaskLocals(t)
      /\ t.id \in {0} \cup Ids /\ t.cover \in Cover /\ t.old \in Cover /\ t.of \in Versions
  BY DEF TypeInv, TypeOK, Task
<1>b. row \in Row /\ row.id \in {0} \cup Ids /\ file.version \in Versions /\ covers \in [Names -> Content]
      /\ crossed \in BOOLEAN /\ littered \in BOOLEAN /\ library \in 0..MaxLibrary
      /\ made \in 1..MaxLibrary /\ starts \in 0..MaxStarts /\ faults \in 0..MaxFaults /\ row.hash \in Versions /\ row.cover \in Cover
  BY CoversAssumption DEF TypeInv, TypeOK, Row, File
<1>1. CASE ProcessFile(k)
  <2>1. PICK id \in 1..made :
             Start(k, [NoTask EXCEPT !.pc = "hash", !.library = id, !.id = row.id,
                                     !.hash = row.hash, !.old = row.cover])
    BY <1>1 DEF ProcessFile
  <2> DEFINE s == [NoTask EXCEPT !.pc = "hash", !.library = id, !.id = row.id,
                                 !.hash = row.hash, !.old = row.cover]
  <2>2. s \in Task /\ TaskLocals(s)
    <3>0. id \in 0..MaxLibrary /\ id # 0
      BY <1>b, CoversAssumption
    <3>1. s \in Task
      BY <1>b, <3>0, Constants DEF NoTask, Task
    <3>2. row.id # 0 => row.hash # 0
      BY DEF TypeInv, TypeOK
    <3>3. s.pc = "hash" /\ s.id = row.id /\ s.hash = row.hash /\ s.library = id
      BY DEF NoTask
    <3> HIDE DEF s
    <3> QED BY <3>0, <3>1, <3>2, <3>3 DEF TaskLocals
  <2> HIDE DEF s
  <2> QED BY <1>1, <1>b, <2>1, <2>2, StartTypes, QuietTypes DEF ProcessFile, s
<1>2. CASE HashFile(k)
  <2>1. /\ t.pc = "hash" /\ UNCHANGED <<disk, libs, row, covers, regen, tally, faults>>
        /\ \/ Return(k)
           \/ t.id # 0 /\ Step(k, [t EXCEPT !.pc = "stats"])
           \/ /\ Exists /\ (t.id = 0 => Ids \ InUse # {})
              /\ Step(k, [t EXCEPT !.pc = "open", !.hash = file.version,
                                   !.id = IF t.id = 0 THEN FreshId ELSE t.id])
    BY <1>2 DEF HashFile
  <2>2. CASE Return(k)
    BY <2>1, <2>2, <1>b, ReturnTypes, QuietTypes DEF tally
  <2>3. CASE t.id # 0 /\ Step(k, [t EXCEPT !.pc = "stats"])
    <3>1. [t EXCEPT !.pc = "stats"] \in Task /\ TaskLocals([t EXCEPT !.pc = "stats"])
      BY <1>a, <2>1, <2>3 DEF Task, TaskLocals
    <3> QED BY <2>1, <2>3, <3>1, <1>b, StepTypes, QuietTypes DEF tally
  <2>4. CASE /\ Exists /\ (t.id = 0 => Ids \ InUse # {})
             /\ Step(k, [t EXCEPT !.pc = "open", !.hash = file.version,
                                  !.id = IF t.id = 0 THEN FreshId ELSE t.id])
    <3> DEFINE i == IF t.id = 0 THEN FreshId ELSE t.id
               s == [t EXCEPT !.pc = "open", !.hash = file.version, !.id = i]
    <3>1. i \in Ids /\ i # 0
      BY <1>a, <2>4, FreshIds DEF Ids
    <3>2. Step(k, s)
      BY <2>4
    <3> HIDE DEF i
    <3>3. s \in Task /\ TaskLocals(s)
      BY <1>a, <1>b, <2>1, <2>4, <3>1 DEF Task, TaskLocals, Exists
    <3> HIDE DEF s
    <3> QED BY <2>1, <3>2, <3>3, <1>b, StepTypes, QuietTypes DEF tally
  <2> QED BY <2>1, <2>2, <2>3, <2>4
<1>3. CASE UpdateFileStats(k)
  <2>1. /\ t.pc = "stats" /\ Return(k)
        /\ row' = IF row.id = t.id THEN [row EXCEPT !.hash = t.hash] ELSE row
        /\ UNCHANGED <<disk, libs, covers, regen, tally, faults>>
    BY <1>3 DEF UpdateFileStats
  <2>2. t.id # 0 /\ t.hash # 0 /\ t.hash \in Versions
    BY <1>a, <2>1 DEF TaskLocals, Task
  <2>3. /\ row' \in Row /\ (row'.id = 0 => row' = NoRow)
        /\ row'.id # 0 => row'.library = library /\ library # 0 /\ row'.hash # 0
    <3> HIDE DEF t
    <3> QED BY <1>b, <2>1, <2>2 DEF TypeInv, TypeOK, Row
  <2> QED BY <2>1, <2>3, ReturnTypes, DisturbTypes
        DEF TypeInv, TypeOK, RegenLocals, disk, libs, tally
<1>4. CASE Open(k)
  <2>1. /\ t.pc = "open" /\ UNCHANGED <<disk, libs, row, covers, regen, tally, faults>>
        /\ \/ Return(k)
           \/ Step(k, [t EXCEPT !.pc = "save", !.of = file.version,
                                !.cover = IF HasCover THEN CoverName(t.id) ELSE NoCover])
    BY <1>4 DEF Open
  <2>2. CASE Return(k)
    BY <2>1, <2>2, <1>b, ReturnTypes, QuietTypes DEF tally
  <2>3. CASE Step(k, [t EXCEPT !.pc = "save", !.of = file.version,
                               !.cover = IF HasCover THEN CoverName(t.id) ELSE NoCover])
    <3> DEFINE c == IF HasCover THEN CoverName(t.id) ELSE NoCover
               s == [t EXCEPT !.pc = "save", !.of = file.version, !.cover = c]
    <3>1. c \in Cover
      BY <1>a, <2>1 DEF CoverName, HasCover, Cover, Names, TaskLocals, TypeInv, TypeOK, File
    <3>2. Step(k, s)
      BY <2>3
    <3> HIDE DEF c
    <3>3. s \in Task /\ TaskLocals(s)
      BY <1>a, <1>b, <2>1, <3>1 DEF Task, TaskLocals
    <3> HIDE DEF s
    <3> QED BY <2>1, <3>2, <3>3, <1>b, StepTypes, QuietTypes DEF tally
  <2> QED BY <2>1, <2>2, <2>3
<1>5. CASE SaveCover(k)
  <2>1. [t EXCEPT !.pc = "upsert"] \in Task /\ TaskLocals([t EXCEPT !.pc = "upsert"])
    BY <1>5, <1>a DEF SaveCover, Task, TaskLocals
  <2>2. covers' \in [Names -> Content]
    BY <1>5, <1>a, <1>b, FolderTypes DEF SaveCover
  <2>3. /\ Step(k, [t EXCEPT !.pc = "upsert"])
        /\ UNCHANGED <<disk, libs, row, regen, tally, faults>>
    BY <1>5 DEF SaveCover
  <2> QED BY <1>b, <2>1, <2>2, <2>3, StepTypes, QuietTypes DEF tally
<1>6. CASE SaveFails(k)
  <2>1. /\ t.pc = "save" /\ t.cover # NoCover /\ Fault /\ littered' = TRUE
        /\ covers' \in {covers, [covers EXCEPT ![t.cover] = Torn]}
        /\ Step(k, [t EXCEPT !.pc = "upsert", !.cover = NoCover])
        /\ UNCHANGED <<disk, libs, row, regen, crossed, starts>>
    BY <1>6 DEF SaveFails
  <2>2. /\ [t EXCEPT !.pc = "upsert", !.cover = NoCover] \in Task
        /\ TaskLocals([t EXCEPT !.pc = "upsert", !.cover = NoCover])
    BY <2>1, <1>a, Constants DEF Task, TaskLocals
  <2>3. covers' \in [Names -> Content]
    BY <2>1, <1>a, <1>b, FolderTypes DEF Cover
  <2> QED BY <1>b, <2>1, <2>2, <2>3, StepTypes, QuietTypes, FaultsCount DEF FaultTypes
<1>7. CASE UpsertBook(k)
  <2>1. /\ t.pc = "upsert" /\ UNCHANGED <<disk, libs, covers, regen, tally, faults>>
        /\ \/ /\ Indexed \/ t.library = library
              /\ row' = IF Indexed THEN [row EXCEPT !.hash = t.hash, !.cover = t.cover]
                        ELSE [id |-> t.id, library |-> library, hash |-> t.hash, cover |-> t.cover]
              /\ Step(k, [t EXCEPT !.pc = "supersede"])
           \/ Return(k) /\ UNCHANGED row
    BY <1>7 DEF UpsertBook
  <2>2. t.id # 0 /\ t.hash # 0 /\ t.hash \in Versions /\ t.library # 0
    BY <1>a, <2>1 DEF TaskLocals, Task
  <2>3. CASE Step(k, [t EXCEPT !.pc = "supersede"])
             /\ (Indexed \/ t.library = library)
             /\ row' = IF Indexed THEN [row EXCEPT !.hash = t.hash, !.cover = t.cover]
                       ELSE [id |-> t.id, library |-> library, hash |-> t.hash, cover |-> t.cover]
    <3>1. /\ row' \in Row /\ (row'.id = 0 => row' = NoRow)
          /\ row'.id # 0 => row'.library = library /\ library # 0 /\ row'.hash # 0
      <4> HIDE DEF t
      <4> QED BY <1>a, <1>b, <2>3, <2>2 DEF TypeInv, TypeOK, Row, Indexed
    <3>2. [t EXCEPT !.pc = "supersede"] \in Task /\ TaskLocals([t EXCEPT !.pc = "supersede"])
      BY <1>a, <2>1, <2>2 DEF Task, TaskLocals
    <3>3. task' \in [Tasks -> Task] /\ \A j \in Tasks : TaskLocals(task'[j])
      BY <2>3, <3>2, StepTypes
    <3> QED BY <2>1, <3>1, <3>3, DisturbTypes DEF TypeInv, TypeOK, RegenLocals, disk, libs, tally
  <2>4. CASE Return(k) /\ UNCHANGED row
    BY <1>b, <2>1, <2>4, ReturnTypes, QuietTypes DEF tally
  <2> QED BY <2>1, <2>3, <2>4
<1>8. CASE UpsertFails(k)
  BY <1>8, <1>b, ReturnTypes, QuietTypes, FaultsCount DEF UpsertFails, FaultTypes
<1>9. CASE RemoveSuperseded(k)
  <2>1. covers' \in [Names -> Content]
    BY <1>9, <1>a, <1>b, FolderTypes, Constants DEF RemoveSuperseded, Superseded
  <2>2. crossed' \in BOOLEAN
    BY <1>9, <1>a, <1>b DEF RemoveSuperseded, Task
  <2> QED BY <1>9, <1>b, <2>1, <2>2, ReturnTypes, QuietTypes DEF RemoveSuperseded
<1>10. CASE DeleteRow(k)
  <2> DEFINE s == [NoTask EXCEPT !.pc = "unlink", !.old = row.cover]
  <2>1. s \in Task /\ TaskLocals(s)
    BY <1>b, Constants DEF NoTask, Task, TaskLocals
  <2>2. Start(k, s) /\ row' = NoRow /\ UNCHANGED <<disk, libs, covers, regen, faults>>
    BY <1>10 DEF DeleteRow
  <2> HIDE DEF s
  <2>3. row' \in Row /\ row'.id = 0
    BY <2>2, Constants DEF NoRow
  <2> QED BY <2>1, <2>2, <2>3, StartTypes, DisturbTypes
        DEF TypeInv, TypeOK, RegenLocals, disk, libs
<1>11. CASE RemoveCover(k)
  <2>1. covers' \in [Names -> Content]
    BY <1>11, <1>a, <1>b, FolderTypes DEF RemoveCover
  <2> QED BY <1>11, <1>b, <2>1, ReturnTypes, QuietTypes DEF RemoveCover, tally
<1>12. CASE RemoveFails(k)
  BY <1>12, <1>b, ReturnTypes, QuietTypes, FaultsCount DEF RemoveFails, FaultTypes
<1> QED BY <1>1, <1>2, <1>3, <1>4, <1>5, <1>6, <1>7, <1>8, <1>9, <1>10, <1>11, <1>12
      DEF TaskStep

\* coverregen takes a step.
LEMMA RegenTypes ==
    ASSUME TypeInv, Disturb, RegenStep
    PROVE  TypeInv'
<1>a. /\ regen \in Regen /\ RegenLocals /\ regen.id \in {0} \cup Ids
      /\ regen.cover \in Cover /\ regen.old \in Cover /\ regen.of \in Versions
  BY DEF TypeInv, TypeOK, Regen
<1>b. /\ row \in Row /\ file \in File /\ covers \in [Names -> Content] /\ 0 \in Versions
      /\ row.id \in {0} \cup Ids /\ row.cover \in Cover /\ file.version \in Versions
  BY Constants DEF TypeInv, TypeOK, Row, File
<1>c. NoRegen \in Regen /\ NoRegen.pc = "idle"
  BY Constants DEF NoRegen
\* What a step of coverregen leaves behind, if the row is as it was.
<1>d. ASSUME regen' \in Regen, RegenLocals', covers' \in [Names -> Content],
             UNCHANGED <<disk, libs, row, task, crossed, starts>>,
             littered' \in BOOLEAN, faults' \in 0..MaxFaults
      PROVE  TypeInv'
  BY <1>d, DisturbTypes DEF TypeInv, TypeOK, disk, libs
<1>1. CASE RegenStart
  <2> DEFINE s == [NoRegen EXCEPT !.pc = "open", !.id = row.id, !.old = row.cover]
  <2>1. /\ regen' = s /\ task' = [k \in Tasks |-> [task[k] EXCEPT !.alone = FALSE]]
        /\ regen.pc = "idle" /\ Indexed /\ Overlap
        /\ UNCHANGED <<disk, libs, row, covers, faults>>
    BY <1>1 DEF RegenStart
  <2>2. s \in Regen /\ s.pc = "open" /\ s.id = row.id
    BY <1>b, Constants DEF NoRegen, Regen
  <2> HIDE DEF s
  <2>3. RegenLocals'
    BY <2>1, <2>2 DEF RegenLocals, Indexed
  <2>4. \A k \in Tasks : /\ [task[k] EXCEPT !.alone = FALSE] \in Task
                         /\ TaskLocals([task[k] EXCEPT !.alone = FALSE])
    BY DEF TypeInv, TypeOK, Task, TaskLocals
  <2>5. task' \in [Tasks -> Task] /\ \A k \in Tasks : TaskLocals(task'[k])
    BY <2>1, <2>4
  <2>6. crossed' \in BOOLEAN /\ littered' \in BOOLEAN /\ starts' \in 0..MaxStarts
    BY <2>1, CoversAssumption DEF Overlap, Resting, TypeInv, TypeOK
  <2> QED BY <2>1, <2>2, <2>3, <2>5, <2>6, DisturbTypes DEF TypeInv, TypeOK, disk, libs
<1>2. CASE RegenOpen
  <2>1. /\ regen.pc = "open" /\ UNCHANGED <<disk, libs, row, covers, task, tally, faults>>
        /\ \/ regen' = NoRegen
           \/ /\ HasCover /\ Ids \ InUse # {}
              /\ regen' = [regen EXCEPT !.pc = "write", !.of = file.version,
                                        !.cover = CoverName(FreshId)]
    BY <1>2 DEF RegenOpen
  <2>2. CASE regen' = NoRegen
    BY <1>b, <1>c, <1>d, <2>1, <2>2 DEF RegenLocals, tally, TypeInv, TypeOK
  <2>3. CASE /\ HasCover /\ Ids \ InUse # {}
             /\ regen' = [regen EXCEPT !.pc = "write", !.of = file.version,
                                       !.cover = CoverName(FreshId)]
    <3> DEFINE c == CoverName(FreshId)
    <3>1. c \in Names /\ c # NoCover /\ c # regen.old
      <4>1. FreshId \in Ids /\ c = <<FreshId, file.ext>> /\ file.ext \in Exts
        BY <1>b, <2>3, FreshIds DEF CoverName, HasCover, File
      <4>2. c \in Names /\ c[1] = FreshId
        BY <4>1 DEF Names
      <4> HIDE DEF c
      <4>3. c # regen.old
        BY <2>3, <4>2, FreshIds
      <4> QED BY <4>2, <4>3, Constants
    <3>2. regen' = [regen EXCEPT !.pc = "write", !.of = file.version, !.cover = c]
      BY <2>3
    <3> HIDE DEF c
    <3>3. c \in Cover /\ regen' \in Regen /\ RegenLocals'
      BY <1>a, <1>b, <2>1, <3>1, <3>2 DEF Regen, RegenLocals, Cover
    <3> QED BY <1>b, <1>d, <2>1, <3>3 DEF tally, TypeInv, TypeOK
  <2> QED BY <2>1, <2>2, <2>3
<1>3. CASE RegenWrite
  <2>1. covers' \in [Names -> Content]
    BY <1>3, <1>a, <1>b, FolderTypes DEF RegenWrite
  <2>2. /\ regen.pc = "write" /\ regen' = [regen EXCEPT !.pc = "update"]
        /\ UNCHANGED <<disk, libs, row, task, tally, faults>>
    BY <1>3 DEF RegenWrite
  <2>3. regen' \in Regen /\ RegenLocals'
    BY <1>a, <2>2 DEF Regen, RegenLocals
  <2> QED BY <1>d, <2>1, <2>2, <2>3 DEF tally, TypeInv, TypeOK
<1>4. CASE RegenUpdate
  <2>1. /\ regen.pc = "update" /\ regen' = [regen EXCEPT !.pc = "remove"]
        /\ row' = IF row.id = regen.id THEN [row EXCEPT !.cover = regen.cover] ELSE row
        /\ UNCHANGED <<disk, libs, covers, task, tally, faults>>
    BY <1>4 DEF RegenUpdate
  <2>2. regen' \in Regen /\ RegenLocals'
    BY <1>a, <2>1 DEF Regen, RegenLocals
  <2>3. /\ row' \in Row /\ (row'.id = 0 => row' = NoRow)
        /\ row'.id # 0 => row'.library = library /\ library # 0 /\ row'.hash # 0
    BY <1>a, <1>b, <2>1 DEF RegenLocals, TypeInv, TypeOK, Row
  <2> QED BY <2>1, <2>2, <2>3, DisturbTypes DEF TypeInv, TypeOK, disk, libs, tally
<1>5. CASE RegenRemove
  <2>1. covers' \in [Names -> Content]
    BY <1>5, <1>a, <1>b, FolderTypes DEF RegenRemove
  <2>2. regen' \in Regen /\ RegenLocals'
    BY <1>5, <1>c DEF RegenRemove, RegenLocals
  <2> QED BY <1>5, <1>d, <2>1, <2>2 DEF RegenRemove, tally, TypeInv, TypeOK
<1>6. CASE RegenFails
  <2>1. covers' \in [Names -> Content]
    BY <1>6, <1>a, <1>b, FolderTypes DEF RegenFails
  <2>2. regen' \in Regen /\ RegenLocals'
    BY <1>6, <1>c DEF RegenFails, RegenLocals
  <2> QED BY <1>6, <1>d, <2>1, <2>2, FaultsCount DEF RegenFails, FaultTypes
<1> QED BY <1>1, <1>2, <1>3, <1>4, <1>5, <1>6 DEF RegenStep

\* What a step of the check adds to its report.
LEMMA CheckAdds ==
    ASSUME TypeInv, CheckBooks \/ CheckFiles \/ CheckCovers
    PROVE  \E found \in SUBSET Issue, pc \in {"files", "covers", "done"} :
              check' = [check EXCEPT !.pc = pc, !.issues = check.issues \cup found]
<1>1. CASE CheckBooks
  <2>1. \E found \in SUBSET Issue : Found(found, "files")
    <3>1. CASE check.row.id = 0
      <4>1. Found({}, "files")
        BY <1>1, <3>1 DEF CheckBooks, Known
      <4> QED BY <4>1
    <3>2. CASE check.row.id # 0 /\ ~Known
      <4>1. Found({"unknown_library"}, "files")
        BY <1>1, <3>2 DEF CheckBooks, Known
      <4> QED BY <4>1 DEF Issue
    <3>3. CASE Known /\ ~Exists
      <4>1. Found({"missing_file"}, "files")
        BY <1>1, <3>3 DEF CheckBooks, Known
      <4> QED BY <4>1 DEF Issue
    <3>4. CASE Known /\ Exists
      <4> DEFINE more == IF check.row.cover = NoCover THEN {"missing_cover"}
                         ELSE IF covers[check.row.cover].there THEN {}
                         ELSE {"missing_cover_file"}
      <4>1. PICK changed \in {{}, {"size_changed"}} : Found(changed \cup more, "files")
        BY <1>1, <3>4 DEF CheckBooks, Known
      <4>2. changed \cup more \in SUBSET Issue
        BY <4>1 DEF Issue
      <4> QED BY <4>1, <4>2
    <3> QED BY <3>1, <3>2, <3>3, <3>4
  <2> QED BY <2>1 DEF Found
<1>2. CASE CheckFiles
  BY <1>2 DEF CheckFiles, Found, Issue
<1>3. CASE CheckCovers
  BY <1>3 DEF CheckCovers, Found, Issue
<1> QED BY <1>1, <1>2, <1>3

LEMMA CheckTypes ==
    ASSUME TypeInv, CheckStep, UNCHANGED <<disk, libs, row, covers, task, regen, tally, faults>>
    PROVE  TypeInv'
<1>1. check' \in Check /\ check'.pc # "idle"
  <2>1. CASE CheckLibraries
    <3>1. library \in 0..MaxLibrary
      BY CoversAssumption DEF TypeInv, TypeOK
    <3>2. check' = [NoCheck EXCEPT !.pc = "rows", !.library = library]
      BY <2>1 DEF CheckLibraries
    <3> QED BY <3>1, <3>2, Constants DEF Check
  <2>2. CASE CheckRows
    BY <2>2 DEF CheckRows, TypeInv, TypeOK, Check
  <2>3. CASE CheckBooks \/ CheckFiles \/ CheckCovers
    BY <2>3, CheckAdds DEF TypeInv, TypeOK, Check
  <2> QED BY <2>1, <2>2, <2>3 DEF CheckStep
<1> QED BY <1>1 DEF TypeInv, TypeOK, RegenLocals, disk, libs, tally

LEMMA TypeStep == TypeInv /\ [Next]_vars => TypeInv'
<1> SUFFICES ASSUME TypeInv, [Next]_vars PROVE TypeInv'
  OBVIOUS
<1>1. ASSUME WriteFile \/ RemoveFile, Disturb PROVE TypeInv'
  <2>1. file' \in File /\ clock' \in Versions
    BY <1>1, CoversAssumption DEF WriteFile, RemoveFile, File, Versions, TypeInv, TypeOK
  <2> QED BY <1>1, <2>1, DisturbTypes
        DEF WriteFile, RemoveFile, TypeInv, TypeOK, RegenLocals, tally, libs
<1>2. ASSUME DeleteLibrary \/ CreateLibrary, Disturb PROVE TypeInv'
  <2>1. /\ library' \in 0..made' /\ made' \in 1..MaxLibrary /\ row' \in Row
        /\ row'.id = 0 /\ row' = NoRow
    BY <1>2, Constants, CoversAssumption DEF DeleteLibrary, CreateLibrary, TypeInv, TypeOK, NoRow
  <2> QED BY <1>2, <2>1, DisturbTypes
        DEF DeleteLibrary, CreateLibrary, TypeInv, TypeOK, RegenLocals, disk, tally
<1>3. ASSUME Crash, Disturb PROVE TypeInv'
  <2>1. task' \in [Tasks -> Task] /\ \A k \in Tasks : TaskLocals(task'[k])
    BY <1>3, Constants DEF Crash
  <2> QED BY <1>3, <2>1, QuietTypes, FaultsCount DEF Crash, FaultTypes, TypeInv, TypeOK
<1>4. CASE UNCHANGED vars
  BY <1>4 DEF vars, disk, libs, tally, TypeInv, TypeOK, RegenLocals
<1> QED BY <1>1, <1>2, <1>3, <1>4, TaskTypes, RegenTypes, CheckTypes DEF Next

LEMMA TypeInit == Init => TypeInv
<1> SUFFICES ASSUME Init PROVE TypeInv
  OBVIOUS
<1>1. file \in File /\ covers \in [Names -> Content]
  BY Constants DEF Init, File, Gone, Content
<1>2. task \in [Tasks -> Task] /\ \A k \in Tasks : TaskLocals(task[k])
  BY Constants DEF Init
<1>3. RegenLocals /\ row.id = 0
  BY DEF Init, RegenLocals, NoRegen, NoRow
<1>4. library \in 0..made /\ made \in 1..MaxLibrary /\ library # 0
  BY Constants DEF Init
<1> QED BY <1>1, <1>2, <1>3, <1>4, Constants DEF Init, TypeInv, TypeOK

\* Every variable keeps its type; a row belongs to the library there is, and has the
\* hash of some version of the file.
THEOREM CoverTypes == Spec => []TypeOK
<1>1. TypeInv => TypeOK
  BY DEF TypeInv
<1> QED BY <1>1, TypeInit, TypeStep, PTL DEF Spec

-----------------------------------------------------------------------------
(* The integrity check.  While one is under way nothing it looks at has    *)
(* changed, or Disturb would have dropped it.                              *)

Reported == check.issues \ {"size_changed"}

OfBooks == {"missing_file", "missing_cover", "missing_cover_file"}

\* It holds what the tables hold, and what it has reported is what is wrong with what
\* it has looked at.
ReportInv ==
    /\ check.pc # "idle" => check.library = library
    /\ check.pc \in {"books", "files", "covers", "done"} => check.row = row
    /\ check.pc \in {"rows", "books"} => check.issues = {}
    /\ check.pc = "files" => Reported = Discrepancies \cap OfBooks
    /\ check.pc = "covers" => Reported = Discrepancies \cap (OfBooks \cup {"unindexed_file"})
    /\ check.pc = "done" => Reported = Discrepancies

\* Of a row that is there, the library is the one there is.
LEMMA KnownIsIndexed ==
    ASSUME TypeInv, ReportInv, check.pc \in {"books", "files", "covers"}
    PROVE  (Known <=> Indexed) /\ check.row = row /\ check.library = library
BY DEF TypeInv, TypeOK, ReportInv, Known, Indexed

LEMMA BooksReport ==
    ASSUME TypeInv, ReportInv, CheckBooks, UNCHANGED <<file, library, row, covers>>
    PROVE  check' = [check EXCEPT !.pc = "files", !.issues = check'.issues]
           /\ check'.issues \ {"size_changed"} = Discrepancies \cap OfBooks
<1>1. check.pc = "books" /\ check.issues = {} /\ check \in Check
  BY DEF CheckBooks, ReportInv, TypeInv, TypeOK
<1>2. (Known <=> Indexed) /\ check.row = row
  BY <1>1, KnownIsIndexed
<1>3. ASSUME NEW found, Found(found, "files")
      PROVE  check'.issues = found /\ check' = [check EXCEPT !.pc = "files", !.issues = found]
  BY <1>1, <1>3 DEF Found, Check
<1>4. CASE ~Indexed
  <2>1. Found({}, "files")
    BY <1>2, <1>4 DEF CheckBooks, Indexed, Known
  <2>2. Discrepancies \cap OfBooks = {}
    BY <1>4 DEF Discrepancies, OfBooks, Issue
  <2> QED BY <1>3, <2>1, <2>2
<1>5. CASE Indexed /\ ~Exists
  <2>1. Found({"missing_file"}, "files")
    BY <1>2, <1>5 DEF CheckBooks, Indexed, Known
  <2>2. Discrepancies \cap OfBooks = {"missing_file"}
    BY <1>5 DEF Discrepancies, OfBooks, Issue
  <2> QED BY <1>3, <2>1, <2>2
<1>6. CASE Indexed /\ Exists
  <2> DEFINE more == IF check.row.cover = NoCover THEN {"missing_cover"}
                     ELSE IF covers[check.row.cover].there THEN {}
                     ELSE {"missing_cover_file"}
  <2>1. PICK changed \in {{}, {"size_changed"}} : Found(changed \cup more, "files")
    BY <1>2, <1>6 DEF CheckBooks, Indexed, Known
  <2>2. (changed \cup more) \ {"size_changed"} = more
    BY <2>1
  <2>3. Discrepancies \cap OfBooks = more
    BY <1>2, <1>6 DEF Discrepancies, OfBooks, Issue
  <2> HIDE DEF more
  <2> QED BY <1>3, <2>1, <2>2, <2>3
<1> QED BY <1>4, <1>5, <1>6

LEMMA CheckReports ==
    ASSUME TypeInv, ReportInv, CheckStep, UNCHANGED <<file, library, row, covers>>
    PROVE  ReportInv'
<1>1. Discrepancies' = Discrepancies /\ OfBooks' = OfBooks /\ check \in Check
  BY DEF Discrepancies, Indexed, Exists, OfBooks, TypeInv, TypeOK
<1>2. CASE CheckLibraries
  <2>1. check'.pc = "rows" /\ check'.issues = {} /\ check'.library = library
    BY <1>2 DEF CheckLibraries, NoCheck
  <2> QED BY <2>1 DEF ReportInv
<1>3. CASE CheckRows
  <2>1. /\ check.pc = "rows" /\ check'.pc = "books" /\ check'.issues = check.issues
        /\ check'.library = check.library /\ check'.row = row
    BY <1>1, <1>3 DEF CheckRows, Check
  <2> QED BY <2>1 DEF ReportInv
<1>4. CASE CheckBooks
  <2>1. /\ check.pc = "books" /\ check'.pc = "files" /\ check'.row = check.row
        /\ check'.library = check.library
        /\ check'.issues \ {"size_changed"} = Discrepancies \cap OfBooks
    BY <1>1, <1>4, BooksReport DEF CheckBooks, Check
  <2> QED BY <1>1, <2>1 DEF ReportInv, Reported
<1>5. CASE CheckFiles
  <2> DEFINE found == IF check.library # 0 /\ Exists /\ ~Known THEN {"unindexed_file"} ELSE {}
  <2>1. /\ check.pc = "files" /\ check'.pc = "covers" /\ check'.row = check.row
        /\ check'.library = check.library /\ check'.issues = check.issues \cup found
    BY <1>1, <1>5 DEF CheckFiles, Found, Check
  <2>2. (Known <=> Indexed) /\ check.library = library
    BY <2>1, KnownIsIndexed
  <2>3. found = Discrepancies \cap {"unindexed_file"}
    BY <2>2 DEF Discrepancies, Issue
  <2>4. check.issues \ {"size_changed"} = Discrepancies \cap OfBooks
    BY <2>1 DEF ReportInv, Reported
  <2>5. (check.issues \cup found) \ {"size_changed"} = Discrepancies \cap (OfBooks \cup {"unindexed_file"})
    BY <2>3, <2>4
  <2> QED BY <1>1, <2>1, <2>5 DEF ReportInv, Reported
<1>6. CASE CheckCovers
  <2> DEFINE found == IF \E n \in Names : covers[n].there /\ ~References(n)
                      THEN {"orphan_cover"} ELSE {}
  <2>1. /\ check.pc = "covers" /\ check'.pc = "done" /\ check'.row = check.row
        /\ check'.library = check.library /\ check'.issues = check.issues \cup found
    BY <1>1, <1>6 DEF CheckCovers, Found, Check
  <2>2. (Known <=> Indexed) /\ check.row = row
    BY <2>1, KnownIsIndexed
  <2>3. \A n \in Names : References(n) <=> n = row.cover
    BY <2>2, Constants DEF References, Indexed, TypeInv, TypeOK, NoRow
  <2>4. found = Discrepancies \cap {"orphan_cover"}
    <3>1. (\E n \in Names : covers[n].there /\ ~References(n))
             <=> {n \in Names : covers[n].there} \ {row.cover} # {}
      BY <2>3
    <3> QED BY <3>1 DEF Discrepancies, Issue
  <2>5. check.issues \ {"size_changed"} = Discrepancies \cap (OfBooks \cup {"unindexed_file"})
    BY <2>1 DEF ReportInv, Reported
  <2>6. Discrepancies \subseteq OfBooks \cup {"unindexed_file", "orphan_cover"}
    BY DEF Discrepancies, OfBooks
  <2>7. (check.issues \cup found) \ {"size_changed"} = Discrepancies
    BY <2>4, <2>5, <2>6
  <2> QED BY <1>1, <2>1, <2>7 DEF ReportInv, Reported
<1> QED BY <1>2, <1>3, <1>4, <1>5, <1>6 DEF CheckStep

LEMMA ReportStep == TypeInv /\ ReportInv /\ [Next]_vars => ReportInv'
<1> SUFFICES ASSUME TypeInv, ReportInv, [Next]_vars PROVE ReportInv'
  OBVIOUS
<1>1. ASSUME UNCHANGED <<file, library, row, covers, check>> PROVE ReportInv'
  BY <1>1 DEF ReportInv, Reported, Discrepancies, Indexed, Exists
<1>2. ASSUME Disturb PROVE ReportInv'
  <2>1. CASE check' = NoCheck
    BY <2>1 DEF ReportInv, NoCheck
  <2>2. CASE check' # NoCheck
    BY <1>1, <1>2, <2>2 DEF Disturb
  <2> QED BY <2>1, <2>2
<1> QED BY <1>1, <1>2, CheckReports DEF Next, vars, disk, libs

\* An integrity check under which nothing changed reports every file and cover that is
\* missing, every file that is not indexed and every cover that no book refers to, and
\* nothing else, in whatever state crossing and failing writers left the library.
THEOREM ReportsAreExact == Spec => []ReportExact
<1>1. Init => ReportInv
  BY DEF Init, ReportInv, NoCheck
<1>2. ReportInv => ReportExact
  BY DEF ReportInv, ReportExact, Reported
<1> QED BY <1>1, <1>2, TypeInit, TypeStep, ReportStep, PTL DEF Spec

-----------------------------------------------------------------------------
(* The cover of the row.                                                   *)

\* Versions of the file are counted.
VersionsInv ==
    /\ file.version \in {0, clock}
    /\ HasCover => Exists
    /\ row.hash <= clock
    /\ \A k \in Tasks : task[k].hash <= clock

Writing(k) == task[k].pc # "idle"

\* A goroutine that started when no writer was at work is alone until one starts, and
\* so is whoever is at work as long as crossed is not set.
Solo(k) == Writing(k) /\ (task[k].alone \/ ~crossed)

AloneInv ==
    /\ \A k \in Tasks :
          Solo(k) => regen.pc = "idle" /\ \A j \in Tasks \ {k} : ~Writing(j)
    /\ crossed => littered

Fresh(n, v) == n # NoCover => covers[n].there /\ covers[n].of >= v

\* What a goroutine that is alone knows at each of its statements: the row is still
\* the one it found, unless it went with the library; what it wrote is still there.
Path(t) ==
    /\ t.pc \in {"hash", "stats", "open", "save", "upsert"} =>
          (Indexed => row.id = t.id /\ row.cover = t.old)
    /\ t.pc \in {"hash", "stats"} /\ Indexed => row.hash = t.hash
    /\ t.pc \in {"save", "upsert"} => t.hash <= t.of /\ row.hash <= t.of
    /\ t.pc = "upsert" => Fresh(t.cover, t.of)
    /\ t.pc = "supersede" =>
          /\ Indexed => row.cover = t.cover /\ row.hash = t.hash
          /\ Fresh(t.cover, t.hash)
    /\ t.pc = "unlink" => ~Indexed

RegenPath ==
    /\ Indexed => row.id = regen.id
    /\ Indexed /\ regen.pc \in {"open", "write", "update"} => row.cover = regen.old
    /\ Indexed /\ regen.pc = "remove" => row.cover = regen.cover
    /\ regen.pc \in {"write", "update"} => row.hash <= regen.of
    /\ regen.pc = "update" => Fresh(regen.cover, regen.of)

ServedInv ==
    /\ VersionsInv
    /\ AloneInv
    /\ \A k \in Tasks : Solo(k) => Path(task[k])
    /\ regen.pc # "idle" /\ ~crossed => RegenPath
    /\ CoverServed

\* Versions are numbers, and a cover is a name or none.
LEMMA Plain ==
    ASSUME TypeInv
    PROVE  /\ clock \in Nat /\ file.version \in Nat /\ row.hash \in Nat
           /\ row.cover \in Names \cup {NoCover}
           /\ \A k \in Tasks : /\ task[k] \in Task /\ TaskLocals(task[k])
                               /\ task[k].hash \in Nat /\ task[k].of \in Nat
                               /\ task[k].cover \in Names \cup {NoCover}
                               /\ task[k].old \in Names \cup {NoCover}
           /\ regen \in Regen /\ regen.of \in Nat
           /\ regen.cover \in Names \cup {NoCover} /\ regen.old \in Names \cup {NoCover}
           /\ covers \in [Names -> Content]
           /\ \A n \in Names : covers[n].of \in Nat
           /\ \A v \in Versions : v \in Nat
<1>1. \A v \in Versions : v \in Nat
  BY CoversAssumption DEF Versions
<1> QED BY <1>1 DEF TypeInv, TypeOK, File, Row, Task, Regen, Content, Cover

\* The folder after a write, and after a removal.
LEMMA FolderAfter ==
    ASSUME covers \in [Names -> Content]
    PROVE  /\ \A n \in Names, v \in Versions :
                 /\ Write(n, v)[n] = [there |-> TRUE, of |-> v]
                 /\ \A m \in Names \ {n} : Write(n, v)[m] = covers[m]
           /\ \A v : Write(NoCover, v) = covers
           /\ \A n \in Names \cup {NoCover}, m \in Names :
                 Remove(n)[m] = IF m = n THEN Gone ELSE covers[m]
BY Constants DEF Write, Remove

\* A goroutine at work takes a step that starts no writer.
LEMMA WriterStep ==
    ASSUME TypeInv, ServedInv, NEW k \in Tasks, Writing(k),
           \A j \in Tasks \ {k} : task'[j] = task[j],
           Writing(k)' => (task'[k].alone <=> task[k].alone),
           UNCHANGED <<file, clock, regen, crossed>>, littered => littered',
           task'[k].hash <= clock, row'.hash <= clock,
           Solo(k) /\ Writing(k)' => Path(task[k])',
           ~crossed => CoverServed'
    PROVE  ServedInv'
<1>1. VersionsInv'
  BY DEF ServedInv, VersionsInv, HasCover, Exists
<1>2. \A j \in Tasks \ {k} : ~Solo(j) /\ ~Solo(j)'
  BY DEF ServedInv, AloneInv, Solo, Writing
<1>3. Solo(k)' => Solo(k)
  BY DEF Solo
<1>4. AloneInv'
  BY <1>2, <1>3 DEF ServedInv, AloneInv, Writing
<1>5. ~crossed => regen.pc = "idle"
  BY DEF ServedInv, AloneInv, Solo
<1>6. CoverServed'
  BY DEF CoverServed
<1>7. \A j \in Tasks : Solo(j)' => Path(task[j])'
  BY <1>2, <1>3 DEF Solo
<1> QED BY <1>1, <1>4, <1>5, <1>6, <1>7 DEF ServedInv

\* A goroutine starts.
LEMMA WriterStart ==
    ASSUME TypeInv, ServedInv, NEW k \in Tasks, ~Writing(k), Overlap,
           NEW t \in Task, Start(k, t), TaskLocals(t), ~t.alone,
           UNCHANGED <<file, clock, regen, covers>>,
           row' = row \/ row' = NoRow, t.hash <= clock,
           Resting => Path(task[k])'
    PROVE  ServedInv'
<1>1. /\ task'[k] = [t EXCEPT !.alone = Resting]
      /\ \A j \in Tasks \ {k} : task'[j] = [task[j] EXCEPT !.alone = FALSE]
  BY StartTypes
<1>2. \A s \in Task, b \in BOOLEAN :
         /\ [s EXCEPT !.alone = b].pc = s.pc /\ [s EXCEPT !.alone = b].hash = s.hash
         /\ [s EXCEPT !.alone = b].alone = b
  BY DEF Task
<1>3. Resting \in BOOLEAN /\ \A j \in Tasks : task[j] \in Task
  BY Plain DEF Resting
<1>4. /\ task'[k].pc = t.pc /\ task'[k].hash = t.hash /\ (task'[k].alone <=> Resting)
      /\ \A j \in Tasks \ {k} : /\ task'[j].pc = task[j].pc /\ task'[j].hash = task[j].hash
                                /\ ~task'[j].alone
  <2>1. /\ task'[k].pc = t.pc /\ task'[k].hash = t.hash /\ task'[k].alone = Resting
    BY <1>1, <1>2, <1>3
  <2>2. ASSUME NEW j \in Tasks \ {k}
        PROVE  task'[j].pc = task[j].pc /\ task'[j].hash = task[j].hash /\ task'[j].alone = FALSE
    <3>1. task[j] \in Task /\ FALSE \in BOOLEAN
      BY <1>3
    <3>2. task'[j] = [task[j] EXCEPT !.alone = FALSE]
      BY <1>1
    <3> QED BY <3>1, <3>2 DEF Task
  <2> QED BY <2>1, <2>2
<1>5. (crossed' <=> crossed \/ ~Resting) /\ (littered' <=> littered \/ ~Resting)
  BY DEF Overlap
<1>6. VersionsInv'
  BY <1>4, Plain DEF ServedInv, VersionsInv, HasCover, Exists, NoRow
<1>7. ASSUME NEW j \in Tasks, Solo(j)' PROVE j = k /\ Resting
  BY <1>4, <1>5, <1>7 DEF Solo, Writing, Resting
<1>8. AloneInv'
  BY <1>4, <1>5, <1>7 DEF ServedInv, AloneInv, Resting, Writing
<1>9. CoverServed'
  BY <1>5 DEF ServedInv, CoverServed, Indexed, NoRow
<1>10. ~crossed' => regen.pc = "idle"
  BY <1>5 DEF Resting
<1>11. \A j \in Tasks : Solo(j)' => Path(task[j])'
  BY <1>7
<1> QED BY <1>6, <1>8, <1>9, <1>10, <1>11 DEF ServedInv

\* Each step of a goroutine keeps the row's cover served.
LEMMA TaskServed ==
    ASSUME TypeInv, ServedInv, NEW k \in Tasks, TaskStep(k)
    PROVE  ServedInv'
<1> DEFINE t == task[k]
<1>a. /\ t \in Task /\ TaskLocals(t) /\ t.hash \in Nat /\ t.of \in Nat /\ t.of \in Versions
      /\ t.cover \in Names \cup {NoCover} /\ t.old \in Names \cup {NoCover}
      /\ row.hash \in Nat /\ clock \in Nat /\ row.cover \in Names \cup {NoCover}
      /\ covers \in [Names -> Content] /\ \A n \in Names : covers[n].of \in Nat
  BY Plain DEF Task
<1>b. /\ t.hash <= clock /\ row.hash <= clock /\ 0 <= clock
      /\ Solo(k) => Path(t)
      /\ ~crossed => CoverServed
      /\ Writing(k) /\ ~crossed => Solo(k)
  BY <1>a DEF ServedInv, VersionsInv, Solo
<1>c. /\ row.id = 0 => row = NoRow
      /\ row \in Row /\ NoCover \notin Names
  BY Constants DEF TypeInv, TypeOK
<1>d. NoTask.pc = "idle" /\ NoTask.hash = 0
  BY DEF NoTask
\* A goroutine that returns leaves the row and the covers.
<1>e. ASSUME Writing(k), Return(k), UNCHANGED <<row, covers, file, clock, regen, crossed>>,
             littered => littered'
      PROVE  ServedInv'
  <2>1. ~Writing(k)' /\ task'[k].hash = 0 /\ \A j \in Tasks \ {k} : task'[j] = task[j]
    BY <1>d, <1>e, ReturnTypes DEF Writing
  <2>2. ~crossed => CoverServed'
    BY <1>b, <1>e DEF CoverServed, Indexed
  <2> QED BY <1>a, <1>b, <1>e, <2>1, <2>2, WriterStep
<1>1. CASE ProcessFile(k)
  <2>0. PICK id \in 1..made :
             Start(k, [NoTask EXCEPT !.pc = "hash", !.library = id, !.id = row.id,
                                     !.hash = row.hash, !.old = row.cover])
    BY <1>1 DEF ProcessFile
  <2> DEFINE s == [NoTask EXCEPT !.pc = "hash", !.library = id, !.id = row.id,
                                 !.hash = row.hash, !.old = row.cover]
  <2>1. s \in Task /\ TaskLocals(s) /\ ~s.alone
    <3>1. s \in Task
      <4>1. /\ id \in 0..MaxLibrary /\ row.id \in {0} \cup Ids /\ row.hash \in Versions
            /\ row.cover \in Cover
        BY CoversAssumption DEF TypeInv, TypeOK, Row
      <4> QED BY <4>1, Constants DEF NoTask, Task
    <3>2. row.id # 0 => row.hash # 0
      BY DEF TypeInv, TypeOK
    <3>3. s.pc = "hash" /\ s.id = row.id /\ s.hash = row.hash /\ s.alone = FALSE
          /\ s.library # 0
      BY CoversAssumption DEF NoTask, TypeInv, TypeOK
    <3> HIDE DEF s
    <3> QED BY <3>1, <3>2, <3>3 DEF TaskLocals
  <2>2. s.pc = "hash" /\ s.id = row.id /\ s.hash = row.hash /\ s.old = row.cover
    BY DEF NoTask
  <2>3. /\ Start(k, s) /\ Overlap /\ ~Writing(k)
        /\ UNCHANGED <<file, clock, row, covers, regen>>
    BY <1>1, <2>0 DEF ProcessFile, Start, Writing, disk
  <2> HIDE DEF s
  <2>4. task'[k] = [s EXCEPT !.alone = Resting]
    BY <2>1, <2>3, StartTypes
  <2>5. /\ task'[k].pc = "hash" /\ task'[k].id = row.id /\ task'[k].hash = row.hash
        /\ task'[k].old = row.cover
    BY <2>1, <2>2, <2>4 DEF Task
  <2>6. Path(task[k])'
    BY <2>3, <2>5 DEF Path, Indexed
  <2> QED BY <1>b, <2>1, <2>2, <2>3, <2>6, WriterStart
<1>2. CASE HashFile(k)
  <2>1. /\ t.pc = "hash" /\ Writing(k)
        /\ UNCHANGED <<file, clock, row, covers, regen, crossed, littered>>
        /\ \/ Return(k)
           \/ t.id # 0 /\ Step(k, [t EXCEPT !.pc = "stats"])
           \/ /\ Exists
              /\ Step(k, [t EXCEPT !.pc = "open", !.hash = file.version,
                                   !.id = IF t.id = 0 THEN FreshId ELSE t.id])
    BY <1>2 DEF HashFile, Writing, disk, tally
  <2>2. ~crossed => CoverServed'
    BY <1>b, <2>1 DEF CoverServed, Indexed
  <2>3. CASE t.id # 0 /\ Step(k, [t EXCEPT !.pc = "stats"])
    <3>1. /\ task'[k] = [t EXCEPT !.pc = "stats"]
          /\ \A j \in Tasks \ {k} : task'[j] = task[j]
      BY <2>3 DEF Step, TypeInv, TypeOK
    <3>2. /\ task'[k].pc = "stats" /\ task'[k].id = t.id /\ task'[k].hash = t.hash
          /\ task'[k].old = t.old /\ task'[k].alone = t.alone
      BY <1>a, <3>1 DEF Task
    <3>3. Solo(k) => Path(task[k])'
      BY <1>b, <2>1, <3>2 DEF Path, Indexed
    <3> QED BY <1>b, <2>1, <2>2, <3>1, <3>2, <3>3, WriterStep
  <2>4. CASE /\ Exists
             /\ Step(k, [t EXCEPT !.pc = "open", !.hash = file.version,
                                  !.id = IF t.id = 0 THEN FreshId ELSE t.id])
    <3> DEFINE i == IF t.id = 0 THEN FreshId ELSE t.id
    <3>1. /\ task'[k] = [t EXCEPT !.pc = "open", !.hash = file.version, !.id = i]
          /\ \A j \in Tasks \ {k} : task'[j] = task[j]
      BY <2>4 DEF Step, TypeInv, TypeOK
    <3>2. t.id # 0 => i = t.id
      OBVIOUS
    <3> HIDE DEF i
    <3>3. /\ task'[k].pc = "open" /\ task'[k].id = i /\ task'[k].hash = file.version
          /\ task'[k].old = t.old /\ task'[k].alone = t.alone
      BY <1>a, <3>1 DEF Task
    <3>4. Solo(k) => Path(task[k])'
      BY <1>b, <2>1, <3>2, <3>3 DEF Path, Indexed
    <3>5. file.version <= clock
      BY <1>a DEF ServedInv, VersionsInv
    <3> QED BY <1>b, <2>1, <2>2, <3>1, <3>3, <3>4, <3>5, WriterStep
  <2> QED BY <1>e, <2>1, <2>3, <2>4
<1>3. CASE UpdateFileStats(k)
  <2>1. /\ t.pc = "stats" /\ Writing(k) /\ Return(k)
        /\ row' = IF row.id = t.id THEN [row EXCEPT !.hash = t.hash] ELSE row
        /\ UNCHANGED <<file, clock, covers, regen, crossed, littered>>
    BY <1>3 DEF UpdateFileStats, Writing, disk, tally
  <2>2. ~Writing(k)' /\ task'[k].hash = 0 /\ \A j \in Tasks \ {k} : task'[j] = task[j]
    BY <1>d, <2>1, ReturnTypes DEF Writing
  <2>3. /\ row'.hash = t.hash \/ row'.hash = row.hash
        /\ row'.cover = row.cover /\ row'.id = row.id
        /\ row.id # t.id => row' = row
    BY <1>c, <2>1 DEF Row
  <2>4. ~crossed => row'.hash = row.hash
    BY <1>a, <1>b, <2>1, <2>3 DEF Path, TaskLocals, Indexed
  <2>5. ~crossed => CoverServed'
    BY <1>b, <2>1, <2>3, <2>4 DEF CoverServed, Indexed
  <2> QED BY <1>b, <2>1, <2>2, <2>3, <2>5, WriterStep
<1>4. CASE Open(k)
  <2>1. /\ t.pc = "open" /\ Writing(k)
        /\ UNCHANGED <<file, clock, row, covers, regen, crossed, littered>>
        /\ \/ Return(k)
           \/ /\ Exists
              /\ Step(k, [t EXCEPT !.pc = "save", !.of = file.version,
                                   !.cover = IF HasCover THEN CoverName(t.id) ELSE NoCover])
    BY <1>4 DEF Open, Writing, disk, tally
  <2>2. ~crossed => CoverServed'
    BY <1>b, <2>1 DEF CoverServed, Indexed
  <2>3. CASE /\ Exists
             /\ Step(k, [t EXCEPT !.pc = "save", !.of = file.version,
                                  !.cover = IF HasCover THEN CoverName(t.id) ELSE NoCover])
    <3> DEFINE c == IF HasCover THEN CoverName(t.id) ELSE NoCover
    <3>1. /\ task'[k] = [t EXCEPT !.pc = "save", !.of = file.version, !.cover = c]
          /\ \A j \in Tasks \ {k} : task'[j] = task[j]
      BY <2>3 DEF Step, TypeInv, TypeOK
    <3> HIDE DEF c
    <3>2. /\ task'[k].pc = "save" /\ task'[k].id = t.id /\ task'[k].hash = t.hash
          /\ task'[k].old = t.old /\ task'[k].alone = t.alone /\ task'[k].of = file.version
      BY <1>a, <3>1 DEF Task
    <3>3. file.version = clock
      BY <2>3 DEF ServedInv, VersionsInv, Exists
    <3>4. Solo(k) => Path(task[k])'
      BY <1>b, <2>1, <3>2, <3>3 DEF Path, Indexed
    <3> QED BY <1>b, <2>1, <2>2, <3>1, <3>2, <3>4, WriterStep
  <2> QED BY <1>e, <2>1, <2>3
<1>5. CASE SaveCover(k)
  <2>1. /\ t.pc = "save" /\ Writing(k) /\ covers' = Write(t.cover, t.of)
        /\ Step(k, [t EXCEPT !.pc = "upsert"])
        /\ UNCHANGED <<file, clock, row, regen, crossed, littered>>
    BY <1>5 DEF SaveCover, Writing, disk, tally
  <2>2. /\ task'[k] = [t EXCEPT !.pc = "upsert"] /\ \A j \in Tasks \ {k} : task'[j] = task[j]
    BY <2>1 DEF Step, TypeInv, TypeOK
  <2>3. /\ task'[k].pc = "upsert" /\ task'[k].id = t.id /\ task'[k].hash = t.hash
        /\ task'[k].old = t.old /\ task'[k].alone = t.alone /\ task'[k].of = t.of
        /\ task'[k].cover = t.cover
    BY <1>a, <2>2 DEF Task
  <2>4. /\ t.cover # NoCover => covers'[t.cover].there /\ covers'[t.cover].of = t.of
        /\ \A m \in Names : m = t.cover \/ covers'[m] = covers[m]
    <3> HIDE DEF t
    <3>1. CASE t.cover = NoCover
      BY <1>a, <2>1, <3>1, FolderAfter
    <3>2. CASE t.cover \in Names
      <4>1. /\ covers'[t.cover] = [there |-> TRUE, of |-> t.of]
            /\ \A m \in Names \ {t.cover} : covers'[m] = covers[m]
        BY <1>a, <2>1, <3>2, FolderAfter
      <4> QED BY <4>1
    <3> QED BY <1>a, <3>1, <3>2
  <2>5. Solo(k) => Path(task[k])'
    BY <1>a, <1>b, <2>1, <2>3, <2>4 DEF Path, Indexed, Fresh
  <2>6. ~crossed => CoverServed'
    <3>1. ~crossed => row.hash <= t.of
      BY <1>b, <2>1 DEF Path
    <3> QED BY <1>a, <1>b, <2>1, <2>4, <3>1 DEF CoverServed, Indexed
  <2> QED BY <1>b, <2>1, <2>2, <2>3, <2>5, <2>6, WriterStep
<1>6. CASE SaveFails(k)
  <2>1. /\ t.pc = "save" /\ Writing(k) /\ t.cover # NoCover /\ littered'
        /\ covers' \in {covers, [covers EXCEPT ![t.cover] = Torn]}
        /\ Step(k, [t EXCEPT !.pc = "upsert", !.cover = NoCover])
        /\ UNCHANGED <<file, clock, row, regen, crossed>>
    BY <1>6 DEF SaveFails, Writing, disk
  <2>2. /\ task'[k] = [t EXCEPT !.pc = "upsert", !.cover = NoCover]
        /\ \A j \in Tasks \ {k} : task'[j] = task[j]
    BY <2>1 DEF Step, TypeInv, TypeOK
  <2>3. /\ task'[k].pc = "upsert" /\ task'[k].id = t.id /\ task'[k].hash = t.hash
        /\ task'[k].old = t.old /\ task'[k].alone = t.alone /\ task'[k].of = t.of
        /\ task'[k].cover = NoCover
    BY <1>a, <2>2 DEF Task
  <2>4. \A m \in Names : covers'[m] = Torn \/ covers'[m] = covers[m]
    BY <1>a, <2>1
  <2>5. Solo(k) => Path(task[k])'
    BY <1>b, <2>1, <2>3 DEF Path, Indexed, Fresh
  <2>6. ~crossed => CoverServed'
    BY <1>a, <1>b, <2>1, <2>4 DEF CoverServed, Indexed, Torn
  <2> QED BY <1>b, <2>1, <2>2, <2>3, <2>5, <2>6, WriterStep
<1>7. CASE UpsertBook(k)
  <2>1. /\ t.pc = "upsert" /\ Writing(k)
        /\ UNCHANGED <<file, clock, covers, regen, crossed, littered>>
        /\ \/ /\ Indexed \/ t.library = library
              /\ row' = IF Indexed THEN [row EXCEPT !.hash = t.hash, !.cover = t.cover]
                        ELSE [id |-> t.id, library |-> library, hash |-> t.hash, cover |-> t.cover]
              /\ Step(k, [t EXCEPT !.pc = "supersede"])
           \/ Return(k) /\ UNCHANGED row
    BY <1>7 DEF UpsertBook, Writing, disk, tally
  <2>2. CASE /\ row' = IF Indexed THEN [row EXCEPT !.hash = t.hash, !.cover = t.cover]
                       ELSE [id |-> t.id, library |-> library, hash |-> t.hash, cover |-> t.cover]
             /\ Step(k, [t EXCEPT !.pc = "supersede"])
    <3>1. row'.hash = t.hash /\ row'.cover = t.cover
      BY <1>c, <2>2 DEF Row
    <3>2. /\ task'[k] = [t EXCEPT !.pc = "supersede"]
          /\ \A j \in Tasks \ {k} : task'[j] = task[j]
      BY <2>2 DEF Step, TypeInv, TypeOK
    <3>3. /\ task'[k].pc = "supersede" /\ task'[k].cover = t.cover /\ task'[k].hash = t.hash
          /\ task'[k].alone = t.alone
      BY <1>a, <3>2 DEF Task
    <3>4. Solo(k) => t.hash <= t.of /\ Fresh(t.cover, t.of)
      BY <1>b, <2>1 DEF Path
    <3>5. Solo(k) /\ t.cover # NoCover => covers[t.cover].there /\ covers[t.cover].of >= t.hash
      BY <1>a, <3>4 DEF Fresh
    <3>6. Solo(k) => Path(task[k])'
      BY <2>1, <3>1, <3>3, <3>5 DEF Path, Fresh
    <3>7. ~crossed => CoverServed'
      BY <1>b, <2>1, <3>1, <3>5 DEF CoverServed
    <3> QED BY <1>b, <2>1, <3>1, <3>2, <3>3, <3>6, <3>7, WriterStep
  <2> QED BY <1>e, <2>1, <2>2
<1>8. CASE UpsertFails(k)
  BY <1>8, <1>e DEF UpsertFails, Writing, disk
<1>9. CASE RemoveSuperseded(k)
  <2>1. /\ t.pc = "supersede" /\ Writing(k) /\ covers' = Remove(Superseded(t)) /\ Return(k)
        /\ (crossed' <=> crossed /\ ~t.alone)
        /\ UNCHANGED <<file, clock, row, regen, littered>>
    BY <1>9 DEF RemoveSuperseded, Writing, disk
  <2>2. ~Writing(k)' /\ task'[k].hash = 0 /\ \A j \in Tasks \ {k} : task'[j] = task[j]
    BY <1>d, <2>1, ReturnTypes DEF Writing
  <2>3. VersionsInv'
    BY <1>a, <2>1, <2>2 DEF ServedInv, VersionsInv, HasCover, Exists
  <2>4. ~crossed' => Solo(k)
    BY <2>1 DEF Solo
  <2>5. \A j \in Tasks : ~Solo(j)'
    BY <2>1, <2>2, <2>4 DEF ServedInv, AloneInv, Solo, Writing
  <2>6. AloneInv' /\ (~crossed' => regen'.pc = "idle")
    BY <2>1, <2>4, <2>5 DEF ServedInv, AloneInv
  <2>7. CoverServed'
    <3>1. SUFFICES ASSUME Solo(k), Indexed, row.cover # NoCover PROVE
               /\ covers'[row.cover].there
               /\ covers'[row.cover].of >= row.hash
      BY <2>1, <2>4 DEF CoverServed, Indexed
    <3>2. row.cover = t.cover /\ row.hash = t.hash /\ Fresh(t.cover, t.hash)
      BY <1>b, <2>1, <3>1 DEF Path
    <3>3. Superseded(t) \in Names \cup {NoCover} /\ Superseded(t) # row.cover
      BY <1>a, <3>1, <3>2 DEF Superseded
    <3>4. covers'[row.cover] = covers[row.cover]
      BY <1>a, <2>1, <3>1, <3>3, FolderAfter
    <3> QED BY <3>1, <3>2, <3>4 DEF Fresh
  <2> QED BY <2>3, <2>5, <2>6, <2>7 DEF ServedInv
<1>10. CASE DeleteRow(k)
  <2> DEFINE s == [NoTask EXCEPT !.pc = "unlink", !.old = row.cover]
  <2>1. s \in Task /\ TaskLocals(s) /\ ~s.alone /\ s.pc = "unlink" /\ s.hash = 0
    BY Constants DEF NoTask, Task, TaskLocals, TypeInv, TypeOK, Row
  <2>2. /\ Start(k, s) /\ Overlap /\ ~Writing(k) /\ row' = NoRow
        /\ UNCHANGED <<file, clock, covers, regen>>
    BY <1>10 DEF DeleteRow, Start, Writing, disk
  <2> HIDE DEF s
  <2>3. task'[k] = [s EXCEPT !.alone = Resting]
    BY <2>1, <2>2, StartTypes
  <2>4. task'[k].pc = "unlink"
    BY <2>1, <2>3 DEF Task
  <2>5. Path(task[k])'
    BY <2>2, <2>4 DEF Path, Indexed, NoRow
  <2> QED BY <1>b, <2>1, <2>2, <2>5, WriterStart
<1>11. CASE RemoveCover(k)
  <2>1. /\ t.pc = "unlink" /\ Writing(k) /\ Return(k)
        /\ UNCHANGED <<file, clock, row, regen, crossed, littered>>
    BY <1>11 DEF RemoveCover, Writing, disk, tally
  <2>2. ~Writing(k)' /\ task'[k].hash = 0 /\ \A j \in Tasks \ {k} : task'[j] = task[j]
    BY <1>d, <2>1, ReturnTypes DEF Writing
  <2>3. ~crossed => CoverServed'
    BY <1>b, <2>1 DEF Path, CoverServed, Indexed
  <2> QED BY <1>b, <2>1, <2>2, <2>3, WriterStep
<1>12. CASE RemoveFails(k)
  BY <1>12, <1>e DEF RemoveFails, Writing, disk
<1> QED BY <1>1, <1>2, <1>3, <1>4, <1>5, <1>6, <1>7, <1>8, <1>9, <1>10, <1>11, <1>12
      DEF TaskStep

\* Each step of coverregen keeps the row's cover served.
LEMMA RegenServed ==
    ASSUME TypeInv, ServedInv, RegenStep
    PROVE  ServedInv'
<1>a. /\ regen \in Regen /\ RegenLocals /\ regen.of \in Nat /\ regen.of \in Versions
      /\ regen.cover \in Names \cup {NoCover} /\ regen.old \in Names \cup {NoCover}
      /\ row \in Row /\ row.hash \in Nat /\ clock \in Nat /\ row.cover \in Names \cup {NoCover}
      /\ covers \in [Names -> Content] /\ \A n \in Names : covers[n].of \in Nat
  BY Plain DEF Regen, TypeInv, TypeOK
<1>b. /\ regen.pc # "idle" /\ ~crossed => RegenPath
      /\ ~crossed => CoverServed
      /\ row.hash <= clock /\ NoCover \notin Names
  BY Constants DEF ServedInv, VersionsInv
\* At work it is alone, or nothing is said of anyone.
<1>c. ASSUME regen.pc # "idle", UNCHANGED <<file, clock, task, crossed>>, littered => littered',
             row'.hash = row.hash, ~crossed => CoverServed',
             ~crossed /\ regen'.pc # "idle" => RegenPath'
      PROVE  ServedInv'
  <2>1. VersionsInv'
    BY <1>c DEF ServedInv, VersionsInv, HasCover, Exists
  <2>2. \A k \in Tasks : ~Solo(k) /\ ~Solo(k)'
    BY <1>c DEF ServedInv, AloneInv, Solo, Writing
  <2>3. AloneInv' /\ CoverServed'
    BY <1>c, <2>2 DEF ServedInv, AloneInv, CoverServed
  <2> QED BY <1>c, <2>1, <2>2, <2>3 DEF ServedInv
<1>d. ASSUME regen.pc # "idle", UNCHANGED <<file, clock, task, crossed, row, covers>>,
             littered => littered', regen' = NoRegen
      PROVE  ServedInv'
  <2>1. regen'.pc = "idle" /\ (~crossed => CoverServed')
    BY <1>b, <1>d DEF NoRegen, CoverServed, Indexed
  <2> QED BY <1>c, <1>d, <2>1
<1>1. CASE RegenStart
  <2>1. /\ regen.pc = "idle" /\ Indexed /\ Overlap
        /\ regen' = [NoRegen EXCEPT !.pc = "open", !.id = row.id, !.old = row.cover]
        /\ task' = [k \in Tasks |-> [task[k] EXCEPT !.alone = FALSE]]
        /\ UNCHANGED <<file, clock, row, covers>>
    BY <1>1 DEF RegenStart, disk
  <2>2. regen'.pc = "open" /\ regen'.id = row.id /\ regen'.old = row.cover
    BY <2>1 DEF NoRegen
  <2>3. ASSUME NEW k \in Tasks
        PROVE  task'[k].pc = task[k].pc /\ task'[k].hash = task[k].hash /\ task'[k].alone = FALSE
    <3>1. task[k] \in Task /\ FALSE \in BOOLEAN
      BY Plain
    <3>2. task'[k] = [task[k] EXCEPT !.alone = FALSE]
      BY <2>1
    <3> QED BY <3>1, <3>2 DEF Task
  <2>4. (crossed' <=> crossed \/ ~Resting) /\ (littered' <=> littered \/ ~Resting)
    BY <2>1 DEF Overlap
  <2>5. \A k \in Tasks : ~Solo(k)'
    BY <2>3, <2>4 DEF Solo, Writing, Resting
  <2>6. VersionsInv'
    BY <2>1, <2>3 DEF ServedInv, VersionsInv, HasCover, Exists
  <2>7. AloneInv' /\ CoverServed'
    BY <1>b, <2>1, <2>4, <2>5 DEF ServedInv, AloneInv, CoverServed, Indexed
  <2>8. RegenPath'
    BY <2>1, <2>2 DEF RegenPath, Indexed
  <2> QED BY <2>5, <2>6, <2>7, <2>8 DEF ServedInv
<1>2. CASE RegenOpen
  <2>1. /\ regen.pc = "open" /\ UNCHANGED <<file, clock, row, covers, task, crossed, littered>>
        /\ \/ regen' = NoRegen
           \/ /\ HasCover /\ Ids \ InUse # {}
              /\ regen' = [regen EXCEPT !.pc = "write", !.of = file.version,
                                        !.cover = CoverName(FreshId)]
    BY <1>2 DEF RegenOpen, disk, tally
  <2>2. CASE /\ HasCover /\ Ids \ InUse # {}
             /\ regen' = [regen EXCEPT !.pc = "write", !.of = file.version,
                                       !.cover = CoverName(FreshId)]
    <3>1. regen'.pc = "write" /\ regen'.of = file.version /\ regen'.id = regen.id /\ regen'.old = regen.old
      BY <1>a, <2>2 DEF Regen
    <3>2. file.version = clock
      BY <2>2 DEF ServedInv, VersionsInv, Exists
    <3>3. ~crossed => RegenPath' /\ CoverServed'
      BY <1>b, <2>1, <3>1, <3>2 DEF RegenPath, Indexed, CoverServed
    <3> QED BY <1>c, <2>1, <3>3
  <2> QED BY <1>d, <2>1, <2>2
<1>3. CASE RegenWrite
  <2>1. /\ regen.pc = "write" /\ regen' = [regen EXCEPT !.pc = "update"]
        /\ covers' = Write(regen.cover, regen.of)
        /\ UNCHANGED <<file, clock, row, task, crossed, littered>>
    BY <1>3 DEF RegenWrite, disk, tally
  <2>2. /\ regen'.pc = "update" /\ regen'.of = regen.of /\ regen'.id = regen.id
        /\ regen'.old = regen.old /\ regen'.cover = regen.cover
    BY <1>a, <2>1 DEF Regen
  <2>3. regen.cover \in Names /\ regen.cover # regen.old
    BY <1>a, <2>1 DEF RegenLocals
  <2>4. /\ covers'[regen.cover] = [there |-> TRUE, of |-> regen.of]
        /\ \A m \in Names \ {regen.cover} : covers'[m] = covers[m]
    BY <1>a, <2>1, <2>3, FolderAfter
  <2>5. ~crossed => RegenPath'
    BY <1>a, <1>b, <2>1, <2>2, <2>4 DEF RegenPath, Indexed, Fresh
  <2>6. ~crossed => CoverServed'
    BY <1>a, <1>b, <2>1, <2>3, <2>4 DEF RegenPath, CoverServed, Indexed
  <2> QED BY <1>c, <2>1, <2>5, <2>6
<1>4. CASE RegenUpdate
  <2>1. /\ regen.pc = "update" /\ regen' = [regen EXCEPT !.pc = "remove"]
        /\ row' = IF row.id = regen.id THEN [row EXCEPT !.cover = regen.cover] ELSE row
        /\ UNCHANGED <<file, clock, covers, task, crossed, littered>>
    BY <1>4 DEF RegenUpdate, disk, tally
  <2>2. regen'.pc = "remove" /\ regen'.id = regen.id /\ regen'.cover = regen.cover
    BY <1>a, <2>1 DEF Regen
  <2>3. /\ row'.id = row.id /\ row'.hash = row.hash
        /\ row.id = regen.id => row'.cover = regen.cover
    BY <1>a, <2>1 DEF Row
  <2>4. ~crossed => RegenPath'
    BY <1>b, <2>1, <2>2, <2>3 DEF RegenPath, Indexed
  <2>5. ~crossed /\ Indexed => /\ row.id = regen.id /\ row.hash <= regen.of
                               /\ Fresh(regen.cover, regen.of)
    BY <1>b, <2>1 DEF RegenPath
  <2>6. regen.cover \in Names
    BY <1>a, <2>1 DEF RegenLocals
  <2>7. ~crossed => CoverServed'
    BY <1>a, <2>1, <2>3, <2>5, <2>6 DEF CoverServed, Indexed, Fresh
  <2> QED BY <1>c, <2>1, <2>3, <2>4, <2>7
<1>5. CASE RegenRemove
  <2>1. /\ regen.pc = "remove" /\ regen' = NoRegen /\ covers' = Remove(regen.old)
        /\ UNCHANGED <<file, clock, row, task, crossed, littered>>
    BY <1>5 DEF RegenRemove, disk, tally
  <2>2. ~crossed /\ Indexed => row.cover = regen.cover /\ regen.cover # regen.old
    BY <1>a, <1>b, <2>1 DEF RegenPath, RegenLocals
  <2>3. ~crossed => CoverServed'
    BY <1>a, <1>b, <2>1, <2>2, FolderAfter DEF CoverServed, Indexed
  <2> QED BY <1>c, <2>1, <2>3 DEF NoRegen
<1>6. CASE RegenFails
  <2>1. /\ regen.pc # "idle" /\ regen' = NoRegen /\ littered'
        /\ \/ regen.pc = "write" /\ covers' = Write(regen.cover, 0)
           \/ regen.pc = "update" /\ covers' = Remove(regen.cover)
           \/ UNCHANGED covers
        /\ UNCHANGED <<file, clock, row, task, crossed>>
    BY <1>6 DEF RegenFails, disk
  <2>2. ASSUME ~crossed, regen.pc \in {"write", "update"}, Indexed
        PROVE  regen.cover \in Names /\ row.cover # regen.cover
    BY <1>a, <1>b, <2>2 DEF RegenPath, RegenLocals
  <2>3. ASSUME ~crossed, Indexed, row.cover # NoCover
        PROVE  covers'[row.cover] = covers[row.cover]
    <3>1. 0 \in Versions /\ row.cover \in Names
      BY <1>a, <2>3, Constants
    <3>2. CASE regen.pc = "write" /\ covers' = Write(regen.cover, 0)
      <4>1. regen.cover \in Names /\ row.cover \in Names \ {regen.cover}
        BY <2>2, <2>3, <3>1, <3>2
      <4>2. \A m \in Names \ {regen.cover} : Write(regen.cover, 0)[m] = covers[m]
        BY <1>a, <3>1, <4>1, FolderAfter
      <4>3. Write(regen.cover, 0)[row.cover] = covers[row.cover]
        BY <4>1, <4>2
      <4> QED BY <3>2, <4>3
    <3>3. CASE regen.pc = "update" /\ covers' = Remove(regen.cover)
      BY <1>a, <2>2, <2>3, <3>1, <3>3, FolderAfter
    <3> QED BY <2>1, <3>2, <3>3
  <2>4. ~crossed => CoverServed'
    BY <1>b, <2>1, <2>3 DEF CoverServed, Indexed
  <2> QED BY <1>c, <2>1, <2>4 DEF NoRegen
<1> QED BY <1>1, <1>2, <1>3, <1>4, <1>5, <1>6 DEF RegenStep

LEMMA ServedStep == TypeInv /\ ServedInv /\ [Next]_vars => ServedInv'
<1> SUFFICES ASSUME TypeInv, ServedInv, [Next]_vars PROVE ServedInv'
  OBVIOUS
<1>a. clock \in Nat /\ \A k \in Tasks : task[k].hash \in Nat /\ task[k].of \in Nat
  BY Plain
<1>1. ASSUME UNCHANGED <<row, covers, task, regen, crossed, littered>>, VersionsInv'
      PROVE  ServedInv'
  <2>1. AloneInv' /\ CoverServed' /\ (RegenPath => RegenPath')
    BY <1>1 DEF ServedInv, AloneInv, Solo, Writing, CoverServed, Indexed, RegenPath, Fresh
  <2>2. \A k \in Tasks : Solo(k)' => Path(task[k])'
    BY <1>1 DEF ServedInv, Solo, Writing, Path, Indexed, Fresh
  <2> QED BY <1>1, <2>1, <2>2 DEF ServedInv
<1>2. CASE WriteFile
  <2>1. /\ clock' = clock + 1 /\ file'.version = clock'
        /\ UNCHANGED <<row, covers, task, regen, crossed, littered>>
    BY <1>2 DEF WriteFile, tally
  <2>2. VersionsInv'
    BY <1>a, <2>1, Plain DEF ServedInv, VersionsInv, HasCover, Exists
  <2> QED BY <1>1, <2>1, <2>2
<1>3. CASE RemoveFile
  <2>1. /\ UNCHANGED <<clock, row, covers, task, regen, crossed, littered>>
        /\ file'.version = 0 /\ file'.ext = "none"
    BY <1>3 DEF RemoveFile, tally
  <2>2. VersionsInv'
    BY <2>1 DEF ServedInv, VersionsInv, HasCover, Exists
  <2> QED BY <1>1, <2>1, <2>2
<1>4. CASE DeleteLibrary
  <2>1. /\ row'.id = 0 /\ row'.hash = 0 /\ littered'
        /\ UNCHANGED <<file, clock, covers, task, regen, crossed>>
    BY <1>4 DEF DeleteLibrary, NoRow, disk
  <2>2. VersionsInv' /\ AloneInv' /\ CoverServed'
    BY <1>a, <2>1 DEF ServedInv, VersionsInv, HasCover, Exists, AloneInv, Solo, Writing, CoverServed,
        Indexed
  <2>3. \A k \in Tasks : Solo(k)' => Path(task[k])'
    BY <1>a, <2>1 DEF ServedInv, Solo, Writing, Path, Indexed, Fresh
  <2>4. regen'.pc # "idle" /\ ~crossed' => RegenPath'
    <3>1. regen.of \in Nat
      BY Plain
    <3> QED BY <2>1, <3>1 DEF ServedInv, RegenPath, Indexed, Fresh
  <2> QED BY <2>2, <2>3, <2>4 DEF ServedInv
<1>5. CASE Crash
  <2>1. /\ \A k \in Tasks : task'[k].pc = "idle" /\ task'[k].hash = 0
        /\ littered' /\ UNCHANGED <<file, clock, row, covers, regen, crossed>>
    BY <1>5 DEF Crash, NoTask, disk
  <2>2. VersionsInv' /\ AloneInv' /\ CoverServed'
    BY <1>a, <2>1 DEF ServedInv, VersionsInv, HasCover, Exists, AloneInv, Solo, Writing, CoverServed,
        Indexed
  <2>3. RegenPath => RegenPath'
    BY <2>1 DEF RegenPath, Indexed, Fresh
  <2> QED BY <2>1, <2>2, <2>3 DEF ServedInv, Solo, Writing
<1>6. ASSUME UNCHANGED <<file, clock, row, covers, task, regen, crossed, littered>> PROVE ServedInv'
  <2>1. VersionsInv'
    BY <1>6 DEF ServedInv, VersionsInv, HasCover, Exists
  <2> QED BY <1>1, <1>6, <2>1
<1>7. CASE CreateLibrary
  BY <1>6, <1>7 DEF CreateLibrary, disk, tally
<1> QED BY <1>2, <1>3, <1>4, <1>5, <1>6, <1>7, TaskServed, RegenServed DEF Next, vars, disk, tally

LEMMA ServedInit == Init => ServedInv
<1> SUFFICES ASSUME Init PROVE ServedInv
  OBVIOUS
<1>1. /\ file.version = 0 /\ file.ext = "none" /\ clock = 0 /\ row.hash = 0 /\ row.id = 0
      /\ regen.pc = "idle" /\ ~crossed
      /\ \A k \in Tasks : task[k].pc = "idle" /\ task[k].hash = 0
  BY DEF Init, NoRow, NoRegen, NoTask
<1> QED BY <1>1 DEF ServedInv, VersionsInv, HasCover, Exists, AloneInv, Solo, Writing, CoverServed,
      Indexed

-----------------------------------------------------------------------------
(* Covers left over.                                                       *)

\* The covers that a goroutine and coverregen have yet to store in the row or to remove.
TaskLeaves(t, n) ==
    \/ t.pc = "upsert" /\ n = t.cover
    \/ t.pc \in {"supersede", "unlink"} /\ n = t.old

RegenLeaves(n) ==
    \/ regen.pc = "update" /\ n = regen.cover
    \/ regen.pc = "remove" /\ n = regen.old

\* The library a goroutine found is there, and a book without a row had no cover.
KeptPath(t) ==
    /\ t.pc \in {"hash", "open", "save", "upsert"} => t.library = library
    /\ t.pc \in {"hash", "stats", "open", "save", "upsert"} /\ ~Indexed => t.old = NoCover
    /\ t.pc = "supersede" => Indexed

Accounted ==
    \A n \in Names :
        covers[n].there => \/ n = row.cover
                           \/ RegenLeaves(n)
                           \/ \E k \in Tasks : TaskLeaves(task[k], n)

KeptInv ==
    ~littered =>
        /\ Accounted
        /\ regen.pc # "idle" => Indexed
        /\ \A k \in Tasks : KeptPath(task[k])

\* If the library was never deleted, it is the one there was to begin with.
LibraryInv == ~littered => library = 1 /\ made = 1

LEMMA LibraryStep == LibraryInv /\ [Next]_vars => LibraryInv'
<1> SUFFICES ASSUME LibraryInv, [Next]_vars PROVE LibraryInv'
  OBVIOUS
<1>1. ASSUME UNCHANGED libs, littered => littered' PROVE LibraryInv'
  BY <1>1 DEF LibraryInv, libs
<1>2. CASE DeleteLibrary \/ CreateLibrary
  BY <1>2 DEF DeleteLibrary, CreateLibrary, LibraryInv, tally
<1>3. CASE WriteFile \/ RemoveFile \/ Crash \/ UNCHANGED <<libs, tally>>
  BY <1>1, <1>3 DEF WriteFile, RemoveFile, Crash, tally
<1>4. CASE RegenStep
  BY <1>1, <1>4 DEF RegenStep, RegenStart, RegenOpen, RegenWrite, RegenUpdate, RegenRemove, RegenFails,
      Overlap, tally
<1>5. ASSUME NEW k \in Tasks, TaskStep(k) PROVE LibraryInv'
  <2>1. CASE ProcessFile(k) \/ DeleteRow(k)
    BY <1>1, <2>1 DEF ProcessFile, DeleteRow, Start, Overlap
  <2>2. CASE ~(ProcessFile(k) \/ DeleteRow(k))
    BY <1>1, <1>5, <2>2 DEF TaskStep, HashFile, UpdateFileStats, Open, SaveCover, SaveFails,
        UpsertBook, UpsertFails, RemoveSuperseded, RemoveCover, RemoveFails, tally
  <2> QED BY <2>1, <2>2
<1>6. CASE UNCHANGED vars
  BY <1>1, <1>6 DEF vars, tally
<1> QED BY <1>2, <1>3, <1>4, <1>5, <1>6 DEF Next

\* A goroutine at work is alone if writers never overlapped.
LEMMA TaskAlone ==
    ASSUME ServedInv, KeptInv, ~littered, NEW k \in Tasks, Writing(k)
    PROVE  /\ Path(task[k]) /\ KeptPath(task[k])
           /\ regen.pc = "idle" /\ \A j \in Tasks \ {k} : ~Writing(j)
           /\ \A n \in Names : covers[n].there => n = row.cover \/ TaskLeaves(task[k], n)
<1>1. Solo(k)
  BY DEF ServedInv, AloneInv, Solo
<1>2. regen.pc = "idle" /\ \A j \in Tasks \ {k} : ~Writing(j)
  BY <1>1 DEF ServedInv, AloneInv
<1>3. \A n \in Names : ~RegenLeaves(n) /\ \A j \in Tasks \ {k} : ~TaskLeaves(task[j], n)
  BY <1>2 DEF RegenLeaves, TaskLeaves, Writing
<1>4. Path(task[k]) /\ KeptPath(task[k]) /\ Accounted
  BY <1>1 DEF ServedInv, KeptInv
<1> QED BY <1>2, <1>3, <1>4 DEF Accounted

\* So is coverregen.
LEMMA RegenAlone ==
    ASSUME ServedInv, KeptInv, ~littered, regen.pc # "idle"
    PROVE  /\ RegenPath /\ Indexed
           /\ \A j \in Tasks : ~Writing(j)
           /\ \A n \in Names : covers[n].there => n = row.cover \/ RegenLeaves(n)
<1>1. ~crossed /\ RegenPath /\ Indexed /\ Accounted
  BY DEF ServedInv, AloneInv, KeptInv
<1>2. \A j \in Tasks : ~Writing(j)
  BY <1>1 DEF ServedInv, AloneInv, Solo
<1>3. \A n \in Names, j \in Tasks : ~TaskLeaves(task[j], n)
  BY <1>2 DEF TaskLeaves, Writing
<1> QED BY <1>1, <1>2, <1>3 DEF Accounted

\* When nobody is at work, the covers are the row's.
LEMMA NobodyLeaves ==
    ASSUME KeptInv, ~littered, Resting, NEW n \in Names, covers[n].there
    PROVE  n = row.cover
BY DEF KeptInv, Accounted, RegenLeaves, TaskLeaves, Resting

\* A goroutine at work takes a step that starts no writer.
LEMMA TaskKeeps ==
    ASSUME ServedInv, KeptInv, NEW k \in Tasks, Writing(k),
           \A j \in Tasks \ {k} : task'[j] = task[j],
           UNCHANGED <<library, regen>>, littered => littered',
           ~littered' => KeptPath(task[k])',
           ~littered' => \A n \in Names :
                            covers'[n].there => n = row'.cover \/ TaskLeaves(task'[k], n)
    PROVE  KeptInv'
<1> SUFFICES ASSUME ~littered'
             PROVE  /\ Accounted'
                    /\ regen'.pc # "idle" => Indexed'
                    /\ \A j \in Tasks : KeptPath(task[j])'
  BY DEF KeptInv
<1>1. regen'.pc = "idle" /\ \A j \in Tasks \ {k} : task'[j].pc = "idle"
  BY TaskAlone DEF Writing
<1>2. \A j \in Tasks : KeptPath(task[j])'
  BY <1>1 DEF KeptPath
<1>3. Accounted'
  BY DEF Accounted
<1> QED BY <1>1, <1>2, <1>3

\* A goroutine starts.
LEMMA TaskStarts ==
    ASSUME TypeInv, KeptInv, NEW k \in Tasks, Overlap,
           NEW t \in Task, Start(k, t), UNCHANGED <<library, regen, covers>>,
           ~littered /\ Resting => KeptPath(task[k])',
           ~littered /\ Resting => row'.cover = row.cover \/ TaskLeaves(task'[k], row.cover)
    PROVE  KeptInv'
<1> SUFFICES ASSUME ~littered'
             PROVE  /\ Accounted'
                    /\ regen'.pc # "idle" => Indexed'
                    /\ \A j \in Tasks : KeptPath(task[j])'
  BY DEF KeptInv
<1>1. ~littered /\ Resting
  BY DEF Overlap
<1>2. ASSUME NEW j \in Tasks \ {k}
      PROVE  task'[j].pc = "idle"
  <2>1. task'[j] = [task[j] EXCEPT !.alone = FALSE]
    BY DEF Start
  <2>2. task[j] \in Task /\ FALSE \in BOOLEAN
    BY Plain
  <2> QED BY <1>1, <2>1, <2>2 DEF Resting, Task
<1>3. \A j \in Tasks : KeptPath(task[j])'
  BY <1>1, <1>2 DEF KeptPath
<1>4. Accounted'
  BY <1>1, NobodyLeaves DEF Accounted
<1> QED BY <1>1, <1>3, <1>4 DEF Resting

\* Each step of a goroutine accounts for the covers that are there.
LEMMA TaskKept ==
    ASSUME TypeInv, LibraryInv, ServedInv, KeptInv, NEW k \in Tasks, TaskStep(k)
    PROVE  KeptInv'
<1> DEFINE t == task[k]
<1>a. /\ t \in Task /\ TaskLocals(t) /\ t.of \in Versions
      /\ t.cover \in Names \cup {NoCover} /\ t.old \in Names \cup {NoCover}
      /\ row \in Row /\ row.cover \in Names \cup {NoCover}
      /\ covers \in [Names -> Content] /\ NoCover \notin Names
  BY Plain, Constants DEF Task, TypeInv, TypeOK
<1>b. row.id = 0 => row.cover = NoCover
  BY DEF TypeInv, TypeOK, NoRow
\* Alone, it knows what is there.
<1>c. ASSUME ~littered, Writing(k)
      PROVE  /\ Path(t) /\ KeptPath(t)
             /\ \A n \in Names : covers[n].there => n = row.cover \/ TaskLeaves(t, n)
  BY <1>c, TaskAlone
\* If it fails, nothing is said of what is left over.
<1>d. ASSUME littered' PROVE KeptInv'
  BY <1>d DEF KeptInv
\* It goes on to pc.
<1>e. ASSUME NEW s \in Task, Step(k, s)
      PROVE  task'[k] = s /\ \A j \in Tasks \ {k} : task'[j] = task[j]
  BY <1>e DEF Step, TypeInv, TypeOK
<1>f. ASSUME Return(k)
      PROVE  /\ KeptPath(task[k])' /\ task'[k].pc = "idle"
             /\ \A j \in Tasks \ {k} : task'[j] = task[j]
  <2>1. task'[k].pc = "idle" /\ \A j \in Tasks \ {k} : task'[j] = task[j]
    BY <1>f, ReturnTypes DEF NoTask
  <2> QED BY <2>1 DEF KeptPath
<1>1. CASE ProcessFile(k)
  <2>1. PICK id \in 1..made :
             Start(k, [NoTask EXCEPT !.pc = "hash", !.library = id, !.id = row.id,
                                     !.hash = row.hash, !.old = row.cover])
    BY <1>1 DEF ProcessFile
  <2> DEFINE s == [NoTask EXCEPT !.pc = "hash", !.library = id, !.id = row.id,
                                 !.hash = row.hash, !.old = row.cover]
  <2>2. s \in Task
    <3>1. /\ id \in 0..MaxLibrary /\ row.id \in {0} \cup Ids /\ row.hash \in Versions
          /\ row.cover \in Cover
      BY CoversAssumption DEF TypeInv, TypeOK, Row
    <3> QED BY <3>1, Constants DEF NoTask, Task
  <2>3. s.pc = "hash" /\ s.library = id /\ s.old = row.cover
    BY DEF NoTask
  <2>4. Start(k, s) /\ Overlap /\ UNCHANGED <<library, row, covers, regen>>
    BY <1>1, <2>1 DEF ProcessFile, Start, libs
  <2> HIDE DEF s
  <2>5. task'[k] = [s EXCEPT !.alone = Resting]
    BY <2>4 DEF Start
  <2>6. task'[k].pc = "hash" /\ task'[k].library = id /\ task'[k].old = row.cover
    BY <2>2, <2>3, <2>5 DEF Task
  <2>7. ~littered => KeptPath(task[k])'
    BY <1>b, <2>4, <2>6 DEF KeptPath, Indexed, LibraryInv
  <2> QED BY <2>2, <2>4, <2>7, TaskStarts
<1>2. CASE HashFile(k)
  <2>1. /\ t.pc = "hash" /\ Writing(k)
        /\ UNCHANGED <<library, row, covers, regen, littered>>
        /\ \/ Return(k)
           \/ Step(k, [t EXCEPT !.pc = "stats"])
           \/ Step(k, [t EXCEPT !.pc = "open", !.hash = file.version,
                                !.id = IF t.id = 0 THEN FreshId ELSE t.id])
    BY <1>2 DEF HashFile, Writing, tally, libs
  <2>2. ~littered => \A n \in Names : covers[n].there => n = row.cover
    BY <1>c, <2>1 DEF TaskLeaves
  <2>3. ASSUME NEW s, task'[k] = s, \A j \in Tasks \ {k} : task'[j] = task[j],
               s.pc \in {"stats", "open"}, s.library = t.library, s.old = t.old
        PROVE  KeptInv'
    <3>1. ~littered => KeptPath(task[k])'
      BY <1>c, <2>1, <2>3 DEF KeptPath, Indexed
    <3> QED BY <2>1, <2>2, <2>3, <3>1, TaskKeeps
  <2>4. CASE Return(k)
    BY <1>f, <2>1, <2>2, <2>4, TaskKeeps
  <2>5. CASE Step(k, [t EXCEPT !.pc = "stats"])
    <3> DEFINE s == [t EXCEPT !.pc = "stats"]
    <3>1. s.pc = "stats" /\ s.library = t.library /\ s.old = t.old
      BY <1>a DEF Task
    <3>2. task'[k] = s /\ \A j \in Tasks \ {k} : task'[j] = task[j]
      BY <2>5 DEF Step, TypeInv, TypeOK
    <3> HIDE DEF s
    <3> QED BY <2>3, <3>1, <3>2
  <2>6. CASE Step(k, [t EXCEPT !.pc = "open", !.hash = file.version,
                               !.id = IF t.id = 0 THEN FreshId ELSE t.id])
    <3> DEFINE s == [t EXCEPT !.pc = "open", !.hash = file.version,
                              !.id = IF t.id = 0 THEN FreshId ELSE t.id]
    <3>1. s.pc = "open" /\ s.library = t.library /\ s.old = t.old
      BY <1>a DEF Task
    <3>2. task'[k] = s /\ \A j \in Tasks \ {k} : task'[j] = task[j]
      BY <2>6 DEF Step, TypeInv, TypeOK
    <3> HIDE DEF s
    <3> QED BY <2>3, <3>1, <3>2
  <2> QED BY <2>1, <2>4, <2>5, <2>6
<1>3. CASE UpdateFileStats(k)
  <2>1. /\ t.pc = "stats" /\ Writing(k) /\ Return(k)
        /\ row' = IF row.id = t.id THEN [row EXCEPT !.hash = t.hash] ELSE row
        /\ UNCHANGED <<library, covers, regen, littered>>
    BY <1>3 DEF UpdateFileStats, Writing, tally, libs
  <2>2. ~littered => \A n \in Names : covers[n].there => n = row.cover
    BY <1>c, <2>1 DEF TaskLeaves
  <2>3. row'.cover = row.cover
    BY <1>a, <2>1 DEF Row
  <2> QED BY <1>f, <2>1, <2>2, <2>3, TaskKeeps
<1>4. CASE Open(k)
  <2>1. /\ t.pc = "open" /\ Writing(k)
        /\ UNCHANGED <<library, row, covers, regen, littered>>
        /\ \/ Return(k)
           \/ Step(k, [t EXCEPT !.pc = "save", !.of = file.version,
                                !.cover = IF HasCover THEN CoverName(t.id) ELSE NoCover])
    BY <1>4 DEF Open, Writing, tally, libs
  <2>2. ~littered => \A n \in Names : covers[n].there => n = row.cover
    BY <1>c, <2>1 DEF TaskLeaves
  <2>3. CASE Return(k)
    BY <1>f, <2>1, <2>2, <2>3, TaskKeeps
  <2>4. CASE Step(k, [t EXCEPT !.pc = "save", !.of = file.version,
                               !.cover = IF HasCover THEN CoverName(t.id) ELSE NoCover])
    <3> DEFINE s == [t EXCEPT !.pc = "save", !.of = file.version,
                              !.cover = IF HasCover THEN CoverName(t.id) ELSE NoCover]
    <3>1. s.pc = "save" /\ s.library = t.library /\ s.old = t.old
      BY <1>a DEF Task
    <3>2. task'[k] = s /\ \A j \in Tasks \ {k} : task'[j] = task[j]
      BY <2>4 DEF Step, TypeInv, TypeOK
    <3> HIDE DEF s
    <3>3. ~littered => KeptPath(task[k])'
      BY <1>c, <2>1, <3>1, <3>2 DEF KeptPath, Indexed
    <3> QED BY <2>1, <2>2, <3>2, <3>3, TaskKeeps
  <2> QED BY <2>1, <2>3, <2>4
<1>5. CASE SaveCover(k)
  <2>1. /\ t.pc = "save" /\ Writing(k) /\ covers' = Write(t.cover, t.of)
        /\ Step(k, [t EXCEPT !.pc = "upsert"])
        /\ UNCHANGED <<library, row, regen, littered>>
    BY <1>5 DEF SaveCover, Writing, tally, libs
  <2>2. task'[k] = [t EXCEPT !.pc = "upsert"] /\ \A j \in Tasks \ {k} : task'[j] = task[j]
    BY <2>1 DEF Step, TypeInv, TypeOK
  <2>3. /\ task'[k].pc = "upsert" /\ task'[k].library = t.library /\ task'[k].old = t.old
        /\ task'[k].cover = t.cover
    BY <1>a, <2>2 DEF Task
  <2>4. \A m \in Names : m = t.cover \/ covers'[m] = covers[m]
    <3> HIDE DEF t
    <3>1. CASE t.cover = NoCover
      BY <1>a, <2>1, <3>1, FolderAfter
    <3>2. CASE t.cover \in Names
      <4>1. /\ covers'[t.cover] = [there |-> TRUE, of |-> t.of]
            /\ \A m \in Names \ {t.cover} : covers'[m] = covers[m]
        BY <1>a, <2>1, <3>2, FolderAfter
      <4> QED BY <4>1
    <3> QED BY <1>a, <3>1, <3>2
  <2>5. ~littered => \A n \in Names : covers[n].there => n = row.cover
    BY <1>c, <2>1 DEF TaskLeaves
  <2>6. ~littered => \A n \in Names : covers'[n].there => n = row'.cover \/ TaskLeaves(task'[k], n)
    BY <2>1, <2>3, <2>4, <2>5 DEF TaskLeaves
  <2>7. ~littered => KeptPath(task[k])'
    BY <1>c, <2>1, <2>3 DEF KeptPath, Indexed
  <2> QED BY <2>1, <2>2, <2>6, <2>7, TaskKeeps
<1>6. CASE SaveFails(k) \/ UpsertFails(k) \/ RemoveFails(k)
  BY <1>d, <1>6 DEF SaveFails, UpsertFails, RemoveFails
<1>7. CASE UpsertBook(k)
  <2>1. /\ t.pc = "upsert" /\ Writing(k)
        /\ UNCHANGED <<library, covers, regen, littered>>
        /\ IF Indexed \/ t.library = library
           THEN /\ row' = IF Indexed THEN [row EXCEPT !.hash = t.hash, !.cover = t.cover]
                          ELSE [id |-> t.id, library |-> library, hash |-> t.hash,
                                cover |-> t.cover]
                /\ Step(k, [t EXCEPT !.pc = "supersede"])
           ELSE Return(k) /\ UNCHANGED row
    BY <1>7 DEF UpsertBook, Writing, tally, libs
  <2>2. SUFFICES ASSUME ~littered PROVE KeptInv'
    BY <1>d, <2>1
  <2>3. /\ row' = IF Indexed THEN [row EXCEPT !.hash = t.hash, !.cover = t.cover]
                  ELSE [id |-> t.id, library |-> library, hash |-> t.hash, cover |-> t.cover]
        /\ Step(k, [t EXCEPT !.pc = "supersede"])
    BY <1>c, <2>1, <2>2 DEF KeptPath
  <2>4. row'.cover = t.cover /\ row'.id # 0
    BY <1>a, <2>1, <2>3 DEF Row, Indexed, TaskLocals
  <2>5. /\ task'[k] = [t EXCEPT !.pc = "supersede"] /\ \A j \in Tasks \ {k} : task'[j] = task[j]
    BY <2>3 DEF Step, TypeInv, TypeOK
  <2>6. task'[k].pc = "supersede" /\ task'[k].old = t.old
    BY <1>a, <2>5 DEF Task
  \* What it replaces is the cover it found.
  <2>7. \A n \in Names : covers[n].there => n = t.cover \/ n = t.old
    BY <1>a, <1>b, <1>c, <2>1, <2>2 DEF Path, Indexed, TaskLeaves
  <2>8. \A n \in Names : covers'[n].there => n = row'.cover \/ TaskLeaves(task'[k], n)
    BY <2>1, <2>4, <2>6, <2>7 DEF TaskLeaves
  <2>9. KeptPath(task[k])'
    BY <2>4, <2>6 DEF KeptPath, Indexed
  <2> QED BY <2>1, <2>5, <2>8, <2>9, TaskKeeps
<1>8. CASE RemoveSuperseded(k)
  <2>1. /\ t.pc = "supersede" /\ Writing(k) /\ covers' = Remove(Superseded(t)) /\ Return(k)
        /\ UNCHANGED <<library, row, regen, littered>>
    BY <1>8 DEF RemoveSuperseded, Writing, libs
  <2>2. ~littered => row.cover = t.cover
    BY <1>c, <2>1 DEF Path, KeptPath
  <2>3. ~littered => \A n \in Names : covers[n].there => n = row.cover \/ n = t.old
    BY <1>c, <2>1 DEF TaskLeaves
  <2>4. Superseded(t) \in Names \cup {NoCover}
    BY <1>a DEF Superseded
  <2>5. \A n \in Names : covers'[n] = IF n = Superseded(t) THEN Gone ELSE covers[n]
    BY <1>a, <2>1, <2>4, FolderAfter
  <2>6. ~littered => \A n \in Names : covers'[n].there => n = row'.cover
    BY <2>1, <2>2, <2>3, <2>5 DEF Superseded, Gone
  <2> QED BY <1>f, <2>1, <2>6, TaskKeeps
<1>9. CASE DeleteRow(k)
  <2> DEFINE s == [NoTask EXCEPT !.pc = "unlink", !.old = row.cover]
  <2>1. s \in Task /\ s.pc = "unlink" /\ s.old = row.cover
    BY Constants DEF NoTask, Task, TypeInv, TypeOK, Row
  <2>2. /\ Start(k, s) /\ Overlap /\ row' = NoRow /\ UNCHANGED <<library, covers, regen>>
    BY <1>9 DEF DeleteRow, Start, libs
  <2> HIDE DEF s
  <2>3. task'[k] = [s EXCEPT !.alone = Resting]
    BY <2>2 DEF Start
  <2>4. task'[k].pc = "unlink" /\ task'[k].old = row.cover
    BY <2>1, <2>3 DEF Task
  <2>5. KeptPath(task[k])' /\ TaskLeaves(task'[k], row.cover)
    BY <2>4 DEF KeptPath, TaskLeaves
  <2> QED BY <2>1, <2>2, <2>5, TaskStarts
<1>10. CASE RemoveCover(k)
  <2>1. /\ t.pc = "unlink" /\ Writing(k) /\ covers' = Remove(t.old) /\ Return(k)
        /\ UNCHANGED <<library, row, regen, littered>>
    BY <1>10 DEF RemoveCover, Writing, tally, libs
  <2>2. ~littered => \A n \in Names : covers[n].there => n = row.cover \/ n = t.old
    BY <1>c, <2>1 DEF TaskLeaves
  <2>3. \A n \in Names : covers'[n] = IF n = t.old THEN Gone ELSE covers[n]
    BY <1>a, <2>1, FolderAfter
  <2>4. ~littered => \A n \in Names : covers'[n].there => n = row'.cover
    BY <2>1, <2>2, <2>3 DEF Gone
  <2> QED BY <1>f, <2>1, <2>4, TaskKeeps
<1> QED BY <1>1, <1>2, <1>3, <1>4, <1>5, <1>6, <1>7, <1>8, <1>9, <1>10 DEF TaskStep

\* Coverregen takes a step after its first.
LEMMA RegenKeeps ==
    ASSUME ServedInv, KeptInv, regen.pc # "idle", UNCHANGED <<library, task>>,
           littered => littered', row'.id = row.id,
           ~littered => \A n \in Names : covers'[n].there => n = row'.cover \/ RegenLeaves(n)'
    PROVE  KeptInv'
<1> SUFFICES ASSUME ~littered'
             PROVE  /\ Accounted'
                    /\ regen'.pc # "idle" => Indexed'
                    /\ \A j \in Tasks : KeptPath(task[j])'
  BY DEF KeptInv
<1>1. ~littered /\ Indexed' /\ \A j \in Tasks : task'[j].pc = "idle"
  BY RegenAlone DEF Writing, Indexed
<1>2. Accounted'
  BY <1>1 DEF Accounted
<1> QED BY <1>1, <1>2 DEF KeptPath

\* Each step of coverregen accounts for the covers that are there.
LEMMA RegenKept ==
    ASSUME TypeInv, ServedInv, KeptInv, RegenStep
    PROVE  KeptInv'
<1>a. /\ regen \in Regen /\ RegenLocals /\ regen.of \in Versions
      /\ regen.cover \in Names \cup {NoCover} /\ regen.old \in Names \cup {NoCover}
      /\ row \in Row /\ covers \in [Names -> Content]
  BY Plain DEF Regen, TypeInv, TypeOK
<1>b. ASSUME ~littered, regen.pc # "idle"
      PROVE  /\ RegenPath /\ Indexed
             /\ \A n \in Names : covers[n].there => n = row.cover \/ RegenLeaves(n)
  BY <1>b, RegenAlone
<1>c. NoRegen.pc = "idle"
  BY DEF NoRegen
<1>1. CASE RegenStart
  <2>1. SUFFICES ASSUME ~littered'
                 PROVE  /\ Accounted'
                        /\ regen'.pc # "idle" => Indexed'
                        /\ \A j \in Tasks : KeptPath(task[j])'
    BY DEF KeptInv
  <2>2. /\ ~littered /\ Resting /\ Indexed /\ UNCHANGED <<row, covers>>
        /\ task' = [k \in Tasks |-> [task[k] EXCEPT !.alone = FALSE]]
    BY <1>1, <2>1 DEF RegenStart, Overlap
  <2>3. ASSUME NEW j \in Tasks
        PROVE  task'[j].pc = "idle"
    <3>1. task[j] \in Task /\ FALSE \in BOOLEAN
      BY Plain
    <3>2. task'[j] = [task[j] EXCEPT !.alone = FALSE]
      BY <2>2
    <3> QED BY <2>2, <3>1, <3>2 DEF Resting, Task
  <2>4. Accounted'
    BY <2>2, NobodyLeaves DEF Accounted
  <2> QED BY <2>2, <2>3, <2>4 DEF Indexed, KeptPath
<1>2. CASE RegenOpen
  <2>1. /\ regen.pc = "open" /\ UNCHANGED <<library, row, covers, task, littered>>
    BY <1>2 DEF RegenOpen, tally, libs
  <2>2. ~littered => \A n \in Names : covers[n].there => n = row.cover
    BY <1>b, <2>1 DEF RegenLeaves
  <2> QED BY <2>1, <2>2, RegenKeeps
<1>3. CASE RegenWrite
  <2>1. /\ regen.pc = "write" /\ regen' = [regen EXCEPT !.pc = "update"]
        /\ covers' = Write(regen.cover, regen.of)
        /\ UNCHANGED <<library, row, task, littered>>
    BY <1>3 DEF RegenWrite, tally, libs
  <2>2. regen'.pc = "update" /\ regen'.cover = regen.cover
    BY <1>a, <2>1 DEF Regen
  <2>3. regen.cover \in Names
    BY <1>a, <2>1 DEF RegenLocals
  <2>4. /\ covers'[regen.cover] = [there |-> TRUE, of |-> regen.of]
        /\ \A m \in Names \ {regen.cover} : covers'[m] = covers[m]
    BY <1>a, <2>1, <2>3, FolderAfter
  <2>5. ~littered => \A n \in Names : covers[n].there => n = row.cover
    BY <1>b, <2>1 DEF RegenLeaves
  <2>6. ~littered => \A n \in Names : covers'[n].there => n = row'.cover \/ RegenLeaves(n)'
    BY <2>1, <2>2, <2>4, <2>5 DEF RegenLeaves
  <2> QED BY <2>1, <2>6, RegenKeeps
<1>4. CASE RegenUpdate
  <2>1. /\ regen.pc = "update" /\ regen' = [regen EXCEPT !.pc = "remove"]
        /\ row' = IF row.id = regen.id THEN [row EXCEPT !.cover = regen.cover] ELSE row
        /\ UNCHANGED <<library, covers, task, littered>>
    BY <1>4 DEF RegenUpdate, tally, libs
  <2>2. regen'.pc = "remove" /\ regen'.old = regen.old
    BY <1>a, <2>1 DEF Regen
  <2>3. row'.id = row.id /\ (row.id = regen.id => row'.cover = regen.cover)
    BY <1>a, <2>1 DEF Row
  \* What it replaces is the cover it found.
  <2>4. ~littered => \A n \in Names : covers[n].there => n = regen.old \/ n = regen.cover
    BY <1>b, <2>1 DEF RegenPath, RegenLeaves
  <2>5. ~littered => row'.cover = regen.cover
    BY <1>b, <2>1, <2>3 DEF RegenPath
  <2>6. ~littered => \A n \in Names : covers'[n].there => n = row'.cover \/ RegenLeaves(n)'
    BY <2>1, <2>2, <2>4, <2>5 DEF RegenLeaves
  <2> QED BY <2>1, <2>3, <2>6, RegenKeeps
<1>5. CASE RegenRemove
  <2>1. /\ regen.pc = "remove" /\ regen' = NoRegen /\ covers' = Remove(regen.old)
        /\ UNCHANGED <<library, row, task, littered>>
    BY <1>5 DEF RegenRemove, tally, libs
  <2>2. \A n \in Names : covers'[n] = IF n = regen.old THEN Gone ELSE covers[n]
    BY <1>a, <2>1, FolderAfter
  <2>3. ~littered => \A n \in Names : covers[n].there => n = row.cover \/ n = regen.old
    BY <1>b, <2>1 DEF RegenLeaves
  <2>4. ~littered => \A n \in Names : covers'[n].there => n = row'.cover
    BY <2>1, <2>2, <2>3 DEF Gone
  <2> QED BY <2>1, <2>4, RegenKeeps
<1>6. CASE RegenFails
  BY <1>6 DEF RegenFails, KeptInv
<1> QED BY <1>1, <1>2, <1>3, <1>4, <1>5, <1>6 DEF RegenStep

LEMMA KeptStep == TypeInv /\ LibraryInv /\ ServedInv /\ KeptInv /\ [Next]_vars => KeptInv'
<1> SUFFICES ASSUME TypeInv, LibraryInv, ServedInv, KeptInv, [Next]_vars PROVE KeptInv'
  OBVIOUS
<1>1. CASE DeleteLibrary \/ Crash
  BY <1>1 DEF DeleteLibrary, Crash, KeptInv
<1>2. ASSUME UNCHANGED <<library, row, covers, task, regen, littered>> PROVE KeptInv'
  BY <1>2 DEF KeptInv, Accounted, KeptPath, RegenLeaves, Indexed
<1>3. CASE CreateLibrary
  <2>1. library = 0 /\ UNCHANGED littered
    BY <1>3 DEF CreateLibrary, tally
  <2> QED BY <2>1 DEF LibraryInv, KeptInv
<1> QED BY <1>1, <1>2, <1>3, TaskKept, RegenKept
        DEF Next, vars, disk, libs, tally, WriteFile, RemoveFile

LEMMA KeptInit == Init => KeptInv
BY DEF Init, KeptInv, Accounted, KeptPath, NoTask, NoRegen, Gone

\* Whatever sequence of rewrites, removals, regenerations, crossings, failures and crashes
\* there was: the cover of a row is there and not older than its hash, unless its last
\* write failed or writers overlapped after the last one that ran alone; and if nobody
\* failed, overlapped or deleted the library, processFile, the removals and coverregen
\* leave no cover but the row's.
THEOREM CoversMatch == Spec => []CoversMatchRow
<1>1. Init => TypeInv /\ LibraryInv /\ ServedInv /\ KeptInv
  BY TypeInit, ServedInit, KeptInit DEF Init, LibraryInv
<1>2. /\ TypeInv /\ LibraryInv /\ ServedInv /\ KeptInv /\ [Next]_vars
      => (TypeInv /\ LibraryInv /\ ServedInv /\ KeptInv)'
  BY TypeStep, LibraryStep, ServedStep, KeptStep
<1>3. TypeInv /\ ServedInv /\ KeptInv => CoversMatchRow
  <2>1. ASSUME TypeInv, KeptInv, Resting, ~littered, NEW n \in Names, covers[n].there
        PROVE  Indexed /\ row.cover = n
    <3>1. n = row.cover
      BY <2>1, NobodyLeaves
    <3>2. row.id = 0 => row.cover = NoCover
      BY <2>1 DEF TypeInv, TypeOK, NoRow
    <3> QED BY <3>1, <3>2, Constants DEF Indexed
  <2> QED BY <2>1 DEF CoversMatchRow, NothingLeftOver, ServedInv
<1> QED BY <1>1, <1>2, <1>3, PTL DEF Spec
=============================================================================
