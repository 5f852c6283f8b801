----------------------- MODULE VolumePipelineProofs -----------------------
(***************************************************************************)
(* For any number of volumes, pages, mokuro attempts and failures: each    *)
(* volume is left with its PDF, its page images or its EPUB; mokuro never  *)
(* meets a page that is gone; and what Convert notes as built, and what it *)
(* reports as a success, is built from the ".mokuro" files as they are.    *)
(***************************************************************************)
EXTENDS VolumePipeline, TLAPS

FilesType ==
    /\ pdf \in [Vols -> {"none", "text", "scan"}]
    /\ images \in [Vols -> SUBSET Pages]
    /\ cache \in [Vols -> (SUBSET Pages) \cup {NoDir}]
    /\ mokuro \in [Vols -> Mokuro]
    /\ epub \in [Vols -> Epub]
    /\ clock \in Time

ConvType ==
    /\ conv \in Conv
    /\ conv.pc \in {"raster", "parse", "create", "close", "rmdir"} => conv.vol \in Vols

ChildType ==
    /\ child \in Child
    /\ child.pc \in {"ocr", "write", "fill"} => child.vol \in Vols

RestType ==
    /\ built \in [Vols -> Time] /\ leftover \in [Vols -> Time]
    /\ changed \in BOOLEAN
    /\ faults \in 0..MaxFaults /\ changes \in 0..MaxChanges

TypeInv == FilesType /\ ConvType /\ ChildType /\ RestType

-----------------------------------------------------------------------------
(* Types.                                                                  *)

\* What is set to begin with has its type.
LEMMA StartTypes ==
    /\ Idle \in Conv /\ NoChild \in Child /\ NoMokuro \in Mokuro
    /\ Idle.pc = "idle" /\ NoChild.pc = "off" /\ NoMokuro.mtime = 0
<1>1. 0 \in Time /\ 0 \in 0..Retries
  BY PipelineAssumption DEF Time
<1> QED BY <1>1 DEF Idle, Conv, NoChild, Child, NoMokuro, Mokuro

\* Convert goes on to the next ".mokuro" file.
LEMMA NextFileType ==
    ASSUME TypeInv
    PROVE  /\ NextFile \in Conv /\ NextFile.pc = "pass"
           /\ NextFile.text = conv.text /\ NextFile.last = conv.last
<1>1. 0 \in Time /\ conv \in Conv
  BY PipelineAssumption DEF TypeInv, ConvType, Time
<1> QED BY <1>1 DEF NextFile, Conv

\* mokuro starts once more, or has failed.
LEMMA RetryType ==
    ASSUME TypeInv, Retry
    PROVE  child' \in Child /\ child'.pc \in {"next", "failed"}
<1>1. child.attempt \in 0..Retries /\ 0 \in 0..Retries /\ NoChild \in Child
  BY PipelineAssumption, StartTypes DEF TypeInv, ChildType, Child
<1>2. CASE child.attempt < Retries
  <2>1. child.attempt + 1 \in 0..Retries
    BY <1>1, <1>2, PipelineAssumption
  <2>2. child' = [NoChild EXCEPT !.pc = "next", !.attempt = child.attempt + 1]
    BY <1>2 DEF Retry
  <2> QED BY <1>1, <2>1, <2>2 DEF Child
<1>3. CASE ~(child.attempt < Retries)
  <2>1. child' = [NoChild EXCEPT !.pc = "failed"]
    BY <1>3 DEF Retry
  <2> QED BY <1>1, <2>1 DEF Child
<1> QED BY <1>2, <1>3

\* An EPUB was not built: the count of failures, or the end of Convert.
LEMMA BuildErrorType ==
    ASSUME TypeInv, BuildError
    PROVE  ConvType'
<1>1. conv \in Conv /\ NextFile \in Conv
  BY NextFileType DEF TypeInv, ConvType
<1>2. CASE conv.text
  BY <1>1, <1>2 DEF BuildError, ConvType, Conv
<1>3. CASE ~conv.text
  <2>1. conv' = [NextFile EXCEPT !.fail = TRUE]
    BY <1>3 DEF BuildError
  <2> QED BY <1>1, <2>1, NextFileType DEF ConvType, Conv
<1> QED BY <1>2, <1>3

\* An EPUB was built.
LEMMA BuildSucceedsType ==
    ASSUME TypeInv, NEW state \in {"torn", "whole"}, BuildSucceeds(state)
    PROVE  FilesType' /\ ConvType'
<1>1. epub \in [Vols -> Epub] /\ conv \in Conv /\ conv.vol \in Vols
  BY DEF TypeInv, FilesType, ConvType, BuildSucceeds
<1>2. [epub[conv.vol] EXCEPT !.state = state] \in Epub
  BY <1>1 DEF Epub
<1>3. epub' \in [Vols -> Epub]
  BY <1>1, <1>2 DEF BuildSucceeds
<1>4. FilesType'
  BY <1>3 DEF TypeInv, FilesType, BuildSucceeds
<1>5. ConvType'
  <2>1. CASE conv.text
    BY <1>1, <2>1 DEF BuildSucceeds, ConvType, Conv
  <2>2. CASE ~conv.text
    BY <2>2, NextFileType DEF BuildSucceeds, ConvType
  <2> QED BY <2>1, <2>2
<1> QED BY <1>4, <1>5

\* A reconciled ".mokuro" file has lost pages, or is the one there was.
LEMMA KeepPagesType ==
    ASSUME TypeInv, NEW v \in Vols, NEW ps
    PROVE  /\ KeepPages(mokuro[v], ps) = mokuro[v] \/ KeepPages(mokuro[v], ps).mtime = clock + 1
           /\ KeepPages(mokuro[v], ps).pages = mokuro[v].pages \cap ps
           /\ KeepPages(mokuro[v], ps).whole = mokuro[v].whole
           /\ clock + 1 \in Time => KeepPages(mokuro[v], ps) \in Mokuro
<1>1. mokuro[v] \in Mokuro
  BY DEF TypeInv, FilesType
<1>2. CASE mokuro[v].pages \subseteq ps
  BY <1>1, <1>2 DEF KeepPages
<1>3. CASE ~(mokuro[v].pages \subseteq ps)
  <2>1. KeepPages(mokuro[v], ps) =
            [mokuro[v] EXCEPT !.mtime = clock + 1, !.pages = mokuro[v].pages \cap ps]
    BY <1>3 DEF KeepPages
  <2>2. mokuro[v].pages \cap ps \in SUBSET Pages
    BY <1>1 DEF Mokuro
  <2> QED BY <1>1, <2>1, <2>2 DEF Mokuro
<1> QED BY <1>2, <1>3

\* What a reconciliation, whole or failing, leaves of each volume: fewer entries in
\* its cache, and its ".mokuro" file as it was, or written anew with fewer pages.
Reconciled ==
    /\ \A v \in Vols :
          /\ ~HasCache(v) => cache'[v] = cache[v] /\ mokuro'[v] = mokuro[v]
          /\ HasCache(v) => cache'[v] \in SUBSET cache[v]
          /\ \/ mokuro'[v] = mokuro[v]
             \/ mokuro'[v] \in Mokuro /\ mokuro'[v].mtime = clock + 1 /\ clock' = clock + 1
          /\ mokuro'[v].pages \subseteq mokuro[v].pages
    /\ cache' \in [Vols -> (SUBSET Pages) \cup {NoDir}]
    /\ mokuro' \in [Vols -> Mokuro]
    /\ clock' \in {clock, clock + 1} /\ clock' \in Time

\* A ".mokuro" file that is written now.
NewFile == [mtime: {clock + 1}, pages: SUBSET Pages, whole: BOOLEAN]

LEMMA RewrittenType ==
    ASSUME TypeInv, NEW X, NEW ms \in [Vols -> X], Rewritten(ms),
           \A v \in Vols : ms[v] = mokuro[v] \/ ms[v] \in NewFile
    PROVE  /\ clock' \in {clock, clock + 1} /\ clock' \in Time
           /\ mokuro' \in [Vols -> Mokuro]
           /\ \A v \in Vols :
                 \/ mokuro'[v] = mokuro[v]
                 \/ mokuro'[v] \in Mokuro /\ mokuro'[v].mtime = clock + 1 /\ clock' = clock + 1
<1>1. /\ mokuro \in [Vols -> Mokuro] /\ clock \in Nat /\ MaxClock \in Nat
      /\ mokuro' = ms /\ clock' <= MaxClock
      /\ clock' = IF ms = mokuro THEN clock ELSE clock + 1
  BY PipelineAssumption DEF TypeInv, FilesType, Rewritten, Time
<1>2. clock' \in {clock, clock + 1} /\ clock' \in Time
  BY <1>1 DEF Time
<1>3. CASE ms = mokuro
  BY <1>1, <1>2, <1>3
<1>4. CASE ms # mokuro
  <2>1. clock' = clock + 1 /\ clock + 1 \in Time
    BY <1>1, <1>2, <1>4
  <2>2. ASSUME NEW v \in Vols
        PROVE  ms[v] \in Mokuro /\ (ms[v] = mokuro[v] \/ ms[v].mtime = clock + 1)
    BY <1>1, <2>1 DEF NewFile, Mokuro
  <2> QED BY <1>1, <1>2, <2>1, <2>2
<1> QED BY <1>3, <1>4

LEMMA ReconcileLeaves ==
    ASSUME TypeInv, ReconcileOCRCache \/ (ReconcileFails /\ ~UNCHANGED <<cache, mokuro, clock>>)
    PROVE  Reconciled
<1>1. /\ cache \in [Vols -> (SUBSET Pages) \cup {NoDir}] /\ mokuro \in [Vols -> Mokuro]
      /\ images \in [Vols -> SUBSET Pages]
  BY DEF TypeInv, FilesType
<1> DEFINE OldOrNew == {mokuro[v] : v \in Vols} \cup NewFile
<1>2. ASSUME NEW v \in Vols, NEW ps
      PROVE  LET m == KeepPages(mokuro[v], ps)
             IN  /\ m = mokuro[v] \/ m \in NewFile
                 /\ m.pages \subseteq mokuro[v].pages
  <2>1. mokuro[v] \in Mokuro
    BY <1>1
  <2>2. CASE mokuro[v].pages \subseteq ps
    BY <2>2 DEF KeepPages
  <2>3. CASE ~(mokuro[v].pages \subseteq ps)
    <3>1. KeepPages(mokuro[v], ps) =
              [mokuro[v] EXCEPT !.mtime = clock + 1, !.pages = mokuro[v].pages \cap ps]
      BY <2>3 DEF KeepPages
    <3>2. mokuro[v].pages \cap ps \in SUBSET Pages
      BY <2>1 DEF Mokuro
    <3> QED BY <2>1, <3>1, <3>2 DEF Mokuro, NewFile
  <2> QED BY <2>2, <2>3
<1>3. ASSUME NEW v \in Vols
      PROVE  /\ CleanedMokuro[v] \in OldOrNew
             /\ CleanedMokuro[v] = mokuro[v] \/ CleanedMokuro[v] \in NewFile
             /\ CleanedMokuro[v].pages \subseteq mokuro[v].pages
             /\ ~HasCache(v) => CleanedMokuro[v] = mokuro[v]
             /\ ~HasCache(v) => CleanedCache[v] = cache[v]
             /\ HasCache(v) => CleanedCache[v] \in SUBSET cache[v]
             /\ CleanedCache[v] \in (SUBSET Pages) \cup {NoDir}
  <2>1. CASE HasCache(v)
    <3>1. CleanedMokuro[v] = KeepPages(mokuro[v], images[v])
      BY <2>1 DEF CleanedMokuro
    <3>2. CleanedCache[v] = cache[v] \cap images[v] /\ cache[v] \in SUBSET Pages
      BY <1>1, <2>1 DEF CleanedCache, HasCache
    <3> QED BY <2>1, <3>1, <3>2, <1>2
  <2>2. CASE ~HasCache(v)
    <3>1. CleanedMokuro[v] = mokuro[v] /\ CleanedCache[v] = cache[v]
      BY <2>2 DEF CleanedMokuro, CleanedCache
    <3> QED BY <1>1, <2>2, <3>1
  <2> QED BY <2>1, <2>2
<1>4. CASE ReconcileOCRCache
  <2>1. cache' = CleanedCache /\ Rewritten(CleanedMokuro) /\ mokuro' = CleanedMokuro
    BY <1>4 DEF ReconcileOCRCache, Rewritten
  <2>2. CleanedMokuro \in [Vols -> OldOrNew]
    BY <1>3 DEF CleanedMokuro
  <2>3. CleanedCache \in [Vols -> (SUBSET Pages) \cup {NoDir}]
    BY <1>3 DEF CleanedCache
  <2> HIDE DEF OldOrNew
  <2> QED BY <2>1, <2>2, <2>3, <1>3, RewrittenType DEF Reconciled
<1>5. CASE ReconcileFails /\ ~UNCHANGED <<cache, mokuro, clock>>
  <2>0. PICK v \in Vols :
           /\ HasCache(v)
           /\ \E ps \in SUBSET images[v], es \in SUBSET cache[v] :
                LET kept == KeepPages(mokuro[v], ps)
                    torn == [mtime |-> kept.mtime, pages |-> {}, whole |-> FALSE]
                IN  /\ cache' = [CleanedCache EXCEPT ![v] = es]
                    /\ \E m \in {mokuro[v], kept} \cup {f \in {torn} : kept # mokuro[v]} :
                           Rewritten([CleanedMokuro EXCEPT ![v] = m])
    BY <1>5 DEF ReconcileFails
  <2>a. PICK ps \in SUBSET images[v], es \in SUBSET cache[v] :
           LET kept == KeepPages(mokuro[v], ps)
               torn == [mtime |-> kept.mtime, pages |-> {}, whole |-> FALSE]
           IN  /\ cache' = [CleanedCache EXCEPT ![v] = es]
               /\ \E m \in {mokuro[v], kept} \cup {f \in {torn} : kept # mokuro[v]} :
                      Rewritten([CleanedMokuro EXCEPT ![v] = m])
    BY <2>0
  <2>1. PICK m :
           /\ cache' = [CleanedCache EXCEPT ![v] = es]
           /\ LET kept == KeepPages(mokuro[v], ps)
                  torn == [mtime |-> kept.mtime, pages |-> {}, whole |-> FALSE]
              IN  m \in {mokuro[v], kept} \cup {f \in {torn} : kept # mokuro[v]}
           /\ Rewritten([CleanedMokuro EXCEPT ![v] = m])
    BY <2>a
  <2> DEFINE ms == [CleanedMokuro EXCEPT ![v] = m]
  <2>2. (m = mokuro[v] \/ m \in NewFile) /\ m.pages \subseteq mokuro[v].pages
    <3>1. CASE m \in {mokuro[v], KeepPages(mokuro[v], ps)}
      BY <3>1, <1>2
    <3>2. CASE /\ m = [mtime |-> KeepPages(mokuro[v], ps).mtime, pages |-> {}, whole |-> FALSE]
               /\ KeepPages(mokuro[v], ps) # mokuro[v]
      <4>1. KeepPages(mokuro[v], ps) \in NewFile
        BY <3>2, <1>2
      <4> QED BY <3>2, <4>1 DEF NewFile
    <3> QED BY <2>1, <3>1, <3>2
  <2>3. m \in OldOrNew
    BY <2>2
  <2>4. \A w \in Vols : ms[w] = IF w = v THEN m ELSE CleanedMokuro[w]
    BY DEF CleanedMokuro
  <2>5. ms \in [Vols -> OldOrNew]
    <3>1. CleanedMokuro \in [Vols -> OldOrNew]
      BY <1>3 DEF CleanedMokuro
    <3> QED BY <2>3, <3>1
  <2>6. \A w \in Vols : cache'[w] = IF w = v THEN es ELSE CleanedCache[w]
    BY <2>1 DEF CleanedCache
  <2>7. cache' \in [Vols -> (SUBSET Pages) \cup {NoDir}]
    <3>1. CleanedCache \in [Vols -> (SUBSET Pages) \cup {NoDir}]
      BY <1>3 DEF CleanedCache
    <3>2. es \in SUBSET Pages
      BY <1>1, <2>0 DEF HasCache
    <3> QED BY <2>1, <3>1, <3>2
  <2>8. mokuro' = ms /\ Rewritten(ms)
    BY <2>1 DEF Rewritten
  <2>9. \A w \in Vols : ms[w] = mokuro[w] \/ ms[w] \in NewFile
    BY <1>3, <2>2, <2>4
  <2>10. \A w \in Vols : ms[w].pages \subseteq mokuro[w].pages
    BY <1>3, <2>2, <2>4
  <2> HIDE DEF ms, OldOrNew
  <2>11. /\ clock' \in {clock, clock + 1} /\ clock' \in Time
         /\ mokuro' \in [Vols -> Mokuro]
         /\ \A w \in Vols :
               \/ mokuro'[w] = mokuro[w]
               \/ mokuro'[w] \in Mokuro /\ mokuro'[w].mtime = clock + 1 /\ clock' = clock + 1
    BY <2>5, <2>8, <2>9, RewrittenType
  <2>12. \A w \in Vols : ~HasCache(w) => cache'[w] = cache[w] /\ mokuro'[w] = mokuro[w]
    BY <1>3, <2>0, <2>4, <2>6, <2>8
  <2>13. \A w \in Vols : HasCache(w) => cache'[w] \in SUBSET cache[w]
    BY <1>3, <2>0, <2>6
  <2> QED BY <2>7, <2>8, <2>10, <2>11, <2>12, <2>13 DEF Reconciled
<1> QED BY <1>4, <1>5

\* Every step keeps the types.
LEMMA TypeStep == TypeInv /\ [Next]_vars => TypeInv'
<1>1. ASSUME TypeInv, NEW noCache \in BOOLEAN, NEW only \in Vols \cup {All},
              StartConvert(noCache, only)
      PROVE  TypeInv'
  <2>1. ConvType'
    BY <1>1, StartTypes DEF StartConvert, ConvType, Conv
  <2>2. FilesType' /\ ChildType' /\ RestType'
    BY <1>1 DEF TypeInv, FilesType, ChildType, RestType, StartConvert, files, bounds
  <2> QED BY <2>1, <2>2 DEF TypeInv
<1>2. ASSUME TypeInv, NEW v \in Vols, Rasterize(v)
      PROVE  TypeInv'
  <2>1. FilesType'
    BY <1>2 DEF TypeInv, FilesType, Rasterize
  <2>2. ConvType'
    BY <1>2 DEF TypeInv, ConvType, Rasterize, Conv
  <2>3. ChildType' /\ RestType'
    BY <1>2 DEF TypeInv, ChildType, RestType, Rasterize, bounds
  <2> QED BY <2>1, <2>2, <2>3 DEF TypeInv
<1>3. ASSUME TypeInv, NEW v \in Vols, StatFile(v)
      PROVE  TypeInv'
  <2>1. ConvType'
    <3>1. conv \in Conv /\ mokuro[v].mtime \in Time
      BY <1>3 DEF TypeInv, ConvType, FilesType, Mokuro
    <3>2. CASE ~Exists(v) \/ built[v] = mokuro[v].mtime
      BY <1>3, <3>1, <3>2 DEF StatFile, ConvType, Conv
    <3>3. CASE ~(~Exists(v) \/ built[v] = mokuro[v].mtime)
      BY <1>3, <3>1, <3>3 DEF StatFile, ConvType, Conv
    <3> QED BY <1>3, <3>2, <3>3
  <2>2. FilesType' /\ ChildType' /\ RestType'
    BY <1>3 DEF TypeInv, FilesType, ChildType, RestType, StatFile, files, bounds
  <2> QED BY <2>1, <2>2 DEF TypeInv
<1>4. ASSUME TypeInv, RemoveScanPDF
      PROVE  TypeInv'
  <2>1. FilesType'
    BY <1>4 DEF TypeInv, FilesType, RemoveScanPDF
  <2>2. ConvType'
    BY <1>4 DEF TypeInv, ConvType, RemoveScanPDF, Conv
  <2>3. ChildType' /\ RestType'
    BY <1>4 DEF TypeInv, ChildType, RestType, RemoveScanPDF, bounds
  <2> QED BY <2>1, <2>2, <2>3 DEF TypeInv
<1>5. ASSUME TypeInv, RemoveTextPDF
      PROVE  TypeInv'
  <2>1. ConvType'
    <3>1. conv \in Conv /\ 0 \in Time /\ conv.vol \in Vols
      BY <1>5, PipelineAssumption DEF TypeInv, ConvType, RemoveTextPDF, Time
    <3>2. conv' = [conv EXCEPT !.pc = "create", !.text = TRUE, !.of = 0, !.pages = Pages]
      BY <1>5 DEF RemoveTextPDF
    <3>3. conv' \in Conv
      BY <1>5, <3>1, <3>2 DEF Conv
    <3>4. conv'.vol = conv.vol
      BY <1>5, <3>1, <3>2 DEF Conv
    <3> QED BY <1>5, <3>1, <3>3, <3>4 DEF ConvType
  <2>2. FilesType'
    BY <1>5 DEF TypeInv, FilesType, RemoveTextPDF
  <2>3. ChildType' /\ RestType'
    BY <1>5 DEF TypeInv, ChildType, RestType, RemoveTextPDF, bounds
  <2> QED BY <2>1, <2>2, <2>3 DEF TypeInv
<1>6. ASSUME TypeInv, PageCountMismatch
      PROVE  TypeInv'
  <2>1. ConvType'
    BY <1>6 DEF TypeInv, ConvType, PageCountMismatch, Conv
  <2>2. FilesType' /\ ChildType' /\ RestType'
    BY <1>6 DEF TypeInv, FilesType, ChildType, RestType, PageCountMismatch, files,
        bounds
  <2> QED BY <2>1, <2>2 DEF TypeInv
<1>7. ASSUME TypeInv, RemoveFolder
      PROVE  TypeInv'
  <2>1. FilesType'
    BY <1>7 DEF TypeInv, FilesType, RemoveFolder
  <2>2. ConvType'
    BY <1>7 DEF TypeInv, ConvType, RemoveFolder, Conv
  <2>3. ChildType' /\ RestType'
    BY <1>7 DEF TypeInv, ChildType, RestType, RemoveFolder, bounds
  <2> QED BY <2>1, <2>2, <2>3 DEF TypeInv
<1>8. ASSUME TypeInv, CheckInput
      PROVE  TypeInv'
  <2>1. ConvType'
    BY <1>8 DEF TypeInv, ConvType, ChildType, CheckInput, files, bounds, Conv
  <2>2. FilesType' /\ ChildType' /\ RestType'
    BY <1>8 DEF TypeInv, FilesType, ChildType, RestType, CheckInput, files, bounds
  <2> QED BY <2>1, <2>2 DEF TypeInv
<1>9. ASSUME TypeInv, ReconcileOCRCache
      PROVE  TypeInv'
  <2>1. FilesType'
    BY <1>9, ReconcileLeaves DEF TypeInv, FilesType, ReconcileOCRCache, Reconciled
  <2>2. ConvType'
    BY <1>9 DEF TypeInv, ConvType, ReconcileOCRCache, Conv
  <2>3. RestType'
    BY <1>9 DEF TypeInv, RestType, ReconcileOCRCache, bounds
  <2>4. ChildType'
    BY <1>9 DEF TypeInv, ChildType, ReconcileOCRCache
  <2> QED BY <2>1, <2>2, <2>3, <2>4 DEF TypeInv
<1>10. ASSUME TypeInv, Snapshot
      PROVE  TypeInv'
  <2>1. RestType'
    <3>1. MTimes \in [Vols -> Time]
      BY <1>10 DEF TypeInv, FilesType, MTimes, Mokuro
    <3> QED BY <1>10, <3>1 DEF TypeInv, RestType, Snapshot, bounds
  <2>2. ConvType'
    BY <1>10 DEF TypeInv, ConvType, Snapshot, Conv
  <2>3. ChildType'
    BY <1>10, PipelineAssumption DEF ChildType, Snapshot, NoChild, Child
  <2>4. FilesType'
    BY <1>10 DEF TypeInv, FilesType, Snapshot, files
  <2> QED BY <2>1, <2>2, <2>3, <2>4 DEF TypeInv
<1>11. ASSUME TypeInv, Tick
      PROVE  TypeInv'
  <2>1. ConvType'
    BY <1>11 DEF TypeInv, ConvType, Tick, Files, Conv
  <2>2. FilesType' /\ ChildType' /\ RestType'
    BY <1>11 DEF TypeInv, FilesType, ChildType, RestType, Tick, files, bounds
  <2> QED BY <2>1, <2>2 DEF TypeInv
<1>12. ASSUME TypeInv, MokuroDone
      PROVE  TypeInv'
  <2>1. ConvType'
    BY <1>12, PipelineAssumption DEF TypeInv, FilesType, ConvType, ChildType,
        RestType, MokuroDone, Files, NoChild, files, bounds, Conv
  <2>2. ChildType'
    BY <1>12, PipelineAssumption DEF ChildType, MokuroDone, NoChild, Child
  <2>3. FilesType' /\ RestType'
    BY <1>12 DEF TypeInv, FilesType, RestType, MokuroDone, files, bounds
  <2> QED BY <2>1, <2>2, <2>3 DEF TypeInv
<1>13. ASSUME TypeInv, ParseMokuroFile
      PROVE  TypeInv'
  <2>1. ConvType' /\ RestType'
    <3>1. conv \in Conv /\ conv.vol \in Vols /\ mokuro[conv.vol] \in Mokuro
      BY <1>13 DEF TypeInv, ConvType, FilesType, ParseMokuroFile
    <3>2. CASE Parses(conv.vol)
      <4>1. /\ built' = [built EXCEPT ![conv.vol] = conv.mtime]
            /\ conv' = [conv EXCEPT !.pc = "create", !.of = mokuro[conv.vol].mtime,
                                    !.pages = mokuro[conv.vol].pages]
        BY <1>13, <3>2 DEF ParseMokuroFile
      <4>2. mokuro[conv.vol].mtime \in Time /\ mokuro[conv.vol].pages \in SUBSET Pages
        BY <1>13, <3>1 DEF Mokuro
      <4>3. conv.mtime \in Time
        BY <1>13, <3>1 DEF Conv
      <4> QED BY <1>13, <3>1, <4>1, <4>2, <4>3 DEF TypeInv, ConvType, RestType, Conv,
          ParseMokuroFile, bounds
    <3>3. CASE ~Parses(conv.vol)
      BY <1>13, <3>1, <3>3, NextFileType DEF TypeInv, ConvType, RestType,
          ParseMokuroFile, bounds
    <3> QED BY <1>13, <3>2, <3>3
  <2>2. FilesType' /\ ChildType'
    BY <1>13 DEF TypeInv, FilesType, ChildType, ParseMokuroFile, files
  <2> QED BY <2>1, <2>2 DEF TypeInv
<1>14. ASSUME TypeInv, CreateEpub
      PROVE  TypeInv'
  <2>1. FilesType'
    <3>1. [state |-> "partial", of |-> conv.of] \in Epub
      BY <1>14 DEF TypeInv, ConvType, Conv, Epub
    <3> QED BY <1>14, <3>1 DEF TypeInv, FilesType, CreateEpub
  <2>2. ConvType'
    BY <1>14 DEF TypeInv, ConvType, CreateEpub, Conv
  <2>3. ChildType' /\ RestType'
    BY <1>14 DEF TypeInv, ChildType, RestType, CreateEpub, bounds
  <2> QED BY <2>1, <2>2, <2>3 DEF TypeInv
<1>15. ASSUME TypeInv, WriteEpub
      PROVE  TypeInv'
  <2>1. FilesType' /\ ConvType'
    BY <1>15, BuildSucceedsType DEF WriteEpub
  <2>2. ChildType' /\ RestType'
    BY <1>15 DEF TypeInv, ChildType, RestType, WriteEpub, BuildSucceeds, bounds
  <2> QED BY <2>1, <2>2 DEF TypeInv
<1>16. ASSUME TypeInv, PageMissing
      PROVE  TypeInv'
  <2>1. ConvType'
    BY <1>16, BuildErrorType DEF PageMissing
  <2>2. FilesType' /\ ChildType' /\ RestType'
    BY <1>16 DEF TypeInv, FilesType, ChildType, RestType, PageMissing, BuildError,
        files, bounds
  <2> QED BY <2>1, <2>2 DEF TypeInv
<1>17. ASSUME TypeInv, EndPass
      PROVE  TypeInv'
  <2>1. ConvType'
    BY <1>17 DEF TypeInv, ConvType, EndPass, Conv
  <2>2. FilesType' /\ ChildType' /\ RestType'
    BY <1>17 DEF TypeInv, FilesType, ChildType, RestType, EndPass, files, bounds
  <2> QED BY <2>1, <2>2 DEF TypeInv
<1>18. ASSUME TypeInv, Return
      PROVE  TypeInv'
  <2>1. ConvType'
    BY <1>18, StartTypes DEF Return, Forgotten, ConvType
  <2>2. ChildType'
    BY <1>18, PipelineAssumption DEF ChildType, Return, Forgotten, NoChild, Child
  <2>3. RestType'
    BY <1>18, PipelineAssumption DEF TypeInv, RestType, Return, Forgotten, bounds, Time
  <2>4. FilesType'
    BY <1>18 DEF TypeInv, FilesType, Return, Forgotten, files
  <2> QED BY <2>1, <2>2, <2>3, <2>4 DEF TypeInv
<1>19. ASSUME TypeInv, ClearCache
      PROVE  TypeInv'
  <2>1. FilesType'
    BY <1>19, StartTypes DEF TypeInv, FilesType, ClearCache
  <2>2. ChildType'
    <3>1. 1 \in 0..Retries /\ child \in Child
      BY <1>19, PipelineAssumption DEF TypeInv, ChildType
    <3> QED BY <1>19, <3>1 DEF ClearCache, ChildType, Child
  <2>3. ConvType' /\ RestType'
    BY <1>19 DEF TypeInv, ConvType, RestType, ClearCache, bounds
  <2> QED BY <2>1, <2>2, <2>3 DEF TypeInv
<1>20. ASSUME TypeInv, RecognizePages
      PROVE  TypeInv'
  <2>1. FilesType'
    BY <1>20 DEF TypeInv, FilesType, RecognizePages, Entries
  <2>2. ChildType'
    BY <1>20 DEF TypeInv, ChildType, RecognizePages, Child
  <2>3. ConvType' /\ RestType'
    BY <1>20 DEF TypeInv, ConvType, RestType, RecognizePages, bounds
  <2> QED BY <2>1, <2>2, <2>3 DEF TypeInv
<1>21. ASSUME TypeInv, OpenMokuroFile
      PROVE  TypeInv'
  <2>1. FilesType'
    BY <1>21, PipelineAssumption DEF TypeInv, FilesType, ChildType, OpenMokuroFile,
        Time, Mokuro
  <2>2. ChildType'
    BY <1>21 DEF TypeInv, ChildType, OpenMokuroFile, Child
  <2>3. ConvType' /\ RestType'
    BY <1>21 DEF TypeInv, ConvType, RestType, OpenMokuroFile, bounds
  <2> QED BY <2>1, <2>2, <2>3 DEF TypeInv
<1>22. ASSUME TypeInv, FillMokuroFile
      PROVE  TypeInv'
  <2>1. FilesType'
    BY <1>22, PipelineAssumption DEF TypeInv, FilesType, ChildType, FillMokuroFile,
        Entries, Time, Mokuro
  <2>2. ChildType'
    BY <1>22 DEF TypeInv, ChildType, FillMokuroFile, Child
  <2>3. ConvType' /\ RestType'
    BY <1>22 DEF TypeInv, ConvType, RestType, FillMokuroFile, bounds
  <2> QED BY <2>1, <2>2, <2>3 DEF TypeInv
<1>23. ASSUME TypeInv, MokuroEnds
      PROVE  TypeInv'
  <2>1. ChildType'
    BY <1>23 DEF TypeInv, ChildType, MokuroEnds, Child
  <2>2. FilesType' /\ ConvType' /\ RestType'
    BY <1>23 DEF TypeInv, FilesType, ConvType, RestType, MokuroEnds, files, bounds
  <2> QED BY <2>1, <2>2 DEF TypeInv
<1>24. ASSUME TypeInv, PhantomPage
      PROVE  TypeInv'
  <2>1. ChildType'
    <3>1. CASE Retry
      BY <1>24, <3>1, RetryType DEF ChildType
    <3>2. CASE child' = [child EXCEPT !.pc = "next", !.vol = All,
                                       !.done = @ \cup {child.vol}]
      BY <1>24, <3>2 DEF TypeInv, ChildType, Child, PhantomPage
    <3> QED BY <1>24, <3>1, <3>2 DEF PhantomPage
  <2>2. FilesType' /\ ConvType' /\ RestType'
    BY <1>24 DEF TypeInv, FilesType, ConvType, RestType, PhantomPage, Retry, files,
        bounds
  <2> QED BY <2>1, <2>2 DEF TypeInv
<1>25. ASSUME TypeInv, NEW v \in Vols, SkipVolume(v)
      PROVE  TypeInv'
  <2>1. ChildType'
    BY <1>25 DEF TypeInv, ChildType, SkipVolume, Child
  <2>2. FilesType' /\ ConvType' /\ RestType'
    BY <1>25 DEF TypeInv, FilesType, ConvType, RestType, SkipVolume, files, bounds
  <2> QED BY <2>1, <2>2 DEF TypeInv
<1>26. ASSUME TypeInv, NEW v \in Vols, ProcessVolume(v)
      PROVE  TypeInv'
  <2>1. FilesType'
    BY <1>26 DEF TypeInv, FilesType, ProcessVolume, Entries, Mokuro
  <2>2. ChildType'
    BY <1>26 DEF TypeInv, ChildType, ProcessVolume, Child
  <2>3. ConvType' /\ RestType'
    BY <1>26 DEF TypeInv, ConvType, RestType, ProcessVolume, bounds
  <2> QED BY <2>1, <2>2, <2>3 DEF TypeInv
<1>27. ASSUME TypeInv, Fails
      PROVE  TypeInv'
  <2>1. ConvType'
    BY <1>27 DEF TypeInv, ConvType, Fails, Conv
  <2>2. RestType'
    BY <1>27, PipelineAssumption DEF TypeInv, RestType, Fails, Fault
  <2>3. FilesType' /\ ChildType'
    BY <1>27 DEF TypeInv, FilesType, ChildType, Fails, files
  <2> QED BY <2>1, <2>2, <2>3 DEF TypeInv
<1>28. ASSUME TypeInv, MokuroFails
      PROVE  TypeInv'
  <2>1. ChildType'
    BY <1>28, RetryType DEF MokuroFails, ChildType
  <2>2. RestType'
    BY <1>28, PipelineAssumption DEF TypeInv, RestType, MokuroFails, Fault, Retry
  <2>3. FilesType' /\ ConvType'
    BY <1>28 DEF TypeInv, FilesType, ConvType, MokuroFails, Retry, files
  <2> QED BY <2>1, <2>2, <2>3 DEF TypeInv
<1>29. ASSUME TypeInv, Cancel
      PROVE  TypeInv'
  <2>1. ConvType' /\ ChildType'
    <3>1. CASE /\ conv.pc = "gpu" /\ conv' = [conv EXCEPT !.pc = "return", !.err = TRUE]
               /\ UNCHANGED child
      BY <1>29, <3>1 DEF TypeInv, ConvType, ChildType, Conv
    <3>2. CASE child' = [NoChild EXCEPT !.pc = "failed"] /\ UNCHANGED conv
      BY <1>29, <3>2, StartTypes DEF TypeInv, ConvType, ChildType, Child
    <3> QED BY <1>29, <3>1, <3>2 DEF Cancel
  <2>2. RestType'
    BY <1>29, PipelineAssumption DEF TypeInv, RestType, Cancel, Fault
  <2>3. FilesType'
    BY <1>29 DEF TypeInv, FilesType, Cancel, files
  <2> QED BY <2>1, <2>2, <2>3 DEF TypeInv
<1>30. ASSUME TypeInv, CloseFails
      PROVE  TypeInv'
  <2>1. FilesType' /\ ConvType'
    BY <1>30, BuildSucceedsType DEF CloseFails
  <2>2. RestType'
    BY <1>30, PipelineAssumption DEF TypeInv, RestType, CloseFails, BuildSucceeds, Fault
  <2>3. ChildType'
    BY <1>30 DEF TypeInv, ChildType, CloseFails, BuildSucceeds
  <2> QED BY <2>1, <2>2, <2>3 DEF TypeInv
<1>31. ASSUME TypeInv, BuildFails
      PROVE  TypeInv'
  <2>1. ConvType'
    BY <1>31, BuildErrorType DEF BuildFails
  <2>2. RestType'
    BY <1>31, PipelineAssumption DEF TypeInv, RestType, BuildFails, BuildError, Fault
  <2>3. FilesType' /\ ChildType'
    BY <1>31 DEF TypeInv, FilesType, ChildType, BuildFails, BuildError, files
  <2> QED BY <2>1, <2>2, <2>3 DEF TypeInv
<1>32. ASSUME TypeInv, Crash
      PROVE  TypeInv'
  <2>1. ConvType'
    BY <1>32, StartTypes DEF Crash, Forgotten, ConvType
  <2>2. ChildType'
    BY <1>32, PipelineAssumption DEF ChildType, Crash, Forgotten, NoChild, Child
  <2>3. RestType'
    BY <1>32, PipelineAssumption DEF TypeInv, RestType, Crash, Fault, Forgotten, Time
  <2>4. FilesType'
    BY <1>32 DEF TypeInv, FilesType, Crash, Forgotten, files
  <2> QED BY <2>1, <2>2, <2>3, <2>4 DEF TypeInv
<1>33. ASSUME TypeInv, NEW v \in Vols, NEW S \in SUBSET Pages, ChangePages(v, S)
      PROVE  TypeInv'
  <2>1. FilesType'
    BY <1>33 DEF TypeInv, FilesType, ChangePages
  <2>2. RestType'
    BY <1>33, PipelineAssumption DEF TypeInv, RestType, ChangePages
  <2>3. ConvType' /\ ChildType'
    BY <1>33 DEF TypeInv, ConvType, ChildType, ChangePages
  <2> QED BY <2>1, <2>2, <2>3 DEF TypeInv
<1>35. ASSUME TypeInv, ReconcileFails
      PROVE  TypeInv'
  <2>1. FilesType'
    <3>1. CASE UNCHANGED <<cache, mokuro, clock>>
      BY <1>35, <3>1 DEF TypeInv, FilesType, ReconcileFails
    <3>2. CASE ~UNCHANGED <<cache, mokuro, clock>>
      BY <1>35, <3>2, ReconcileLeaves DEF TypeInv, FilesType, ReconcileFails, Reconciled
    <3> QED BY <3>1, <3>2
  <2>2. ConvType'
    BY <1>35 DEF TypeInv, ConvType, ReconcileFails, Conv
  <2>3. RestType'
    BY <1>35, PipelineAssumption DEF TypeInv, RestType, ReconcileFails, Fault
  <2>4. ChildType'
    BY <1>35 DEF TypeInv, ChildType, ReconcileFails
  <2> QED BY <2>1, <2>2, <2>3, <2>4 DEF TypeInv
<1>36. ASSUME TypeInv, ClearCacheFails
      PROVE  TypeInv'
  <2>1. FilesType'
    <3>1. mokuro' \in [Vols -> Mokuro]
      BY <1>36, StartTypes DEF TypeInv, FilesType, ClearCacheFails
    <3>2. cache' \in [Vols -> (SUBSET Pages) \cup {NoDir}]
      BY <1>36 DEF TypeInv, FilesType, ClearCacheFails
    <3> QED BY <1>36, <3>1, <3>2 DEF TypeInv, FilesType, ClearCacheFails
  <2>2. ChildType'
    <3>1. 1 \in 0..Retries /\ child \in Child
      BY <1>36, PipelineAssumption DEF TypeInv, ChildType
    <3> QED BY <1>36, <3>1 DEF ClearCacheFails, ChildType, Child
  <2>3. RestType'
    BY <1>36, PipelineAssumption DEF TypeInv, RestType, ClearCacheFails, Fault
  <2>4. ConvType'
    BY <1>36 DEF TypeInv, ConvType, ClearCacheFails
  <2> QED BY <2>1, <2>2, <2>3, <2>4 DEF TypeInv
<1>34. ASSUME TypeInv, UNCHANGED vars
      PROVE  TypeInv'
  BY <1>34 DEF TypeInv, FilesType, ConvType, ChildType, RestType, vars, files, bounds
<1> QED
  BY <1>1, <1>2, <1>3, <1>4, <1>5, <1>6, <1>7, <1>8, <1>9, <1>10, <1>11, <1>12, <1>13,
      <1>14, <1>15, <1>16, <1>17, <1>18, <1>19, <1>20, <1>21, <1>22, <1>23, <1>24,
      <1>25, <1>26, <1>27, <1>28, <1>29, <1>30, <1>31, <1>32, <1>33, <1>34, <1>35, <1>36 DEF Next,
      ConvStep, ChildStep, Faults

\* The types to begin with.
LEMMA TypeInit == Init => TypeInv
<1> SUFFICES ASSUME Init PROVE TypeInv
  OBVIOUS
<1>1. 0 \in Time /\ 0 \in 0..MaxFaults /\ 0 \in 0..MaxChanges
  BY PipelineAssumption DEF Time
<1>2. NoEpub \in Epub
  BY <1>1 DEF NoEpub, Epub
<1>3. FilesType
  BY <1>1, <1>2, StartTypes DEF Init, FilesType
<1>4. ConvType /\ ChildType
  BY StartTypes DEF Init, ConvType, ChildType
<1>5. RestType
  BY <1>1 DEF Init, RestType
<1> QED BY <1>3, <1>4, <1>5 DEF TypeInv

\* Every variable keeps its type, whatever fails: in particular no run of mokuro
\* is an attempt too many.
THEOREM PipelineTypes == Spec => []TypeOK
<1>1. TypeInv => TypeOK
  BY DEF TypeInv, FilesType, ConvType, ChildType, RestType, TypeOK
<1> QED BY TypeInit, TypeStep, <1>1, PTL DEF Spec

-----------------------------------------------------------------------------
(* A source is removed only when what is made of it is there: a PDF when   *)
(* its page images are, and page images when their EPUB is.  A ".mokuro"   *)
(* file says that its volume was OCRed, so its page images are never the   *)
(* ones of a PDF that are removed.                                         *)

Built(v) == epub[v].state \in {"torn", "whole"}

NoPdf == \A v \in Vols : pdf[v] = "none"

Sourced == \A v \in Vols : pdf[v] # "none" \/ images[v] # {} \/ Built(v)

\* What is worked on is there.
WorkedOn ==
    /\ conv.pc \in {"raster", "parse", "create", "close"} => images[conv.vol] # {}
    /\ conv.pc = "rmdir" => Built(conv.vol)
    /\ child.pc \in {"ocr", "write", "fill"} => images[child.vol] # {}

Recognized == \A v \in Vols : Exists(v) => images[v] # {} /\ pdf[v] = "none"

\* Where Convert has got to: mokuro runs when no PDF is left, and only then.
Phases ==
    /\ conv.pc = "raster" => pdf[conv.vol] # "none"
    /\ conv.pc \in {"pdfs", "raster", "gpu", "snapshot", "poll", "pass", "parse"} =>
          ~conv.text
    /\ conv.pc \in {"gpu", "snapshot", "poll", "pass", "parse"} => NoPdf
    /\ conv.pc \in {"create", "close"} /\ ~conv.text => NoPdf
    /\ conv.pc \in {"create", "close", "rmdir"} /\ conv.text => ~Exists(conv.vol)
    /\ conv.pc = "rmdir" => conv.text
    /\ child.pc # "off" =>
          ~conv.text /\ conv.pc \in {"poll", "pass", "parse", "create", "close"}
    /\ conv.last =>
          /\ child.pc = "off" /\ ~conv.text
          /\ conv.pc \in {"pass", "parse", "create", "close", "return"}

Safe == Sourced /\ Recognized /\ WorkedOn /\ Phases

SourceInv == TypeInv /\ Safe

\* Every step keeps what is said of the sources.
LEMMA SourceStep == SourceInv /\ [Next]_vars => SourceInv'
<1>1. ASSUME SourceInv, NEW noCache \in BOOLEAN, NEW only \in Vols \cup {All},
              StartConvert(noCache, only)
      PROVE  Safe'
  <2>1. Sourced' /\ Recognized'
    BY <1>1 DEF SourceInv, Safe, Sourced, Recognized, StartConvert, files, Built, Exists
  <2>2. WorkedOn'
    BY <1>1 DEF SourceInv, Safe, WorkedOn, StartConvert, files
  <2>3. Phases'
    BY <1>1 DEF SourceInv, Safe, Phases, StartConvert, Idle
  <2> QED BY <2>1, <2>2, <2>3 DEF Safe
<1>2. ASSUME SourceInv, NEW v \in Vols, Rasterize(v)
      PROVE  Safe'
  <2>1. Sourced'
    BY <1>2 DEF SourceInv, Safe, Sourced, Rasterize, Built
  <2>2. Recognized'
    BY <1>2 DEF SourceInv, Safe, Recognized, Rasterize, Exists
  <2>3. WorkedOn'
    BY <1>2, PipelineAssumption DEF SourceInv, Safe, TypeInv, FilesType, WorkedOn,
        Rasterize
  <2>4. Phases'
    BY <1>2 DEF SourceInv, Safe, Phases, Rasterize
  <2> QED BY <2>1, <2>2, <2>3, <2>4 DEF Safe
<1>3. ASSUME SourceInv, NEW v \in Vols, StatFile(v)
      PROVE  Safe'
  <2>1. Sourced' /\ Recognized'
    BY <1>3 DEF SourceInv, Safe, Sourced, Recognized, StatFile, files, Built, Exists
  <2>2. WorkedOn'
    BY <1>3 DEF SourceInv, Safe, WorkedOn, Recognized, StatFile, files
  <2>3. Phases'
    BY <1>3 DEF SourceInv, Safe, Phases, StatFile, files, NoPdf
  <2> QED BY <2>1, <2>2, <2>3 DEF Safe
<1>4. ASSUME SourceInv, RemoveScanPDF
      PROVE  Safe'
  <2>1. Sourced'
    BY <1>4 DEF SourceInv, Safe, Sourced, WorkedOn, RemoveScanPDF, Built
  <2>2. Recognized'
    BY <1>4 DEF SourceInv, Safe, Recognized, RemoveScanPDF, Exists
  <2>3. WorkedOn'
    BY <1>4 DEF SourceInv, Safe, WorkedOn, RemoveScanPDF
  <2>4. Phases'
    BY <1>4 DEF SourceInv, Safe, Phases, RemoveScanPDF
  <2> QED BY <2>1, <2>2, <2>3, <2>4 DEF Safe
<1>5. ASSUME SourceInv, RemoveTextPDF
      PROVE  Safe'
  <2>1. Sourced'
    BY <1>5 DEF SourceInv, Safe, Sourced, WorkedOn, RemoveTextPDF, Built
  <2>2. Recognized'
    BY <1>5 DEF SourceInv, Safe, Recognized, RemoveTextPDF, Exists
  <2>3. WorkedOn'
    BY <1>5 DEF SourceInv, Safe, WorkedOn, RemoveTextPDF
  <2>4. Phases'
    BY <1>5 DEF SourceInv, Safe, TypeInv, ConvType, Recognized, Phases, RemoveTextPDF,
        Exists
  <2> QED BY <2>1, <2>2, <2>3, <2>4 DEF Safe
<1>6. ASSUME SourceInv, PageCountMismatch
      PROVE  Safe'
  <2>1. Sourced' /\ Recognized'
    BY <1>6 DEF SourceInv, Safe, Sourced, Recognized, PageCountMismatch, files, Built,
        Exists
  <2>2. WorkedOn'
    BY <1>6 DEF SourceInv, Safe, WorkedOn, PageCountMismatch, files
  <2>3. Phases'
    BY <1>6 DEF SourceInv, Safe, Phases, PageCountMismatch
  <2> QED BY <2>1, <2>2, <2>3 DEF Safe
<1>7. ASSUME SourceInv, RemoveFolder
      PROVE  Safe'
  <2>1. Sourced'
    BY <1>7 DEF SourceInv, Safe, Sourced, WorkedOn, RemoveFolder, Built
  <2>2. Recognized'
    BY <1>7 DEF SourceInv, Safe, Recognized, Phases, RemoveFolder, Exists
  <2>3. WorkedOn'
    BY <1>7 DEF SourceInv, Safe, WorkedOn, Phases, RemoveFolder
  <2>4. Phases'
    BY <1>7 DEF SourceInv, Safe, Phases, RemoveFolder
  <2> QED BY <2>1, <2>2, <2>3, <2>4 DEF Safe
<1>8. ASSUME SourceInv, CheckInput
      PROVE  Safe'
  <2>1. Sourced' /\ Recognized'
    BY <1>8 DEF SourceInv, Safe, Sourced, Recognized, CheckInput, files, Built, Exists
  <2>2. WorkedOn'
    BY <1>8 DEF SourceInv, Safe, WorkedOn, CheckInput, files
  <2>3. Phases'
    BY <1>8 DEF SourceInv, Safe, Phases, CheckInput, files, NoPdf
  <2> QED BY <2>1, <2>2, <2>3 DEF Safe
<1>9. ASSUME SourceInv, ReconcileOCRCache \/ ReconcileFails
      PROVE  Safe'
  <2>1. /\ conv.pc = "gpu" /\ conv' = [conv EXCEPT !.pc = "snapshot"]
        /\ UNCHANGED <<pdf, images, epub, child>>
    BY <1>9 DEF ReconcileOCRCache, ReconcileFails
  <2>2. Sourced'
    BY <1>9, <2>1 DEF SourceInv, Safe, Sourced, Built
  <2>3. Recognized'
    <3>1. \A v \in Vols : HasCache(v) \/ mokuro'[v] = mokuro[v]
      <4>1. CASE UNCHANGED <<cache, mokuro, clock>>
        BY <4>1
      <4>2. CASE ~UNCHANGED <<cache, mokuro, clock>>
        BY <1>9, <4>2, ReconcileLeaves DEF SourceInv, Reconciled
      <4> QED BY <4>1, <4>2
    <3> QED BY <1>9, <2>1, <3>1 DEF SourceInv, Safe, Recognized, Phases, Exists, NoPdf, HasCache
  <2>4. WorkedOn'
    BY <1>9, <2>1 DEF SourceInv, Safe, TypeInv, ConvType, WorkedOn, Conv
  <2>5. Phases'
    BY <1>9, <2>1 DEF SourceInv, Safe, TypeInv, ConvType, Phases, Conv, NoPdf
  <2> QED BY <2>2, <2>3, <2>4, <2>5 DEF Safe
<1>10. ASSUME SourceInv, Snapshot
      PROVE  Safe'
  <2>1. Sourced' /\ Recognized'
    BY <1>10 DEF SourceInv, Safe, Sourced, Recognized, Snapshot, files, Built, Exists
  <2>2. WorkedOn'
    BY <1>10 DEF WorkedOn, Snapshot
  <2>3. Phases'
    BY <1>10 DEF SourceInv, Safe, Phases, Snapshot, files, NoPdf
  <2> QED BY <2>1, <2>2, <2>3 DEF Safe
<1>11. ASSUME SourceInv, Tick
      PROVE  Safe'
  <2>1. WorkedOn' /\ Phases'
    <3>1. conv \in Conv
      BY <1>11 DEF SourceInv, TypeInv, ConvType
    <3>2. conv'.pc = "pass" /\ conv'.text = conv.text /\ conv'.last = conv.last
      BY <1>11, <3>1 DEF Tick, Conv
    <3>3. WorkedOn'
      BY <1>11, <3>2 DEF SourceInv, Safe, WorkedOn, Tick, files
    <3>4. Phases'
      BY <1>11, <3>2 DEF SourceInv, Safe, Phases, NoPdf, Tick, files
    <3> QED BY <1>11, <3>3, <3>4
  <2>2. Sourced' /\ Recognized'
    BY <1>11 DEF SourceInv, Safe, Sourced, Recognized, Tick, files, Built, Exists
  <2> QED BY <2>1, <2>2 DEF Safe
<1>12. ASSUME SourceInv, MokuroDone
      PROVE  Safe'
  <2>1. WorkedOn' /\ Phases'
    <3>1. conv \in Conv
      BY <1>12 DEF SourceInv, TypeInv, ConvType
    <3>2. conv'.pc = "pass" /\ conv'.text = conv.text /\ child'.pc = "off"
      BY <1>12, <3>1, StartTypes DEF MokuroDone, Conv
    <3>3. WorkedOn'
      BY <1>12, <3>2 DEF SourceInv, Safe, WorkedOn, MokuroDone
    <3>4. Phases'
      BY <1>12, <3>2 DEF SourceInv, Safe, Phases, NoPdf, MokuroDone, files
    <3> QED BY <1>12, <3>3, <3>4
  <2>2. Sourced' /\ Recognized'
    BY <1>12 DEF SourceInv, Safe, Sourced, Recognized, MokuroDone, files, Built, Exists
  <2> QED BY <2>1, <2>2 DEF Safe
<1>13. ASSUME SourceInv, ParseMokuroFile
      PROVE  Safe'
  <2>1. WorkedOn' /\ Phases'
    <3>1. conv \in Conv
      BY <1>13 DEF SourceInv, TypeInv, ConvType
    <3>2. /\ conv'.text = conv.text /\ conv'.last = conv.last
          /\ conv'.pc = "pass" \/ (conv'.pc = "create" /\ conv'.vol = conv.vol)
      <4>1. CASE Parses(conv.vol)
        <5>1. conv' = [conv EXCEPT !.pc = "create", !.of = mokuro[conv.vol].mtime,
                                    !.pages = mokuro[conv.vol].pages]
          BY <1>13, <4>1 DEF ParseMokuroFile
        <5> QED BY <1>13, <3>1, <5>1 DEF Conv
      <4>2. CASE ~Parses(conv.vol)
        BY <1>13, <4>2, NextFileType DEF SourceInv, ParseMokuroFile
      <4> QED BY <1>13, <4>1, <4>2
    <3>3. WorkedOn'
      BY <1>13, <3>2 DEF SourceInv, Safe, WorkedOn, ParseMokuroFile, files
    <3>4. Phases'
      BY <1>13, <3>2 DEF SourceInv, Safe, Phases, NoPdf, ParseMokuroFile, files
    <3> QED BY <1>13, <3>3, <3>4
  <2>2. Sourced' /\ Recognized'
    BY <1>13 DEF SourceInv, Safe, Sourced, Recognized, ParseMokuroFile, files, Built,
        Exists
  <2> QED BY <2>1, <2>2 DEF Safe
<1>14. ASSUME SourceInv, CreateEpub
      PROVE  Safe'
  <2>1. Sourced'
    BY <1>14 DEF SourceInv, Safe, Sourced, WorkedOn, CreateEpub, Built
  <2>2. Recognized'
    BY <1>14 DEF SourceInv, Safe, Recognized, CreateEpub, Exists
  <2>3. WorkedOn'
    BY <1>14 DEF SourceInv, Safe, WorkedOn, CreateEpub
  <2>4. Phases'
    BY <1>14 DEF SourceInv, Safe, Phases, CreateEpub, Exists, NoPdf
  <2> QED BY <2>1, <2>2, <2>3, <2>4 DEF Safe
<1>15. ASSUME SourceInv, WriteEpub
      PROVE  Safe'
  <2>1. Sourced'
    BY <1>15 DEF SourceInv, Safe, Sourced, WriteEpub, BuildSucceeds, Built
  <2>2. Recognized'
    BY <1>15 DEF SourceInv, Safe, Recognized, WriteEpub, BuildSucceeds, Exists
  <2>3. WorkedOn'
    BY <1>15 DEF SourceInv, Safe, TypeInv, FilesType, ConvType, WorkedOn, WriteEpub,
        BuildSucceeds, NextFile, Built
  <2>4. Phases'
    BY <1>15 DEF SourceInv, Safe, Phases, WriteEpub, BuildSucceeds, NextFile, Exists,
        NoPdf
  <2> QED BY <2>1, <2>2, <2>3, <2>4 DEF Safe
<1>16. ASSUME SourceInv, PageMissing
      PROVE  Safe'
  <2>1. Sourced' /\ Recognized'
    BY <1>16 DEF SourceInv, Safe, Sourced, Recognized, PageMissing, BuildError, files,
        Built, Exists
  <2>2. WorkedOn'
    BY <1>16 DEF SourceInv, Safe, WorkedOn, PageMissing, BuildError, NextFile, files
  <2>3. Phases'
    BY <1>16 DEF SourceInv, Safe, Phases, PageMissing, BuildError, NextFile, files,
        NoPdf
  <2> QED BY <2>1, <2>2, <2>3 DEF Safe
<1>17. ASSUME SourceInv, EndPass
      PROVE  Safe'
  <2>1. Sourced' /\ Recognized'
    BY <1>17 DEF SourceInv, Safe, Sourced, Recognized, EndPass, files, Built, Exists
  <2>2. WorkedOn'
    BY <1>17 DEF SourceInv, Safe, WorkedOn, EndPass, files
  <2>3. Phases'
    BY <1>17 DEF SourceInv, Safe, Phases, EndPass, files, NoPdf
  <2> QED BY <2>1, <2>2, <2>3 DEF Safe
<1>18. ASSUME SourceInv, Return
      PROVE  Safe'
  <2>1. Sourced' /\ Recognized'
    BY <1>18 DEF SourceInv, Safe, Sourced, Recognized, Return, Forgotten, files,
        Built, Exists
  <2>2. WorkedOn'
    BY <1>18, StartTypes DEF WorkedOn, Return, Forgotten
  <2>3. Phases'
    BY <1>18, StartTypes DEF Phases, Return, Forgotten, Idle
  <2> QED BY <2>1, <2>2, <2>3 DEF Safe
<1>19. ASSUME SourceInv, ClearCache
      PROVE  Safe'
  <2>1. Recognized'
    <3>1. ASSUME NEW v \in Vols
          PROVE  mokuro'[v] \in {mokuro[v], NoMokuro}
      BY <1>19, <3>1 DEF SourceInv, TypeInv, FilesType, ClearCache
    <3> QED BY <1>19, <3>1, StartTypes DEF SourceInv, Safe, Recognized, Exists,
        ClearCache
  <2>2. Sourced'
    BY <1>19 DEF SourceInv, Safe, Sourced, ClearCache, Built
  <2>3. WorkedOn'
    BY <1>19 DEF SourceInv, Safe, WorkedOn, ClearCache, Built
  <2>4. Phases'
    BY <1>19 DEF SourceInv, Safe, Phases, ClearCache, NoPdf
  <2> QED BY <2>1, <2>2, <2>3, <2>4 DEF Safe
<1>20. ASSUME SourceInv, RecognizePages
      PROVE  Safe'
  <2>1. Sourced' /\ Recognized'
    BY <1>20 DEF SourceInv, Safe, Sourced, Recognized, RecognizePages, Built, Exists
  <2>2. WorkedOn'
    BY <1>20 DEF SourceInv, Safe, WorkedOn, RecognizePages, Built
  <2>3. Phases'
    BY <1>20 DEF SourceInv, Safe, Phases, RecognizePages, NoPdf
  <2> QED BY <2>1, <2>2, <2>3 DEF Safe
<1>21. ASSUME SourceInv, OpenMokuroFile
      PROVE  Safe'
  <2>1. Sourced'
    BY <1>21 DEF SourceInv, Safe, Sourced, OpenMokuroFile, Built
  <2>2. Recognized'
    BY <1>21 DEF SourceInv, Safe, WorkedOn, Recognized, Phases, OpenMokuroFile,
        Exists, NoPdf
  <2>3. WorkedOn'
    BY <1>21 DEF SourceInv, Safe, WorkedOn, OpenMokuroFile, Built
  <2>4. Phases'
    BY <1>21 DEF SourceInv, Safe, Phases, OpenMokuroFile, NoPdf
  <2> QED BY <2>1, <2>2, <2>3, <2>4 DEF Safe
<1>22. ASSUME SourceInv, FillMokuroFile
      PROVE  Safe'
  <2>1. Sourced'
    BY <1>22 DEF SourceInv, Safe, Sourced, FillMokuroFile, Built
  <2>2. Recognized'
    BY <1>22 DEF SourceInv, Safe, WorkedOn, Recognized, Phases, FillMokuroFile,
        Exists, NoPdf
  <2>3. WorkedOn'
    BY <1>22 DEF SourceInv, Safe, WorkedOn, FillMokuroFile, Built
  <2>4. Phases'
    BY <1>22 DEF SourceInv, Safe, Phases, FillMokuroFile, NoPdf
  <2> QED BY <2>1, <2>2, <2>3, <2>4 DEF Safe
<1>23. ASSUME SourceInv, MokuroEnds
      PROVE  Safe'
  <2>1. Sourced' /\ Recognized'
    BY <1>23 DEF SourceInv, Safe, Sourced, Recognized, MokuroEnds, files, Built, Exists
  <2>2. WorkedOn'
    BY <1>23 DEF SourceInv, Safe, WorkedOn, MokuroEnds, files, Built
  <2>3. Phases'
    BY <1>23 DEF SourceInv, Safe, Phases, MokuroEnds, files, NoPdf
  <2> QED BY <2>1, <2>2, <2>3 DEF Safe
<1>24. ASSUME SourceInv, PhantomPage
      PROVE  Safe'
  <2>1. WorkedOn'
    <3>1. child'.pc \in {"next", "failed"} /\ UNCHANGED conv
      <4>1. CASE Retry
        BY <1>24, <4>1, RetryType DEF SourceInv, Retry
      <4>2. CASE ~Retry
        BY <1>24, <4>2 DEF SourceInv, TypeInv, ChildType, Child, PhantomPage
      <4> QED BY <1>24, <4>1, <4>2
    <3> QED BY <1>24, <3>1 DEF SourceInv, Safe, WorkedOn, PhantomPage, Retry, files,
        Built
  <2>2. Sourced' /\ Recognized'
    BY <1>24 DEF SourceInv, Safe, Sourced, Recognized, PhantomPage, Retry, files,
        Built, Exists
  <2>3. Phases'
    BY <1>24 DEF SourceInv, Safe, Phases, PhantomPage, Retry, files, NoPdf
  <2> QED BY <2>1, <2>2, <2>3 DEF Safe
<1>25. ASSUME SourceInv, NEW v \in Vols, SkipVolume(v)
      PROVE  Safe'
  <2>1. Sourced' /\ Recognized'
    BY <1>25 DEF SourceInv, Safe, Sourced, Recognized, SkipVolume, files, Built, Exists
  <2>2. WorkedOn'
    BY <1>25 DEF SourceInv, Safe, WorkedOn, SkipVolume, files, Built
  <2>3. Phases'
    BY <1>25 DEF SourceInv, Safe, Phases, SkipVolume, files, NoPdf
  <2> QED BY <2>1, <2>2, <2>3 DEF Safe
<1>26. ASSUME SourceInv, NEW v \in Vols, ProcessVolume(v)
      PROVE  Safe'
  <2>1. Sourced' /\ Recognized'
    BY <1>26 DEF SourceInv, Safe, Sourced, Recognized, ProcessVolume, Built, Exists
  <2>2. WorkedOn'
    BY <1>26 DEF SourceInv, Safe, WorkedOn, ProcessVolume, Built
  <2>3. Phases'
    BY <1>26 DEF SourceInv, Safe, Phases, ProcessVolume, NoPdf
  <2> QED BY <2>1, <2>2, <2>3 DEF Safe
<1>27. ASSUME SourceInv, Fails
      PROVE  Safe'
  <2>1. Sourced' /\ Recognized'
    BY <1>27 DEF SourceInv, Safe, Sourced, Recognized, Fails, files, Built, Exists
  <2>2. WorkedOn'
    BY <1>27 DEF SourceInv, Safe, WorkedOn, Fails, files
  <2>3. Phases'
    BY <1>27 DEF SourceInv, Safe, Phases, Fails
  <2> QED BY <2>1, <2>2, <2>3 DEF Safe
<1>28. ASSUME SourceInv, MokuroFails
      PROVE  Safe'
  <2>1. Sourced' /\ Recognized'
    BY <1>28 DEF SourceInv, Safe, Sourced, Recognized, MokuroFails, Retry, files,
        Built, Exists
  <2>2. WorkedOn'
    BY <1>28 DEF SourceInv, Safe, WorkedOn, MokuroFails, Retry, files, Built
  <2>3. Phases'
    BY <1>28 DEF SourceInv, Safe, Phases, MokuroFails, Retry, files, NoPdf, Running
  <2> QED BY <2>1, <2>2, <2>3 DEF Safe
<1>29. ASSUME SourceInv, Cancel
      PROVE  Safe'
  <2>1. WorkedOn' /\ Phases'
    <3>1. CASE /\ conv.pc = "gpu" /\ conv' = [conv EXCEPT !.pc = "return", !.err = TRUE]
               /\ UNCHANGED child
      <4>1. conv'.pc = "return" /\ conv'.last = conv.last /\ conv'.text = conv.text
        BY <1>29, <3>1 DEF SourceInv, TypeInv, ConvType, Conv
      <4> QED BY <1>29, <3>1, <4>1 DEF SourceInv, Safe, WorkedOn, Phases
    <3>2. CASE Running /\ child' = [NoChild EXCEPT !.pc = "failed"] /\ UNCHANGED conv
      <4>1. child'.pc = "failed"
        BY <1>29, <3>2 DEF Child
      <4>2. conv.pc # "idle" /\ child.pc # "off"
        BY <1>29, <3>2 DEF SourceInv, Safe, Phases, Running
      <4> QED BY <1>29, <3>2, <4>1, <4>2 DEF SourceInv, Safe, WorkedOn, Phases, NoPdf,
          Cancel, files
    <3> QED BY <1>29, <3>1, <3>2 DEF Cancel
  <2>2. Sourced' /\ Recognized'
    BY <1>29 DEF SourceInv, Safe, Sourced, Recognized, Cancel, files, Built, Exists
  <2> QED BY <2>1, <2>2 DEF Safe
<1>30. ASSUME SourceInv, CloseFails
      PROVE  Safe'
  <2>1. Sourced'
    BY <1>30 DEF SourceInv, Safe, Sourced, CloseFails, BuildSucceeds, Built
  <2>2. Recognized'
    BY <1>30 DEF SourceInv, Safe, Recognized, CloseFails, BuildSucceeds, Exists
  <2>3. WorkedOn'
    BY <1>30 DEF SourceInv, Safe, TypeInv, FilesType, ConvType, WorkedOn, CloseFails,
        BuildSucceeds, NextFile, Built
  <2>4. Phases'
    BY <1>30 DEF SourceInv, Safe, Phases, CloseFails, BuildSucceeds, NextFile, Exists,
        NoPdf
  <2> QED BY <2>1, <2>2, <2>3, <2>4 DEF Safe
<1>31. ASSUME SourceInv, BuildFails
      PROVE  Safe'
  <2>1. Sourced' /\ Recognized'
    BY <1>31 DEF SourceInv, Safe, Sourced, Recognized, BuildFails, BuildError, files,
        Built, Exists
  <2>2. WorkedOn'
    BY <1>31 DEF SourceInv, Safe, WorkedOn, BuildFails, BuildError, NextFile, files
  <2>3. Phases'
    BY <1>31 DEF SourceInv, Safe, Phases, BuildFails, BuildError, NextFile, files, NoPdf
  <2> QED BY <2>1, <2>2, <2>3 DEF Safe
<1>32. ASSUME SourceInv, Crash
      PROVE  Safe'
  <2>1. Sourced' /\ Recognized'
    BY <1>32 DEF SourceInv, Safe, Sourced, Recognized, Crash, Forgotten, files, Built,
        Exists
  <2>2. WorkedOn'
    BY <1>32, StartTypes DEF WorkedOn, Crash, Forgotten
  <2>3. Phases'
    BY <1>32, StartTypes DEF Phases, Crash, Forgotten, Idle
  <2> QED BY <2>1, <2>2, <2>3 DEF Safe
<1>33. ASSUME SourceInv, NEW v \in Vols, NEW S \in SUBSET Pages, ChangePages(v, S)
      PROVE  Safe'
  <2>1. Sourced'
    BY <1>33 DEF SourceInv, Safe, Sourced, ChangePages, Built
  <2>2. Recognized'
    BY <1>33 DEF SourceInv, Safe, Recognized, ChangePages, Exists
  <2>3. WorkedOn'
    BY <1>33 DEF SourceInv, Safe, WorkedOn, ChangePages, Built
  <2>4. Phases'
    BY <1>33 DEF SourceInv, Safe, Phases, ChangePages, Exists, NoPdf
  <2> QED BY <2>1, <2>2, <2>3, <2>4 DEF Safe
<1>36. ASSUME SourceInv, ClearCacheFails
      PROVE  Safe'
  <2>1. Sourced'
    BY <1>36 DEF SourceInv, Safe, Sourced, ClearCacheFails, Built
  <2>2. ASSUME NEW v \in Vols
        PROVE  mokuro'[v] = mokuro[v] \/ mokuro'[v] = NoMokuro
    BY <1>36 DEF SourceInv, TypeInv, FilesType, ClearCacheFails
  <2>3. UNCHANGED <<pdf, images, epub, conv>> /\ child.pc = "clear" /\ child'.pc = "next"
    BY <1>36 DEF SourceInv, TypeInv, ChildType, Child, ClearCacheFails
  <2>4. Recognized'
    BY <1>36, <2>2, <2>3, StartTypes DEF SourceInv, Safe, Recognized, Exists
  <2>5. WorkedOn'
    BY <1>36, <2>3 DEF SourceInv, Safe, WorkedOn, Built
  <2>6. Phases'
    BY <1>36, <2>3 DEF SourceInv, Safe, Phases, NoPdf
  <2> QED BY <2>1, <2>4, <2>5, <2>6 DEF Safe
<1>34. ASSUME SourceInv, UNCHANGED vars
      PROVE  Safe'
  BY <1>34 DEF SourceInv, Safe, Sourced, Recognized, WorkedOn, Phases, NoPdf, Built,
      Exists, vars, files
<1>37. SourceInv /\ [Next]_vars => Safe'
  BY <1>1, <1>2, <1>3, <1>4, <1>5, <1>6, <1>7, <1>8, <1>9, <1>10, <1>11, <1>12, <1>13,
      <1>14, <1>15, <1>16, <1>17, <1>18, <1>19, <1>20, <1>21, <1>22, <1>23, <1>24,
      <1>25, <1>26, <1>27, <1>28, <1>29, <1>30, <1>31, <1>32, <1>33, <1>34, <1>36 DEF Next,
      ConvStep, ChildStep, Faults
<1> QED BY <1>37, TypeStep DEF SourceInv

\* What is said of the sources holds of a book that was just uploaded.
LEMMA SourceInit == Init => SourceInv
<1> SUFFICES ASSUME Init PROVE SourceInv
  OBVIOUS
<1>1. ~Idle.text /\ ~Idle.last
  BY DEF Idle
<1>2. Sourced
  BY PipelineAssumption DEF Init, Sourced
<1>3. Recognized
  BY StartTypes DEF Init, Recognized, Exists
<1>4. WorkedOn /\ Phases
  BY <1>1, StartTypes DEF Init, WorkedOn, Phases
<1> QED BY <1>2, <1>3, <1>4, TypeInit DEF SourceInv, Safe

\* No volume is ever left without its PDF, its page images and an EPUB: neither
\* a crash nor a failing step comes between the removal of one and the next.
THEOREM NoVolumeLost == Spec => []NothingLost
<1>1. SourceInv => NothingLost
  BY DEF SourceInv, Safe, Sourced, Built, NothingLost
<1> QED BY SourceInit, SourceStep, <1>1, PTL DEF Spec
-----------------------------------------------------------------------------
(* What mokuro keeps of a volume.  Neither the cache nor a ".mokuro" file  *)
(* names a page that has no image, unless the user changed pages; and a    *)
(* reconciliation that comes through over every volume makes that so again *)
(* whatever earlier runs, dead or failing, have left.                      *)

NoFileNoPages == \A v \in Vols : ~Exists(v) => mokuro[v].pages = {} /\ ~mokuro[v].whole

CachesMatch ==
    ~changed =>
        \A v \in Vols : images[v] # {} =>
            Entries(v) \subseteq images[v] /\ mokuro[v].pages \subseteq images[v]

InUse == child.pc \in {"ocr", "write", "fill"} => cache[child.vol] # NoDir

CacheInv == NoFileNoPages /\ CachesMatch /\ InUse

\* Steps that touch neither pages nor cache nor ".mokuro" files.
LeavesCaches ==
    /\ UNCHANGED <<images, cache, mokuro, changed>>
    /\ child'.pc \in {"ocr", "write", "fill"} =>
          child.pc \in {"ocr", "write", "fill"} /\ child'.vol = child.vol

LEMMA CachesLeft == ASSUME CacheInv, LeavesCaches PROVE CacheInv'
<1>1. NoFileNoPages'
  BY DEF CacheInv, NoFileNoPages, LeavesCaches, Exists
<1>2. CachesMatch'
  BY DEF CacheInv, CachesMatch, LeavesCaches, Entries
<1>3. InUse'
  BY DEF CacheInv, InUse, LeavesCaches
<1> QED BY <1>1, <1>2, <1>3 DEF CacheInv

\* Convert, all but reconcileOCRCache and the PDFs, touches none of them.
LEMMA ConvertLeavesCaches ==
    ASSUME SourceInv,
           \/ \E noCache \in BOOLEAN, only \in Vols \cup {All} : StartConvert(noCache, only)
           \/ \E v \in Vols : StatFile(v)
           \/ RemoveScanPDF \/ RemoveTextPDF \/ PageCountMismatch \/ CheckInput
           \/ Snapshot \/ Tick \/ MokuroDone \/ ParseMokuroFile \/ CreateEpub
           \/ WriteEpub \/ PageMissing \/ EndPass \/ Return
           \/ Fails \/ CloseFails \/ BuildFails \/ Crash
    PROVE  LeavesCaches
<1> USE DEF LeavesCaches, files
<1>1. conv \in Conv /\ child \in Child
  BY DEF SourceInv, TypeInv, ConvType, ChildType
<1>2. ASSUME NEW noCache \in BOOLEAN, NEW only \in Vols \cup {All},
             StartConvert(noCache, only)
      PROVE  LeavesCaches
  BY <1>1, <1>2, StartTypes DEF StartConvert, Conv
<1>3. ASSUME NEW v \in Vols, StatFile(v) PROVE LeavesCaches
  BY <1>1, <1>3 DEF StatFile, Conv
<1>4. CASE RemoveScanPDF
  BY <1>1, <1>4 DEF RemoveScanPDF, Conv
<1>5. CASE RemoveTextPDF
  BY <1>1, <1>5 DEF RemoveTextPDF, Conv
<1>6. CASE PageCountMismatch
  BY <1>1, <1>6 DEF PageCountMismatch, Conv
<1>7. CASE CheckInput
  BY <1>1, <1>7 DEF CheckInput, Conv
<1>8. CASE Snapshot
  BY <1>1, <1>8, StartTypes DEF Snapshot, Conv, Child
<1>9. CASE Tick
  BY <1>1, <1>9 DEF Tick, Conv
<1>10. CASE MokuroDone
  BY <1>1, <1>10, StartTypes DEF MokuroDone, Conv
<1>11. CASE ParseMokuroFile
  <2>1. CASE Parses(conv.vol)
    BY <1>1, <1>11, <2>1 DEF ParseMokuroFile, Conv
  <2>2. CASE ~Parses(conv.vol)
    BY <1>1, <1>11, <2>2 DEF ParseMokuroFile
  <2> QED BY <2>1, <2>2
<1>12. CASE CreateEpub
  BY <1>1, <1>12 DEF CreateEpub, Conv
<1>13. CASE WriteEpub \/ CloseFails
  <2>1. PICK state \in {"torn", "whole"} : BuildSucceeds(state)
    BY <1>13 DEF WriteEpub, CloseFails
  <2>2. CASE conv.text
    BY <1>1, <2>1, <2>2 DEF BuildSucceeds, Conv
  <2>3. CASE ~conv.text
    BY <1>1, <2>1, <2>3 DEF BuildSucceeds
  <2> QED BY <2>2, <2>3
<1>14. CASE PageMissing \/ BuildFails
  <2>1. BuildError /\ conv.pc \in {"create", "close"}
    BY <1>14 DEF PageMissing, BuildFails
  <2>2. CASE conv.text
    BY <1>1, <2>1, <2>2 DEF BuildError, Conv
  <2>3. CASE ~conv.text
    BY <1>1, <2>1, <2>3 DEF BuildError
  <2> QED BY <2>2, <2>3
<1>15. CASE EndPass
  BY <1>1, <1>15 DEF EndPass, Conv
<1>16. CASE Return \/ Crash
  BY <1>16, StartTypes DEF Return, Crash, Forgotten
<1>17. CASE Fails
  BY <1>1, <1>17 DEF Fails, Conv
<1> QED BY <1>2, <1>3, <1>4, <1>5, <1>6, <1>7, <1>8, <1>9, <1>10, <1>11, <1>12, <1>13,
      <1>14, <1>15, <1>16, <1>17

\* Neither does mokuro when it skips a volume, ends or fails.
LEMMA MokuroLeavesCaches ==
    ASSUME SourceInv,
           \/ \E v \in Vols : SkipVolume(v)
           \/ MokuroEnds \/ PhantomPage \/ MokuroFails \/ Cancel \/ UNCHANGED vars
    PROVE  LeavesCaches
<1> USE DEF LeavesCaches, files
<1>1. conv \in Conv /\ child \in Child
  BY DEF SourceInv, TypeInv, ConvType, ChildType
<1>2. ASSUME NEW v \in Vols, SkipVolume(v) PROVE LeavesCaches
  BY <1>1, <1>2 DEF SkipVolume, Child
<1>3. CASE MokuroEnds
  BY <1>1, <1>3 DEF MokuroEnds, Child
<1>4. ASSUME Retry PROVE LeavesCaches
  BY <1>4, RetryType DEF SourceInv, Retry
<1>5. CASE PhantomPage
  BY <1>1, <1>4, <1>5 DEF PhantomPage, Child
<1>6. CASE MokuroFails
  BY <1>4, <1>6 DEF MokuroFails
<1>7. CASE Cancel
  BY <1>1, <1>7, StartTypes DEF Cancel, Conv, Child
<1>8. CASE UNCHANGED vars
  BY <1>8 DEF vars
<1> QED BY <1>2, <1>3, <1>5, <1>6, <1>7, <1>8

\* Every step keeps what is said of the caches.
LEMMA CacheStep == SourceInv /\ CacheInv /\ [Next]_vars => CacheInv'
<1> SUFFICES ASSUME SourceInv, CacheInv, [Next]_vars PROVE CacheInv'
  OBVIOUS
<1> USE DEF SourceInv, TypeInv, Safe
<1>1. ASSUME NEW v \in Vols, Rasterize(v) PROVE CacheInv'
  <2>1. child'.pc = "off" /\ UNCHANGED <<cache, mokuro, changed>>
    BY <1>1 DEF Rasterize, Phases
  <2>2. images'[v] = Pages /\ \A w \in Vols \ {v} : images'[w] = images[w]
    BY <1>1 DEF Rasterize, FilesType
  <2>3. Entries(v) \subseteq Pages /\ mokuro[v].pages \subseteq Pages
    BY DEF FilesType, Entries, Mokuro
  <2>4. CachesMatch'
    BY <2>1, <2>2, <2>3 DEF CacheInv, CachesMatch, Entries
  <2> QED BY <2>1, <2>4 DEF CacheInv, NoFileNoPages, InUse, Exists
<1>2. CASE RemoveFolder
  <2>1. child'.pc = "off"
    BY <1>2 DEF RemoveFolder, Phases
  <2>2. UNCHANGED <<cache, mokuro, changed>> /\ \A w \in Vols : images'[w] \in {images[w], {}}
    BY <1>2 DEF RemoveFolder, FilesType
  <2>3. CachesMatch'
    BY <2>2 DEF CacheInv, CachesMatch, Entries
  <2> QED BY <2>1, <2>2, <2>3 DEF CacheInv, NoFileNoPages, InUse, Exists
<1>3. CASE ReconcileOCRCache \/ ReconcileFails
  <2>1. child' = child /\ images' = images /\ child.pc = "off"
    BY <1>3 DEF ReconcileOCRCache, ReconcileFails, Phases
  <2>2. InUse'
    BY <2>1 DEF InUse
  <2>3. CASE ReconcileFails /\ UNCHANGED <<cache, mokuro, clock>>
    <3>1. changed' = changed
      BY <2>3 DEF ReconcileFails
    <3> QED BY <2>1, <2>2, <2>3, <3>1 DEF CacheInv, NoFileNoPages, CachesMatch, Entries, Exists
  <2>4. CASE ~(ReconcileFails /\ UNCHANGED <<cache, mokuro, clock>>)
    <3>1. Reconciled
      BY <1>3, <2>4, ReconcileLeaves
    <3>2. clock + 1 # 0
      BY PipelineAssumption DEF FilesType, Time
    <3>3. NoFileNoPages'
      BY <3>1, <3>2 DEF CacheInv, NoFileNoPages, Reconciled, Exists
    <3>4. \A v \in Vols : Entries(v)' \subseteq Entries(v)
      BY <3>1, PipelineAssumption DEF Reconciled, Entries, HasCache, FilesType
    <3>5. ASSUME ~changed PROVE CachesMatch'
      BY <2>1, <3>1, <3>4, <3>5 DEF CacheInv, CachesMatch, Reconciled
    <3>6. ASSUME changed, ReconcileOCRCache PROVE CachesMatch'
      <4> SUFFICES ASSUME \A v \in Vols : ~PassedOver(v), NEW v \in Vols, images[v] # {}
                   PROVE  Entries(v)' \subseteq images[v] /\ mokuro'[v].pages \subseteq images[v]
        BY <2>1, <3>6 DEF CachesMatch, ReconcileOCRCache
      <4>1. CASE HasCache(v)
        <5>1. mokuro'[v] = KeepPages(mokuro[v], images[v]) /\ cache'[v] = cache[v] \cap images[v]
          BY <3>6, <4>1 DEF ReconcileOCRCache, Rewritten, CleanedMokuro, CleanedCache
        <5>2. mokuro'[v].pages = mokuro[v].pages \cap images[v]
          BY <5>1, KeepPagesType
        <5>3. Entries(v)' \subseteq cache'[v]
          BY DEF Entries
        <5> QED BY <5>1, <5>2, <5>3
      <4>2. CASE ~HasCache(v)
        <5>1. cache[v] = NoDir /\ ~Exists(v)
          BY <4>2 DEF HasCache, PassedOver
        <5>2. mokuro[v].pages = {} /\ Entries(v) = {}
          BY <5>1 DEF CacheInv, NoFileNoPages, Entries
        <5> QED BY <5>2, <3>1, <3>4 DEF Reconciled
      <4> QED BY <4>1, <4>2
    <3>7. ASSUME changed, ReconcileFails PROVE CachesMatch'
      BY <3>7 DEF ReconcileFails, CachesMatch
    <3>8. CachesMatch'
      BY <1>3, <3>5, <3>6, <3>7
    <3> QED BY <2>2, <3>3, <3>8 DEF CacheInv
  <2> QED BY <2>3, <2>4
<1>4. CASE ClearCache \/ ClearCacheFails
  <2>1. ASSUME NEW v \in Vols
        PROVE  /\ mokuro'[v] = mokuro[v] \/ mokuro'[v] = NoMokuro
               /\ Entries(v)' \subseteq Entries(v)
    <3>1. CASE ClearCache
      BY <3>1 DEF ClearCache, FilesType, Entries
    <3>2. CASE ClearCacheFails
      <4>1. PICK es : /\ es = NoDir \/ es \subseteq Entries(conv.only)
                      /\ cache' = [cache EXCEPT ![conv.only] = es]
        BY <3>2 DEF ClearCacheFails
      <4>2. mokuro' \in {mokuro, [mokuro EXCEPT ![conv.only] = NoMokuro]}
        BY <3>2 DEF ClearCacheFails
      <4> QED BY <4>1, <4>2 DEF FilesType, Entries
    <3> QED BY <1>4, <3>1, <3>2
  <2>2. UNCHANGED <<images, changed>>
    BY <1>4 DEF ClearCache, ClearCacheFails
  <2>3. NoFileNoPages' /\ CachesMatch'
    BY <2>1, <2>2 DEF CacheInv, NoFileNoPages, CachesMatch, Exists, NoMokuro
  <2>4. InUse'
    BY <1>4 DEF InUse, ClearCache, ClearCacheFails, ChildType, Child
  <2> QED BY <2>3, <2>4 DEF CacheInv
<1>5. ASSUME NEW v \in Vols, ProcessVolume(v) PROVE CacheInv'
  <2>1. mokuro[v].pages \in SUBSET Pages /\ Entries(v) \in SUBSET Pages
    BY DEF FilesType, Mokuro, Entries
  <2>2. /\ cache'[v] \in {{}, Entries(v) \cup mokuro[v].pages} /\ cache'[v] # NoDir
        /\ \A w \in Vols \ {v} : cache'[w] = cache[w]
    BY <1>5, <2>1, PipelineAssumption DEF ProcessVolume, FilesType
  <2>3. NoFileNoPages'
    BY <1>5, <2>2 DEF CacheInv, NoFileNoPages, ProcessVolume, Exists
  <2>4. CachesMatch'
    BY <1>5, <2>2 DEF CacheInv, CachesMatch, ProcessVolume, Entries
  <2>5. InUse'
    BY <1>5, <2>2 DEF InUse, ProcessVolume, ChildType, Child
  <2> QED BY <2>3, <2>4, <2>5 DEF CacheInv
<1>6. CASE RecognizePages
  <2> DEFINE w == child.vol
  <2>1. w \in Vols /\ Entries(w) \cup images[w] \in SUBSET Pages
    BY <1>6 DEF RecognizePages, FilesType, ChildType, Entries
  <2>2. /\ cache'[w] = Entries(w) \cup images[w] /\ cache'[w] # NoDir
        /\ \A v \in Vols \ {w} : cache'[v] = cache[v]
    BY <1>6, <2>1, PipelineAssumption DEF RecognizePages, FilesType
  <2>3. child'.vol = w
    BY <1>6 DEF RecognizePages, ChildType, Child
  <2>4. NoFileNoPages'
    BY <1>6, <2>1, <2>2 DEF CacheInv, NoFileNoPages, RecognizePages, Exists
  <2>5. CachesMatch'
    BY <1>6, <2>1, <2>2 DEF CacheInv, CachesMatch, RecognizePages, Entries
  <2>6. InUse'
    BY <2>2, <2>3 DEF InUse
  <2> QED BY <2>4, <2>5, <2>6 DEF CacheInv
<1>7. CASE OpenMokuroFile \/ FillMokuroFile
  <2> DEFINE w == child.vol
  <2>1. w \in Vols /\ images[w] # {} /\ cache[w] # NoDir
    BY <1>7 DEF OpenMokuroFile, FillMokuroFile, ChildType, WorkedOn, CacheInv, InUse
  <2>2. clock + 1 # 0
    BY PipelineAssumption DEF FilesType, Time
  <2>3. /\ mokuro'[w].mtime # 0 /\ mokuro'[w].pages \subseteq Entries(w)
        /\ \A v \in Vols \ {w} : mokuro'[v] = mokuro[v]
    BY <1>7, <2>1, <2>2 DEF OpenMokuroFile, FillMokuroFile, FilesType
  <2>4. UNCHANGED <<images, cache, conv, changed>>
    BY <1>7 DEF OpenMokuroFile, FillMokuroFile
  <2>5. NoFileNoPages'
    BY <2>1, <2>3, <2>4 DEF CacheInv, NoFileNoPages, Exists
  <2>6. CachesMatch'
    BY <2>1, <2>3, <2>4 DEF CacheInv, CachesMatch, Entries
  <2>7. InUse'
    BY <1>7, <2>1, <2>4 DEF OpenMokuroFile, FillMokuroFile, InUse, ChildType, Child
  <2> QED BY <2>5, <2>6, <2>7 DEF CacheInv
<1>8. ASSUME NEW v \in Vols, NEW S \in SUBSET Pages, ChangePages(v, S) PROVE CacheInv'
  BY <1>8 DEF CacheInv, NoFileNoPages, CachesMatch, InUse, ChangePages, Exists
<1> QED
  BY <1>1, <1>2, <1>3, <1>4, <1>5, <1>6, <1>7, <1>8, ConvertLeavesCaches,
      MokuroLeavesCaches, CachesLeft DEF Next, ConvStep, ChildStep, Faults

\* What is said of the caches holds of a book that was just uploaded.
LEMMA CacheInit == Init => CacheInv
<1> SUFFICES ASSUME Init PROVE CacheInv
  OBVIOUS
<1>1. NoFileNoPages
  BY DEF Init, NoFileNoPages, NoMokuro
<1>2. CachesMatch
  BY DEF Init, CachesMatch, Entries, NoMokuro
<1>3. InUse
  BY DEF Init, InUse, NoChild
<1> QED BY <1>1, <1>2, <1>3 DEF CacheInv

\* The inductive invariant behind NoPhantomPage.
LEMMA CacheAlways == Spec => [](SourceInv /\ CacheInv)
<1>1. SourceInv /\ CacheInv /\ [Next]_vars => (SourceInv /\ CacheInv)'
  BY SourceStep, CacheStep
<1> QED BY SourceInit, CacheInit, <1>1, PTL DEF Spec

\* mokuro never meets a page in its cache that has no image, though earlier runs
\* died or failed at any step, a reconciliation among them: unless the user changed
\* pages, and no reconciliation since came through over every volume.
THEOREM NoPageWithoutImage == Spec => []NoPhantomPage
<1>1. SourceInv /\ CacheInv => NoPhantomPage
  <2> SUFFICES ASSUME SourceInv, CacheInv, child.pc = "write", ~changed
               PROVE  Entries(child.vol) \subseteq images[child.vol]
    BY DEF NoPhantomPage
  <2>2. child.vol \in Vols /\ images[child.vol] # {}
    BY DEF SourceInv, Safe, TypeInv, ChildType, WorkedOn
  <2> QED BY <2>2 DEF CacheInv, CachesMatch
<1> QED BY CacheAlways, <1>1, PTL

-----------------------------------------------------------------------------
(* What Convert notes as built.  Each write of a ".mokuro" file has a time *)
(* of its own, so a file whose time is the noted one has not been written  *)
(* since that time was taken, and it was read after it was taken.          *)

\* Before the poll, and on the way of a volume with a text layer, nothing is noted
\* but what the snapshot found.
Unpolled ==
    conv.pc \in {"idle", "pdfs", "raster", "gpu", "snapshot", "rmdir"} \/ conv.text =>
        \A v \in Vols : built[v] = leftover[v]

NotedTimes ==
    \A v \in Vols :
        /\ built[v] <= clock /\ mokuro[v].mtime <= clock
        /\ built[v] = 0 => built[v] = leftover[v]

\* The file in hand: its time, taken before what was read of it.
InHand ==
    /\ conv.pc = "parse" \/ (conv.pc \in {"create", "close"} /\ ~conv.text) =>
          /\ conv.mtime # 0 /\ conv.mtime <= clock
          /\ Exists(conv.vol) => conv.mtime <= mokuro[conv.vol].mtime
    /\ conv.pc \in {"create", "close"} /\ ~conv.text =>
          /\ conv.mtime <= conv.of /\ conv.of <= clock
          /\ Exists(conv.vol) => conv.of <= mokuro[conv.vol].mtime
          /\ built[conv.vol] = conv.mtime
    /\ conv.pc = "close" => epub[conv.vol].of = conv.of

Building(v) == conv.vol = v /\ conv.pc \in {"create", "close"}

UpToDate(v) == Built(v) /\ epub[v].of = mokuro[v].mtime

BuiltCurrent ==
    \A v \in Vols : built[v] = mokuro[v].mtime =>
        built[v] = leftover[v] \/ Building(v) \/ UpToDate(v) \/ conv.fail

BuiltInv == Unpolled /\ NotedTimes /\ InHand /\ BuiltCurrent

\* The times are natural numbers.
LEMMA Times ==
    ASSUME TypeInv
    PROVE  /\ clock \in Nat /\ conv.mtime \in Nat /\ conv.of \in Nat
           /\ \A v \in Vols : /\ built[v] \in Nat /\ leftover[v] \in Nat
                              /\ mokuro[v].mtime \in Nat
<1>1. Time \subseteq Nat
  BY PipelineAssumption DEF Time
<1> QED BY <1>1 DEF TypeInv, FilesType, ConvType, RestType, Conv, Mokuro

\* Steps before the poll, on a text layer, or at the end.
LEMMA UnpolledKeepsBuilt ==
    ASSUME \A v \in Vols : built'[v] = leftover'[v],
           \A v \in Vols : built'[v] <= clock' /\ mokuro'[v].mtime <= clock',
           conv'.pc # "parse", conv'.pc \in {"create", "close"} => conv'.text,
           conv'.pc = "close" => epub'[conv'.vol].of = conv'.of
    PROVE  BuiltInv'
BY DEF BuiltInv, Unpolled, NotedTimes, InHand, BuiltCurrent

\* Steps of mokuro: what they write is newer than all that is noted.
LEMMA WritesKeepBuilt ==
    ASSUME TypeInv, BuiltInv, UNCHANGED <<conv, built, leftover, epub>>,
           clock' = clock \/ clock' = clock + 1,
           \A v \in Vols : \/ mokuro'[v] = mokuro[v] \/ mokuro'[v].mtime = 0
                           \/ mokuro'[v].mtime = clock' /\ clock' = clock + 1
    PROVE  BuiltInv'
<1>1. clock <= clock' /\ clock' \in Nat
  BY Times
<1>2. Unpolled'
  BY DEF BuiltInv, Unpolled
<1>3. NotedTimes'
  BY <1>1, Times DEF BuiltInv, NotedTimes
<1>4. InHand'
  <2>1. conv.pc \in {"parse", "create", "close"} => conv.vol \in Vols
    BY DEF TypeInv, ConvType
  <2> QED BY <1>1, <2>1, Times DEF BuiltInv, InHand, Exists
<1>5. BuiltCurrent'
  <2> SUFFICES ASSUME NEW v \in Vols, built[v] = mokuro'[v].mtime, built[v] # leftover[v]
               PROVE  Building(v) \/ UpToDate(v)' \/ conv.fail
    BY DEF BuiltCurrent, Building
  <2>1. built[v] # 0 /\ built[v] <= clock
    BY DEF BuiltInv, NotedTimes
  <2>2. mokuro'[v] = mokuro[v]
    BY <2>1, Times
  <2> QED BY <2>2 DEF BuiltInv, BuiltCurrent, UpToDate, Built
<1> QED BY <1>2, <1>3, <1>4, <1>5 DEF BuiltInv

\* Steps of the poll that leave no file in hand.
LEMMA PollKeepsBuilt ==
    ASSUME BuiltInv, UNCHANGED <<mokuro, clock, built, leftover>>,
           conv'.pc \in {"pass", "poll", "return"}, ~conv'.text, BuiltCurrent'
    PROVE  BuiltInv'
BY DEF BuiltInv, Unpolled, NotedTimes, InHand

\* Every step keeps what is said of the noted times.
LEMMA BuiltStep == SourceInv /\ CacheInv /\ BuiltInv /\ [Next]_vars => BuiltInv'
<1> SUFFICES ASSUME SourceInv, CacheInv, BuiltInv, [Next]_vars PROVE BuiltInv'
  OBVIOUS
<1> USE DEF SourceInv, Safe, files
<1>a. TypeInv /\ conv \in Conv /\ (conv.pc \in {"parse", "create", "close"} => conv.vol \in Vols)
  BY DEF TypeInv, ConvType
<1>b. conv.pc \in {"idle", "pdfs", "raster", "gpu", "snapshot", "rmdir"} \/ conv.text =>
          \A v \in Vols : built[v] = leftover[v]
  BY DEF BuiltInv, Unpolled
<1>c. \A v \in Vols : built[v] <= clock /\ mokuro[v].mtime <= clock
  BY DEF BuiltInv, NotedTimes
<1>1. ASSUME NEW noCache \in BOOLEAN, NEW only \in Vols \cup {All},
             StartConvert(noCache, only)
      PROVE  BuiltInv'
  BY <1>b, <1>c, <1>1, StartTypes, UnpolledKeepsBuilt DEF StartConvert, Conv
<1>2. ASSUME NEW v \in Vols, Rasterize(v) PROVE BuiltInv'
  BY <1>a, <1>b, <1>c, <1>2, UnpolledKeepsBuilt DEF Rasterize, Conv
<1>3. CASE RemoveScanPDF
  BY <1>a, <1>b, <1>c, <1>3, UnpolledKeepsBuilt DEF RemoveScanPDF, Conv
<1>4. CASE RemoveTextPDF
  BY <1>a, <1>b, <1>c, <1>4, UnpolledKeepsBuilt DEF RemoveTextPDF, Conv
<1>5. CASE PageCountMismatch
  BY <1>a, <1>b, <1>c, <1>5, UnpolledKeepsBuilt DEF PageCountMismatch, Conv
<1>6. CASE RemoveFolder
  BY <1>a, <1>b, <1>c, <1>6, UnpolledKeepsBuilt DEF RemoveFolder, Conv
<1>7. CASE CheckInput
  <2>1. conv'.pc \in {"return", "gpu"}
    BY <1>a, <1>7 DEF CheckInput, Conv
  <2> QED BY <1>b, <1>c, <1>7, <2>1, UnpolledKeepsBuilt DEF CheckInput
<1>8. CASE ReconcileOCRCache \/ ReconcileFails
  <2>1. conv'.pc = "snapshot" /\ conv.pc = "gpu" /\ UNCHANGED <<built, leftover>>
    BY <1>a, <1>8 DEF ReconcileOCRCache, ReconcileFails, Conv
  <2>2. /\ clock' \in {clock, clock + 1}
        /\ \A v \in Vols : \/ mokuro'[v] = mokuro[v]
                           \/ mokuro'[v].mtime = clock + 1 /\ clock' = clock + 1
    <3>1. CASE UNCHANGED <<cache, mokuro, clock>>
      BY <3>1
    <3>2. CASE ~UNCHANGED <<cache, mokuro, clock>>
      BY <1>a, <1>8, <3>2, ReconcileLeaves DEF Reconciled
    <3> QED BY <3>1, <3>2
  <2>3. \A v \in Vols : built[v] = leftover[v]
    BY <1>b, <2>1
  <2>4. ASSUME NEW v \in Vols PROVE built[v] <= clock' /\ mokuro'[v].mtime <= clock'
    BY <1>a, <1>c, <2>2, Times
  <2> QED BY <2>1, <2>3, <2>4, UnpolledKeepsBuilt
<1>9. CASE Snapshot
  <2>1. \A v \in Vols : built'[v] = leftover'[v] /\ built'[v] = mokuro[v].mtime
    BY <1>9 DEF Snapshot, MTimes
  <2>2. conv'.pc = "poll" /\ UNCHANGED <<mokuro, clock>>
    BY <1>a, <1>9 DEF Snapshot, Conv
  <2> QED BY <1>c, <2>1, <2>2, UnpolledKeepsBuilt
<1>10. CASE Fails
  BY <1>a, <1>b, <1>c, <1>10, UnpolledKeepsBuilt DEF Fails, Conv
<1>11. CASE Return \/ Crash
  <2>1. Forgotten
    BY <1>11 DEF Return, Crash
  <2>2. /\ \A v \in Vols : built'[v] = 0 /\ leftover'[v] = 0
        /\ conv'.pc = "idle" /\ UNCHANGED <<mokuro, clock>>
    BY <2>1, StartTypes DEF Forgotten
  <2>3. 0 <= clock
    BY <1>a, Times
  <2> QED BY <1>c, <2>2, <2>3, UnpolledKeepsBuilt
<1>12. CASE Tick \/ MokuroDone \/ EndPass
  <2>1. /\ conv'.pc \in {"pass", "poll", "return"} /\ conv'.text = conv.text
        /\ conv'.fail = conv.fail /\ ~conv.text /\ conv.pc \in {"poll", "pass"}
    BY <1>a, <1>12 DEF Tick, MokuroDone, EndPass, Phases, Conv
  <2>2. UNCHANGED <<mokuro, epub, clock, built, leftover>>
    BY <1>12 DEF Tick, MokuroDone, EndPass
  <2>3. BuiltCurrent'
    BY <2>1, <2>2 DEF BuiltInv, BuiltCurrent, Building, UpToDate, Built
  <2> QED BY <2>1, <2>2, <2>3, PollKeepsBuilt
<1>13. ASSUME NEW v \in Vols, StatFile(v) PROVE BuiltInv'
  <2>1. /\ conv'.text = conv.text /\ conv'.fail = conv.fail /\ ~conv.text
        /\ conv.pc = "pass" /\ UNCHANGED <<mokuro, epub, clock, built, leftover>>
        /\ \/ conv'.pc = "pass"
           \/ /\ conv'.pc = "parse" /\ conv'.vol = v
              /\ conv'.mtime = mokuro[v].mtime /\ mokuro[v].mtime # 0
    BY <1>a, <1>13 DEF StatFile, Phases, Conv, Exists
  <2>2. BuiltCurrent'
    BY <2>1 DEF BuiltInv, BuiltCurrent, Building, UpToDate, Built
  <2>3. CASE conv'.pc = "pass"
    BY <2>1, <2>2, <2>3, PollKeepsBuilt
  <2>4. CASE conv'.pc = "parse"
    <3>1. InHand'
      BY <1>a, <1>c, <2>1, <2>4, Times DEF InHand, Exists
    <3> QED BY <2>1, <2>2, <2>4, <3>1 DEF BuiltInv, Unpolled, NotedTimes
  <2> QED BY <2>1, <2>3, <2>4
<1>14. CASE ParseMokuroFile
  <2> DEFINE v == conv.vol
  <2>1. v \in Vols /\ ~conv.text /\ conv.pc = "parse"
    BY <1>a, <1>14 DEF ParseMokuroFile, Phases
  <2>2. CASE Parses(v)
    <3>1. /\ conv'.pc = "create" /\ conv'.vol = v /\ conv'.text = conv.text
          /\ conv'.mtime = conv.mtime /\ conv'.of = mokuro[v].mtime
          /\ conv'.fail = conv.fail
      BY <1>a, <1>14, <2>2 DEF ParseMokuroFile, Conv
    <3>2. /\ built'[v] = conv.mtime
          /\ \A w \in Vols \ {v} : built'[w] = built[w]
          /\ UNCHANGED <<mokuro, epub, clock, leftover>>
      BY <1>14, <2>1, <2>2 DEF ParseMokuroFile, TypeInv, RestType
    <3>3. Exists(v) /\ conv.mtime # 0 /\ conv.mtime <= clock /\ conv.mtime <= mokuro[v].mtime
      BY <2>1, <2>2 DEF CacheInv, NoFileNoPages, Parses, BuiltInv, InHand
    <3>4. Unpolled'
      BY <2>1, <3>1 DEF Unpolled
    <3>5. NotedTimes'
      BY <3>2, <3>3 DEF BuiltInv, NotedTimes
    <3>6. InHand'
      BY <1>c, <2>1, <3>1, <3>2, <3>3, <1>a, Times DEF InHand, Exists
    <3>7. BuiltCurrent'
      BY <2>1, <3>1, <3>2 DEF BuiltInv, BuiltCurrent, Building, UpToDate, Built
    <3> QED BY <3>4, <3>5, <3>6, <3>7 DEF BuiltInv
  <2>3. CASE ~Parses(v)
    <3>1. /\ conv'.pc = "pass" /\ conv'.text = conv.text /\ conv'.fail = conv.fail
          /\ UNCHANGED <<mokuro, epub, clock, built, leftover>>
      BY <1>a, <1>14, <2>3, NextFileType DEF ParseMokuroFile, NextFile, Conv
    <3>2. BuiltCurrent'
      BY <2>1, <3>1 DEF BuiltInv, BuiltCurrent, Building, UpToDate, Built
    <3> QED BY <2>1, <3>1, <3>2, PollKeepsBuilt
  <2> QED BY <2>2, <2>3
<1>15. CASE CreateEpub
  <2> DEFINE v == conv.vol
  <2>1. v \in Vols /\ conv.pc = "create"
    BY <1>a, <1>15 DEF CreateEpub
  <2>2. /\ conv'.pc = "close" /\ conv'.vol = v /\ conv'.text = conv.text
        /\ conv'.mtime = conv.mtime /\ conv'.of = conv.of /\ conv'.fail = conv.fail
    BY <1>a, <1>15 DEF CreateEpub, Conv
  <2>3. /\ epub'[v].of = conv.of /\ \A w \in Vols \ {v} : epub'[w] = epub[w]
        /\ UNCHANGED <<mokuro, clock, built, leftover>>
    BY <1>15, <2>1 DEF CreateEpub, TypeInv, FilesType
  <2>4. Unpolled' /\ NotedTimes'
    BY <2>1, <2>2, <2>3 DEF BuiltInv, Unpolled, NotedTimes
  <2>5. InHand'
    BY <2>1, <2>2, <2>3 DEF BuiltInv, InHand, Exists
  <2>6. BuiltCurrent'
    BY <2>1, <2>2, <2>3 DEF BuiltInv, BuiltCurrent, Building, UpToDate, Built
  <2> QED BY <2>4, <2>5, <2>6 DEF BuiltInv
<1>16. CASE WriteEpub \/ CloseFails
  <2> DEFINE v == conv.vol
  <2>1. PICK state \in {"torn", "whole"} : BuildSucceeds(state)
    BY <1>16 DEF WriteEpub, CloseFails
  <2>2. v \in Vols /\ conv.pc = "close" /\ UNCHANGED <<mokuro, clock, built, leftover>>
    BY <1>a, <2>1 DEF BuildSucceeds
  <2>3. CASE conv.text
    BY <1>a, <1>b, <1>c, <2>1, <2>2, <2>3, UnpolledKeepsBuilt DEF BuildSucceeds, Conv
  <2>4. CASE ~conv.text
    <3>1. conv'.pc = "pass" /\ ~conv'.text /\ conv'.fail = conv.fail
      BY <1>a, <2>1, <2>4, NextFileType DEF BuildSucceeds, NextFile, Conv
    <3>2. /\ epub'[v].state = state /\ epub'[v].of = epub[v].of
          /\ \A w \in Vols \ {v} : epub'[w] = epub[w]
      BY <2>1, <2>2 DEF BuildSucceeds, TypeInv, FilesType, Epub
    <3>3. built[v] = mokuro[v].mtime => epub'[v].of = mokuro[v].mtime
      BY <1>a, <2>2, <2>4, <3>2, Times DEF BuiltInv, InHand, Exists
    <3>4. BuiltCurrent'
      BY <2>2, <3>1, <3>2, <3>3 DEF BuiltInv, BuiltCurrent, Building, UpToDate, Built
    <3> QED BY <2>2, <3>1, <3>4, PollKeepsBuilt
  <2> QED BY <2>3, <2>4
<1>17. CASE PageMissing \/ BuildFails
  <2>1. BuildError /\ UNCHANGED <<mokuro, epub, clock, built, leftover>>
    BY <1>17 DEF PageMissing, BuildFails, BuildError
  <2>2. CASE conv.text
    BY <1>a, <1>b, <1>c, <2>1, <2>2, UnpolledKeepsBuilt DEF BuildError, Conv
  <2>3. CASE ~conv.text
    <3>1. conv'.pc = "pass" /\ ~conv'.text /\ conv'.fail
      BY <1>a, <2>1, <2>3, NextFileType DEF BuildError, Conv
    <3>2. BuiltCurrent'
      BY <3>1 DEF BuiltCurrent
    <3> QED BY <2>1, <3>1, <3>2, PollKeepsBuilt
  <2> QED BY <2>2, <2>3
<1>18. CASE ClearCache \/ ClearCacheFails
  <2>1. \A v \in Vols : mokuro'[v] = mokuro[v] \/ mokuro'[v].mtime = 0
    BY <1>18, StartTypes DEF ClearCache, ClearCacheFails, TypeInv, FilesType
  <2> QED BY <1>a, <1>18, <2>1, WritesKeepBuilt DEF ClearCache, ClearCacheFails
<1>19. CASE OpenMokuroFile \/ FillMokuroFile
  <2>1. \A v \in Vols : mokuro'[v] = mokuro[v] \/ mokuro'[v].mtime = clock'
    BY <1>19 DEF OpenMokuroFile, FillMokuroFile, TypeInv, FilesType
  <2> QED BY <1>a, <1>19, <2>1, WritesKeepBuilt DEF OpenMokuroFile, FillMokuroFile
<1>20. CASE RecognizePages \/ MokuroEnds \/ PhantomPage \/ MokuroFails
  <2>1. UNCHANGED <<conv, built, leftover, epub, clock, mokuro>>
    BY <1>20 DEF RecognizePages, MokuroEnds, PhantomPage, MokuroFails, Retry
  <2> QED BY <1>a, <2>1, WritesKeepBuilt
<1>21. ASSUME NEW v \in Vols, SkipVolume(v) \/ ProcessVolume(v) PROVE BuiltInv'
  BY <1>a, <1>21, WritesKeepBuilt DEF SkipVolume, ProcessVolume
<1>22. CASE Cancel
  <2>1. CASE conv.pc = "gpu" /\ conv' = [conv EXCEPT !.pc = "return", !.err = TRUE]
    BY <1>a, <1>b, <1>c, <1>22, <2>1, UnpolledKeepsBuilt DEF Cancel, Conv
  <2>2. CASE UNCHANGED conv
    BY <1>a, <1>22, <2>2, WritesKeepBuilt DEF Cancel
  <2> QED BY <1>22, <2>1, <2>2 DEF Cancel
<1>23. ASSUME NEW v \in Vols, NEW S \in SUBSET Pages, ChangePages(v, S) PROVE BuiltInv'
  BY <1>a, <1>23, WritesKeepBuilt DEF ChangePages
<1>24. CASE UNCHANGED vars
  BY <1>a, <1>24, WritesKeepBuilt DEF vars
<1> QED
  BY <1>1, <1>2, <1>3, <1>4, <1>5, <1>6, <1>7, <1>8, <1>9, <1>10, <1>11, <1>12, <1>13,
      <1>14, <1>15, <1>16, <1>17, <1>18, <1>19, <1>20, <1>21, <1>22, <1>23, <1>24
      DEF Next, ConvStep, ChildStep, Faults

\* Nothing is noted of a book that was just uploaded.
LEMMA BuiltInit == Init => BuiltInv
<1> SUFFICES ASSUME Init PROVE BuiltInv
  OBVIOUS
<1>1. /\ \A v \in Vols : built[v] = 0 /\ leftover[v] = 0 /\ mokuro[v].mtime = 0
      /\ clock = 0 /\ conv.pc = "idle"
  BY StartTypes DEF Init
<1> QED BY <1>1 DEF BuiltInv, Unpolled, NotedTimes, InHand, BuiltCurrent

\* However the poll meets mokuro's writes, a volume noted as built has an EPUB
\* of the ".mokuro" file as it is now: a file that was written after its time was
\* taken is built again.
THEOREM NotedIsCurrent == Spec => []BuiltIsCurrent
<1>1. SourceInv /\ CacheInv /\ BuiltInv /\ [Next]_vars => (SourceInv /\ CacheInv /\ BuiltInv)'
  BY SourceStep, CacheStep, BuiltStep
<1>2. BuiltInv => BuiltIsCurrent
  BY DEF BuiltInv, BuiltCurrent, BuiltIsCurrent, Building, UpToDate
<1> QED BY SourceInit, CacheInit, BuiltInit, <1>1, <1>2, PTL DEF Spec

-----------------------------------------------------------------------------
(* What the last pass is left with.  A mokuro that exits without an error  *)
(* has come to every volume; the pass that follows sees a directory that   *)
(* nobody writes to any more.                                              *)

Processed ==
    /\ child.pc \in {"off", "clear"} => child.done = {}
    /\ ~changed =>
          /\ \A v \in child.done : Exists(v)
          /\ child.pc = "exit" \/ (conv.last /\ ~conv.err) =>
                \A v \in Vols : images[v] # {} => Exists(v)

LeftOut(v) == mokuro[v].mtime = leftover[v] \/ ~mokuro[v].whole

\* The volumes still to come in the last pass.
Awaited(v) ==
    \/ conv.pc \in {"pass", "parse", "create", "close"} /\ v \in conv.todo
    \/ conv.pc \in {"parse", "create", "close"} /\ v = conv.vol

LastPass ==
    conv.last /\ ~conv.fail =>
        /\ conv.pc \in {"create", "close"} => conv.of = mokuro[conv.vol].mtime
        /\ \A v \in Vols : Exists(v) => Awaited(v) \/ UpToDate(v) \/ LeftOut(v)

\* Convert returns without an error only after the last pass, or with no input.
ReturnAfter ==
    conv.pc = "return" =>
        conv.err \/ conv.last \/ changed \/ \A v \in Vols : images[v] = {}

CompleteInv == Processed /\ LastPass /\ ReturnAfter

\* Steps outside mokuro's run.
LEMMA OffKeepsComplete ==
    ASSUME child'.done = {}, child'.pc \in {"off", "clear"}, ~conv'.last, ReturnAfter'
    PROVE  CompleteInv'
BY DEF CompleteInv, Processed, LastPass

\* Steps of the poll.
LEMMA PollKeepsProcessed ==
    ASSUME Processed, UNCHANGED <<child, mokuro, images, changed>>,
           conv'.last = conv.last, conv'.err = conv.err
    PROVE  Processed'
BY DEF Processed, Exists

\* Steps of mokuro.
LEMMA MokuroKeepsComplete ==
    ASSUME SourceInv, child.pc # "off", UNCHANGED conv, Processed'
    PROVE  CompleteInv'
BY DEF SourceInv, Safe, Phases, CompleteInv, LastPass, ReturnAfter

\* Every step keeps what is said of the last pass.
LEMMA CompleteStep ==
    SourceInv /\ CacheInv /\ BuiltInv /\ CompleteInv /\ [Next]_vars => CompleteInv'
<1> SUFFICES ASSUME SourceInv, CacheInv, BuiltInv, CompleteInv, [Next]_vars
             PROVE  CompleteInv'
  OBVIOUS
<1> USE DEF SourceInv, Safe, files
<1>a. /\ TypeInv /\ conv \in Conv /\ child \in Child
      /\ conv.pc \in {"parse", "create", "close"} => conv.vol \in Vols
  BY DEF TypeInv, ConvType, ChildType
<1>b. /\ child.pc = "off" => child.done = {}
      /\ NoChild.done = {} /\ NoChild.pc = "off" /\ ~Idle.last
  BY DEF CompleteInv, Processed, NoChild, Idle
<1>c. /\ child.pc # "off" =>
            /\ conv.pc \in {"poll", "pass", "parse", "create", "close"}
            /\ ~conv.last /\ ~conv.text
      /\ conv.last => conv.pc \in {"pass", "parse", "create", "close", "return"} /\ ~conv.text
  BY DEF Phases
<1>1. ASSUME NEW noCache \in BOOLEAN, NEW only \in Vols \cup {All},
             StartConvert(noCache, only)
      PROVE  CompleteInv'
  <2>1. conv'.pc = "pdfs" /\ ~conv'.last
    BY <1>1, StartTypes, <1>b DEF StartConvert, Conv
  <2> QED BY <1>1, <1>b, <1>c, <2>1, OffKeepsComplete DEF StartConvert, ReturnAfter
<1>2. ASSUME NEW v \in Vols, Rasterize(v) PROVE CompleteInv'
  <2>1. conv'.pc = "raster" /\ conv'.last = conv.last
    BY <1>a, <1>2 DEF Rasterize, Conv
  <2> QED BY <1>2, <1>b, <1>c, <2>1, OffKeepsComplete DEF Rasterize, ReturnAfter
<1>3. CASE RemoveScanPDF \/ RemoveTextPDF \/ RemoveFolder
  <2>1. conv'.pc # "return" /\ conv'.last = conv.last /\ conv.pc \in {"raster", "rmdir"}
    BY <1>a, <1>3 DEF RemoveScanPDF, RemoveTextPDF, RemoveFolder, Conv
  <2>2. UNCHANGED child
    BY <1>3 DEF RemoveScanPDF, RemoveTextPDF, RemoveFolder
  <2> QED BY <1>b, <1>c, <2>1, <2>2, OffKeepsComplete DEF ReturnAfter
<1>4. CASE PageCountMismatch \/ Fails
  <2>1. conv'.err /\ conv'.last = conv.last /\ conv.pc \in {"pdfs", "raster", "create", "rmdir"}
        /\ (conv.pc = "create" => conv.text) /\ UNCHANGED child
    BY <1>a, <1>4 DEF PageCountMismatch, Fails, Conv
  <2> QED BY <1>b, <1>c, <2>1, OffKeepsComplete DEF ReturnAfter
<1>5. CASE CheckInput
  <2>1. /\ conv.pc = "pdfs" /\ conv'.last = conv.last /\ UNCHANGED <<child, images>>
        /\ conv'.pc = "return" => conv'.err \/ IsEmptyInput
    BY <1>a, <1>5 DEF CheckInput, Conv
  <2>2. ReturnAfter'
    BY <2>1 DEF ReturnAfter, IsEmptyInput
  <2> QED BY <1>b, <1>c, <2>1, <2>2, OffKeepsComplete
<1>6. CASE ReconcileOCRCache \/ ReconcileFails
  <2>1. /\ conv.pc = "gpu" /\ conv'.last = conv.last /\ UNCHANGED child
        /\ conv'.pc = "snapshot"
    BY <1>a, <1>6 DEF ReconcileOCRCache, ReconcileFails, Conv
  <2> QED BY <1>b, <1>c, <2>1, OffKeepsComplete DEF ReturnAfter
<1>7. CASE Snapshot
  <2>1. /\ conv.pc = "snapshot" /\ conv'.last = conv.last
        /\ conv'.pc = "poll" /\ child'.pc = "clear" /\ child'.done = {}
    BY <1>a, <1>7, <1>b, StartTypes DEF Snapshot, Conv, Child
  <2> QED BY <1>b, <1>c, <2>1, OffKeepsComplete DEF ReturnAfter
<1>8. CASE Return \/ Crash
  <2>1. conv' = Idle /\ child' = NoChild
    BY <1>8 DEF Return, Crash, Forgotten
  <2> QED BY <1>b, <2>1, StartTypes, OffKeepsComplete DEF ReturnAfter
<1>9. CASE Tick
  <2>1. /\ conv.pc = "poll" /\ conv'.last = conv.last /\ conv'.err = conv.err
        /\ conv'.pc = "pass" /\ UNCHANGED <<child, mokuro, images, changed>>
    BY <1>a, <1>9 DEF Tick, Conv
  <2>2. Processed'
    BY <2>1, PollKeepsProcessed DEF CompleteInv
  <2> QED BY <1>c, <2>1, <2>2 DEF CompleteInv, LastPass, ReturnAfter
<1>10. CASE MokuroDone
  <2>1. /\ conv.pc = "poll" /\ conv'.last /\ conv'.pc = "pass" /\ conv'.todo = Files
        /\ conv'.err = (child.pc = "failed") /\ child.pc \in {"exit", "failed"}
        /\ child' = NoChild /\ UNCHANGED <<mokuro, images, changed>>
    BY <1>a, <1>10 DEF MokuroDone, Conv
  <2>2. Processed'
    BY <1>b, <2>1 DEF CompleteInv, Processed, Exists
  <2>3. LastPass'
    BY <2>1 DEF LastPass, Awaited, Files, Exists
  <2> QED BY <2>1, <2>2, <2>3 DEF CompleteInv, ReturnAfter
<1>11. ASSUME NEW v \in Vols, StatFile(v) PROVE CompleteInv'
  <2>1. /\ conv.pc = "pass" /\ conv'.last = conv.last /\ conv'.err = conv.err
        /\ conv'.fail = conv.fail
        /\ UNCHANGED <<child, mokuro, images, changed, epub, leftover, built>>
        /\ \/ /\ conv'.pc = "pass" /\ conv'.todo = conv.todo \ {v}
              /\ ~Exists(v) \/ built[v] = mokuro[v].mtime
           \/ conv'.pc = "parse" /\ conv'.vol = v /\ conv'.todo = conv.todo
    BY <1>a, <1>11 DEF StatFile, Conv
  <2>2. Processed'
    BY <2>1, PollKeepsProcessed DEF CompleteInv
  <2>3. LastPass'
    <3> SUFFICES ASSUME conv.last, ~conv.fail, NEW w \in Vols, Exists(w)
                 PROVE  Awaited(w)' \/ UpToDate(w) \/ LeftOut(w)
      BY <2>1 DEF LastPass, UpToDate, Built, LeftOut, Exists
    <3>1. Awaited(w) \/ UpToDate(w) \/ LeftOut(w)
      BY DEF CompleteInv, LastPass
    <3>2. CASE w = v /\ built[v] = mokuro[v].mtime
      BY <2>1, <3>2 DEF BuiltInv, BuiltCurrent, Building, LeftOut
    <3>3. CASE ~(w = v /\ built[v] = mokuro[v].mtime)
      BY <2>1, <3>1, <3>3 DEF Awaited
    <3> QED BY <3>2, <3>3
  <2> QED BY <2>1, <2>2, <2>3 DEF CompleteInv, ReturnAfter
<1>12. CASE ParseMokuroFile
  <2>1. /\ conv.pc = "parse" /\ conv'.last = conv.last /\ conv'.err = conv.err
        /\ conv'.fail = conv.fail
        /\ UNCHANGED <<child, mokuro, images, changed, epub, leftover>>
        /\ \/ /\ conv'.pc = "create" /\ conv'.vol = conv.vol /\ conv'.todo = conv.todo
              /\ conv'.of = mokuro[conv.vol].mtime
           \/ /\ conv'.pc = "pass" /\ conv'.todo = conv.todo \ {conv.vol}
              /\ ~mokuro[conv.vol].whole
    <3>1. CASE Parses(conv.vol)
      BY <1>a, <1>12, <3>1 DEF ParseMokuroFile, Conv
    <3>2. CASE ~Parses(conv.vol)
      BY <1>a, <1>12, <3>2 DEF ParseMokuroFile, Parses, NextFile, Conv
    <3> QED BY <3>1, <3>2
  <2>2. Processed'
    BY <2>1, PollKeepsProcessed DEF CompleteInv
  <2>3. LastPass'
    BY <2>1 DEF CompleteInv, LastPass, Awaited, UpToDate, Built, LeftOut, Exists
  <2> QED BY <2>1, <2>2, <2>3 DEF CompleteInv, ReturnAfter
<1>13. CASE CreateEpub
  <2>1. /\ conv.pc = "create" /\ conv'.pc = "close" /\ conv'.last = conv.last
        /\ conv'.err = conv.err /\ conv'.fail = conv.fail /\ conv'.vol = conv.vol
        /\ conv'.of = conv.of /\ conv'.todo = conv.todo
        /\ UNCHANGED <<child, mokuro, images, changed, leftover>>
    BY <1>a, <1>13 DEF CreateEpub, Conv
  <2>2. \A w \in Vols \ {conv.vol} : epub'[w] = epub[w]
    BY <1>a, <1>13 DEF CreateEpub, TypeInv, FilesType
  <2>3. Processed'
    BY <2>1, PollKeepsProcessed DEF CompleteInv
  <2>4. LastPass'
    BY <2>1, <2>2 DEF CompleteInv, LastPass, Awaited, UpToDate, Built, LeftOut, Exists
  <2> QED BY <2>1, <2>3, <2>4 DEF CompleteInv, ReturnAfter
<1>14. CASE WriteEpub \/ CloseFails
  <2>1. PICK state \in {"torn", "whole"} : BuildSucceeds(state)
    BY <1>14 DEF WriteEpub, CloseFails
  <2>2. CASE conv.text
    <3>1. conv'.pc = "rmdir" /\ conv'.last = conv.last /\ UNCHANGED child
      BY <1>a, <2>1, <2>2 DEF BuildSucceeds, Conv
    <3> QED BY <1>b, <1>c, <2>2, <3>1, OffKeepsComplete DEF ReturnAfter
  <2>3. CASE ~conv.text
    <3>1. /\ conv.pc = "close" /\ conv'.pc = "pass" /\ conv'.last = conv.last
          /\ conv'.err = conv.err /\ conv'.fail = conv.fail
          /\ conv'.todo = conv.todo \ {conv.vol}
          /\ UNCHANGED <<child, mokuro, images, changed, leftover>>
      BY <1>a, <2>1, <2>3 DEF BuildSucceeds, NextFile, Conv
    <3>2. /\ epub'[conv.vol].state = state /\ epub'[conv.vol].of = epub[conv.vol].of
          /\ \A w \in Vols \ {conv.vol} : epub'[w] = epub[w]
      BY <1>a, <2>1 DEF BuildSucceeds, TypeInv, FilesType, Epub
    <3>3. epub[conv.vol].of = conv.of
      BY <3>1 DEF BuiltInv, InHand
    <3>4. Processed'
      BY <3>1, PollKeepsProcessed DEF CompleteInv
    <3>5. LastPass'
      <4> SUFFICES ASSUME conv.last, ~conv.fail, NEW w \in Vols, Exists(w)
                   PROVE  Awaited(w)' \/ UpToDate(w)' \/ LeftOut(w)
        BY <3>1 DEF LastPass, LeftOut, Exists
      <4>1. CASE w = conv.vol
        BY <3>1, <3>2, <3>3, <4>1 DEF CompleteInv, LastPass, UpToDate, Built
      <4>2. CASE w # conv.vol
        BY <3>1, <3>2, <4>2 DEF CompleteInv, LastPass, Awaited, UpToDate, Built
      <4> QED BY <4>1, <4>2
    <3> QED BY <3>1, <3>4, <3>5 DEF CompleteInv, ReturnAfter
  <2> QED BY <2>2, <2>3
<1>15. CASE PageMissing \/ BuildFails
  <2>1. BuildError /\ conv.pc \in {"create", "close"}
    BY <1>15 DEF PageMissing, BuildFails
  <2>2. CASE conv.text
    <3>1. conv'.err /\ conv'.last = conv.last /\ UNCHANGED child
      BY <1>a, <2>1, <2>2 DEF BuildError, Conv
    <3> QED BY <1>b, <1>c, <2>2, <3>1, OffKeepsComplete DEF ReturnAfter
  <2>3. CASE ~conv.text
    <3>1. /\ conv'.pc = "pass" /\ conv'.last = conv.last /\ conv'.err = conv.err /\ conv'.fail
          /\ UNCHANGED <<child, mokuro, images, changed>>
      BY <1>a, <2>1, <2>3 DEF BuildError, NextFile, Conv
    <3>2. Processed'
      BY <3>1, PollKeepsProcessed DEF CompleteInv
    <3> QED BY <3>1, <3>2 DEF CompleteInv, LastPass, ReturnAfter
  <2> QED BY <2>2, <2>3
<1>16. CASE EndPass
  <2>1. /\ conv.pc = "pass" /\ conv.todo = {} /\ conv'.last = conv.last
        /\ conv'.err = conv.err /\ conv'.fail = conv.fail
        /\ conv'.pc = IF conv.last THEN "return" ELSE "poll"
        /\ UNCHANGED <<child, mokuro, images, changed, epub, leftover>>
    BY <1>a, <1>16 DEF EndPass, Conv
  <2>2. Processed'
    BY <2>1, PollKeepsProcessed DEF CompleteInv
  <2>3. LastPass'
    BY <2>1 DEF CompleteInv, LastPass, Awaited, UpToDate, Built, LeftOut, Exists
  <2> QED BY <2>1, <2>2, <2>3 DEF CompleteInv, ReturnAfter
<1>17. CASE ClearCache \/ ClearCacheFails
  <2>1. child.pc = "clear" /\ child'.pc = "next" /\ child'.done = child.done /\ UNCHANGED conv
    BY <1>a, <1>17 DEF ClearCache, ClearCacheFails, Child
  <2>2. Processed'
    BY <1>c, <2>1 DEF CompleteInv, Processed
  <2> QED BY <2>1, <2>2, MokuroKeepsComplete
<1>18. CASE OpenMokuroFile \/ FillMokuroFile
  <2>1. /\ child.pc \in {"write", "fill"} /\ child'.pc \in {"next", "fill"} /\ child.vol \in Vols
        /\ child'.done \in {child.done, child.done \cup {child.vol}}
        /\ child'.done = child.done \/ mokuro'[child.vol].mtime = clock'
        /\ UNCHANGED <<conv, changed>>
    <3>1. child.vol \in Vols
      BY <1>18 DEF OpenMokuroFile, FillMokuroFile, TypeInv, ChildType
    <3>2. CASE OpenMokuroFile
      BY <1>a, <3>1, <3>2 DEF OpenMokuroFile, Child
    <3>3. CASE FillMokuroFile
      <4>1. mokuro'[child.vol].mtime = clock'
        BY <3>1, <3>3 DEF FillMokuroFile, TypeInv, FilesType
      <4> QED BY <1>a, <3>1, <3>3, <4>1 DEF FillMokuroFile, Child
    <3> QED BY <1>18, <3>2, <3>3
  <2>2. clock' # 0 /\ \A v \in Vols : mokuro'[v] = mokuro[v] \/ mokuro'[v].mtime = clock'
    <3>1. clock' = clock + 1 /\ clock \in Nat
      BY <1>a, <1>18, Times DEF OpenMokuroFile, FillMokuroFile
    <3>2. \A v \in Vols : mokuro'[v] = mokuro[v] \/ mokuro'[v].mtime = clock'
      BY <1>18 DEF OpenMokuroFile, FillMokuroFile, TypeInv, FilesType
    <3> QED BY <3>1, <3>2
  <2>3. Processed'
    BY <1>a, <1>c, <2>1, <2>2 DEF CompleteInv, Processed, Exists, Child
  <2> QED BY <2>1, <2>3, MokuroKeepsComplete
<1>19. CASE RecognizePages
  <2>1. child.pc = "ocr" /\ child'.pc = "write" /\ child'.done = child.done
        /\ UNCHANGED <<conv, changed, mokuro, images>>
    BY <1>a, <1>19 DEF RecognizePages, Child
  <2>2. Processed'
    BY <1>c, <2>1 DEF CompleteInv, Processed, Exists
  <2> QED BY <2>1, <2>2, MokuroKeepsComplete
<1>20. CASE MokuroEnds
  <2>1. child.pc = "next" /\ child'.pc = "exit" /\ child'.done = child.done
        /\ UNCHANGED <<conv, changed, mokuro, images>>
    BY <1>a, <1>20 DEF MokuroEnds, Child
  <2>2. Processed'
    BY <1>c, <1>20, <2>1 DEF CompleteInv, Processed, Exists, MokuroEnds
  <2> QED BY <2>1, <2>2, MokuroKeepsComplete
<1>21. ASSUME Retry, child.pc # "off" PROVE CompleteInv'
  <2>1. child'.done = {} /\ child'.pc \in {"next", "failed"} /\ UNCHANGED <<conv, changed>>
    BY <1>a, <1>b, <1>21, RetryType DEF Retry, NoChild
  <2>2. Processed'
    BY <1>c, <1>21, <2>1 DEF Processed
  <2> QED BY <1>21, <2>1, <2>2, MokuroKeepsComplete
<1>22. CASE PhantomPage
  <2>1. CASE Retry
    BY <1>21, <1>22, <2>1 DEF PhantomPage
  <2>2. CASE ~Retry
    <3>1. child.pc = "write" /\ child'.pc = "next" /\ UNCHANGED <<conv, changed>>
      BY <1>a, <1>22, <2>2 DEF PhantomPage, Child
    <3>2. changed
      <4>1. child.vol \in Vols /\ images[child.vol] # {}
        BY <3>1 DEF TypeInv, ChildType, WorkedOn
      <4> QED BY <1>22, <4>1 DEF CacheInv, CachesMatch, PhantomPage
    <3>3. Processed'
      BY <3>1, <3>2 DEF Processed
    <3> QED BY <3>1, <3>3, MokuroKeepsComplete
  <2> QED BY <2>1, <2>2
<1>23. CASE MokuroFails
  BY <1>21, <1>23 DEF MokuroFails, Running
<1>24. CASE Cancel
  <2>1. CASE conv.pc = "gpu" /\ conv' = [conv EXCEPT !.pc = "return", !.err = TRUE] /\ UNCHANGED child
    <3>1. conv'.err /\ conv'.last = conv.last
      BY <1>a, <2>1 DEF Conv
    <3> QED BY <1>b, <1>c, <2>1, <3>1, OffKeepsComplete DEF ReturnAfter
  <2>2. CASE Running /\ child' = [NoChild EXCEPT !.pc = "failed"] /\ UNCHANGED conv
    <3>1. child'.done = {} /\ child'.pc = "failed" /\ child.pc # "off"
      BY <1>b, <2>2, StartTypes DEF Running, Child
    <3>2. Processed'
      BY <1>c, <2>2, <3>1 DEF Processed
    <3> QED BY <2>2, <3>1, <3>2, MokuroKeepsComplete
  <2> QED BY <1>24, <2>1, <2>2 DEF Cancel
<1>25. ASSUME NEW v \in Vols, SkipVolume(v) PROVE CompleteInv'
  <2>1. /\ child.pc = "next" /\ child'.pc = "next" /\ child'.done = child.done \cup {v}
        /\ UNCHANGED <<conv, changed, mokuro, images>> /\ Exists(v)
    BY <1>a, <1>25 DEF SkipVolume, Child
  <2>2. Processed'
    BY <1>c, <2>1 DEF CompleteInv, Processed, Exists
  <2> QED BY <2>1, <2>2, MokuroKeepsComplete
<1>26. ASSUME NEW v \in Vols, ProcessVolume(v) PROVE CompleteInv'
  <2>1. /\ child.pc = "next" /\ child'.pc = "ocr" /\ child'.done = child.done
        /\ UNCHANGED <<conv, changed, mokuro, images>>
    BY <1>a, <1>26 DEF ProcessVolume, Child
  <2>2. Processed'
    BY <1>c, <2>1 DEF CompleteInv, Processed, Exists
  <2> QED BY <2>1, <2>2, MokuroKeepsComplete
<1>27. ASSUME NEW v \in Vols, NEW S \in SUBSET Pages, ChangePages(v, S) PROVE CompleteInv'
  <2>1. changed' /\ UNCHANGED <<conv, child, mokuro, epub, leftover>>
    BY <1>27 DEF ChangePages
  <2> QED BY <2>1 DEF CompleteInv, Processed, LastPass, ReturnAfter, Awaited, UpToDate,
        Built, LeftOut, Exists
<1>28. CASE UNCHANGED vars
  BY <1>28 DEF vars, CompleteInv, Processed, LastPass, ReturnAfter, Awaited, UpToDate,
      Built, LeftOut, Exists
<1> QED
  BY <1>1, <1>2, <1>3, <1>4, <1>5, <1>6, <1>7, <1>8, <1>9, <1>10, <1>11, <1>12, <1>13,
      <1>14, <1>15, <1>16, <1>17, <1>18, <1>19, <1>20, <1>22, <1>23, <1>24, <1>25, <1>26,
      <1>27, <1>28 DEF Next, ConvStep, ChildStep, Faults

\* Nothing is under way in a book that was just uploaded.
LEMMA CompleteInit == Init => CompleteInv
<1> SUFFICES ASSUME Init PROVE CompleteInv
  OBVIOUS
<1>1. child.done = {} /\ child.pc = "off" /\ conv.pc = "idle" /\ ~conv.last
  BY DEF Init, Idle, NoChild
<1> QED BY <1>1 DEF CompleteInv, Processed, LastPass, ReturnAfter

\* A conversion that reports success has an EPUB of every volume's ".mokuro"
\* file as it is now; it left out only a file it had found when it started, and
\* one that an attempt of mokuro died over.
THEOREM SuccessMeansComplete == Spec => []SuccessIsComplete
<1> DEFINE Inv == SourceInv /\ CacheInv /\ BuiltInv /\ CompleteInv
<1>1. Inv /\ [Next]_vars => Inv'
  BY SourceStep, CacheStep, BuiltStep, CompleteStep
<1>2. Init => Inv
  BY SourceInit, CacheInit, BuiltInit, CompleteInit
<1>3. Inv => SuccessIsComplete
  <2> SUFFICES ASSUME CompleteInv, conv.pc = "return", ~conv.err, ~conv.fail, ~changed,
                      NEW v \in Vols, images[v] # {}
               PROVE  UpToDate(v) \/ (Exists(v) /\ LeftOut(v))
    BY DEF SuccessIsComplete, UpToDate, Built, LeftOut
  <2>1. conv.last
    BY DEF CompleteInv, ReturnAfter
  <2>2. Exists(v)
    BY <2>1 DEF CompleteInv, Processed
  <2> QED BY <2>1, <2>2 DEF CompleteInv, LastPass, Awaited
<1> QED BY <1>1, <1>2, <1>3, PTL DEF Spec
=============================================================================
