------------------------- MODULE ReadingStateProofs -------------------------
(***************************************************************************)
(* For volumes of any length, any number of tabs, of saves and chapters    *)
(* under way and of replacements of the file, and whatever other clients   *)
(* save: progress goes with the volume, no reader's save undoes "read" of  *)
(* a manga but one of a user who moved, a volume opens on a page unless it *)
(* has become shorter, and marking a volume keeps its bookmark.            *)
(***************************************************************************)
EXTENDS ReadingState, TLAPS

\* A position that was in a file of len items lies in its spine, or is its start; and
\* if it says that a manga is read, it is that of the last page.
RowInv(row) ==
    /\ row \in Row
    /\ row.len \in 0 .. MaxLen => row.spine < row.len \/ row.spine = 0
    /\ row.read => row.len # 0
    /\ layout = "fixed" /\ row.read /\ row.len \in 0 .. MaxLen => row.spine + 1 >= row.len

\* A save of a tab that found a manga read, and has not left the page, says "read".
PutInv(p) ==
    /\ p \in Put /\ RowInv(p.row)
    /\ layout = "fixed" /\ p.found => p.row.read

\* Nothing is on the screen before the manifest and the row were fetched.
TabPhase(s) ==
    /\ s.at = "closed" => s = ClosedTab
    /\ s.at # "open" => ~s.timer /\ ~s.first /\ s.fetches = 0 /\ s.page = "none"

\* A tab has loaded a position of the row; where nothing is shown and nothing is on its
\* way there was no chapter to load.
TabPlace(s) ==
    /\ s.at = "loading" /\ s.of \in 0 .. MaxLen => s.spine < s.of \/ s.spine = 0
    /\ s.at = "open" /\ s.page = "none" /\ ~s.first /\ s.fetches = 0 =>
          s.len = 0 \/ s.len < s.of

\* A tab that found a manga read, and has not left the page, is on the last one.
TabFound(s) ==
    layout = "fixed" /\ s.found =>
        /\ s.at = "loading" => s.of # 0
        /\ s.at = "loading" /\ s.of \in 0 .. MaxLen => s.spine + 1 >= s.of
        /\ s.at = "open" => s.spine + 1 >= s.len

TabInv(s) == s \in Tab /\ TabPhase(s) /\ TabPlace(s) /\ TabFound(s)

\* A request that marks the volume has a length of a file; the bookmark it read is the
\* row's unless a save came between.
MarkingInv ==
    /\ marking \in Marking
    /\ marking.at \in {"bookmark", "write"} => marking.len \in 1 .. MaxLen
    /\ marking.at = "write" /\ present /\ ~marking.raced => marking.mark = progress.mark

VolumeInv ==
    /\ layout \in Layouts
    /\ spineLen \in 0 .. MaxLen
    /\ rebuilds \in 0 .. MaxRebuilds
    /\ present \in BOOLEAN
    /\ ~present => progress = NoRow

TabsInv == tab \in [Tabs -> Tab] /\ \A t \in Tabs : TabInv(tab[t])
PutsInv == \A p \in BagToSet(puts) : PutInv(p)

ReadingInv == VolumeInv /\ RowInv(progress) /\ TabsInv /\ PutsInv /\ MarkingInv
-----------------------------------------------------------------------------
(* Bags.                                                                   *)

\* A save that is sent is under way with the others.
LEMMA PutAdded ==
    ASSUME NEW B, NEW p
    PROVE  BagToSet(B (+) SetToBag({p})) = BagToSet(B) \cup {p}
BY DEF BagToSet, SetToBag, (+)

\* No save comes from one that arrives.
LEMMA PutTaken ==
    ASSUME NEW B, NEW p
    PROVE  BagToSet(B (-) SetToBag({p})) \subseteq BagToSet(B)
BY DEF BagToSet, SetToBag, (-)
-----------------------------------------------------------------------------
(* Rows.                                                                   *)

LEMMA Lengths ==
    /\ MaxLen \in Nat /\ MaxLen > 0 /\ Stray = MaxLen + 1 /\ Stray \notin 0 .. MaxLen
    /\ 0 .. MaxLen \subseteq 0 .. Stray /\ 0 \in 0 .. MaxLen /\ Stray \in 0 .. Stray
    /\ 1 .. MaxLen \subseteq 0 .. MaxLen /\ MaxFetches \in Nat /\ 0 \in 0 .. MaxFetches
BY ReadingAssumption DEF Stray

\* What is set to begin with.
LEMMA StartTypes ==
    /\ RowInv(NoRow) /\ TabInv(ClosedTab)
    /\ NotMarking \in Marking /\ NotMarking.at = "idle"
<1>1. RowInv(NoRow)
  BY Lengths DEF RowInv, NoRow, Row, Ends, Mark
<1>2. ClosedTab \in Tab
  BY Lengths DEF ClosedTab, Tab, Ends
<1>3. TabPhase(ClosedTab) /\ TabPlace(ClosedTab) /\ TabFound(ClosedTab)
  BY DEF ClosedTab, TabPhase, TabPlace, TabFound
<1>4. NotMarking \in Marking /\ NotMarking.at = "idle"
  BY Lengths DEF NotMarking, Marking, Mark
<1> QED BY <1>1, <1>2, <1>3, <1>4 DEF TabInv

\* A row of what a row has.
LEMMA RowType ==
    ASSUME NEW spine \in 0 .. MaxLen, NEW prog \in Ends, NEW read \in BOOLEAN,
           NEW mark \in Mark, NEW len \in 0 .. Stray
    PROVE  [spine |-> spine, prog |-> prog, read |-> read, mark |-> mark, len |-> len] \in Row
BY DEF Row

\* The position a request to mark the volume parks at.
LEMMA ParkedRow ==
    ASSUME ReadingInv, marking.at = "write",
           NEW row, row = [spine |-> Parked(marking.read, marking.len).spine,
                           prog |-> Parked(marking.read, marking.len).prog,
                           read |-> Parked(marking.read, marking.len).read,
                           mark |-> marking.mark, len |-> marking.len]
    PROVE  RowInv(row) /\ (row.read <=> marking.read) /\ row.mark = marking.mark
<1>1. marking \in Marking /\ marking.len \in 1 .. MaxLen
  BY DEF ReadingInv, MarkingInv
<1>2. marking.read \in BOOLEAN /\ marking.mark \in Mark /\ marking.len \in 0 .. Stray
  BY <1>1, Lengths DEF Marking
<1>3. CASE marking.read
  <2>1. row = [spine |-> marking.len - 1, prog |-> 1, read |-> TRUE, mark |-> marking.mark,
               len |-> marking.len]
    BY <1>2, <1>3 DEF Parked, LastOf
  <2>2. marking.len - 1 \in 0 .. MaxLen /\ 1 \in Ends
    BY <1>1, Lengths DEF Ends
  <2>3. row \in Row
    BY <1>2, <2>1, <2>2, RowType
  <2>4. /\ row.spine = marking.len - 1 /\ row.read /\ row.len = marking.len
        /\ row.mark = marking.mark
    BY <2>1
  <2>5. row.spine < row.len /\ row.len # 0 /\ row.spine + 1 >= row.len
    BY <1>1, Lengths, <2>4
  <2> QED BY <1>3, <2>3, <2>4, <2>5 DEF RowInv
<1>4. CASE ~marking.read
  <2>1. row = [spine |-> 0, prog |-> 0, read |-> FALSE, mark |-> marking.mark,
               len |-> marking.len]
    BY <1>2, <1>4 DEF Parked
  <2>2. row \in Row
    BY <1>2, <2>1, Lengths, RowType DEF Ends
  <2> QED BY <1>4, <2>1, <2>2 DEF RowInv
<1> QED BY <1>3, <1>4

\* A save of an open tab.
LEMMA SavedPut ==
    ASSUME VolumeInv, NEW t \in Tabs, NEW turning \in BOOLEAN, TabInv(tab[t]),
           tab[t].at = "open"
    PROVE  PutInv(Saved(t, turning))
<1> DEFINE s == tab[t]
           read == WholeRead(t)
           len == IF s.spine < s.len THEN s.len ELSE Stray
           row == [spine |-> s.spine, prog |-> s.prog, read |-> read, mark |-> NoMark,
                   len |-> len]
           found == s.found /\ ~(turning /\ layout = "text")
<1>1. /\ s \in Tab /\ s.spine \in 0 .. MaxLen /\ s.prog \in Ends /\ s.len \in 0 .. MaxLen
      /\ s.spine \in Int /\ s.len \in Int /\ s.found \in BOOLEAN
      /\ layout = "fixed" /\ s.found => s.spine + 1 >= s.len
  BY Lengths DEF TabInv, Tab, TabFound
<1>2. read \in BOOLEAN /\ found \in BOOLEAN
  <2>1. /\ (s.spine + 1 >= s.len) \in BOOLEAN /\ (s.spine + s.prog >= s.len) \in BOOLEAN
        /\ (s.spine + s.prog > 0) \in BOOLEAN
    OBVIOUS
  <2> QED BY <1>1, <2>1 DEF WholeRead
<1>3. layout = "fixed" => (read <=> s.spine + 1 >= s.len)
  BY DEF WholeRead
<1>4. len \in 0 .. Stray /\ (len \in 0 .. MaxLen => len = s.len /\ s.spine < len) /\ len # 0
  BY <1>1, Lengths
<1> HIDE DEF s, read, len, found
<1>5. row \in Row
  BY <1>1, <1>2, <1>4, RowType DEF Mark
<1>6. RowInv(row)
  BY <1>1, <1>3, <1>4, <1>5 DEF RowInv
<1>7. layout = "fixed" /\ found => read
  BY <1>1, <1>3 DEF found
<1>8. PutInv([row |-> row, found |-> found])
  BY <1>2, <1>5, <1>6, <1>7 DEF PutInv, Put
<1> QED BY <1>8 DEF Saved, s, read, len, found

\* A save that is sent.
LEMMA SaveSends ==
    ASSUME VolumeInv, NEW t \in Tabs, NEW turning \in BOOLEAN, TabInv(tab[t]),
           tab[t].at = "open", Save(t, turning)
    PROVE  \A p \in BagToSet(puts') : p \in BagToSet(puts) \/ PutInv(p)
<1>1. BagToSet(puts') = BagToSet(puts) \cup {Saved(t, turning)}
  BY PutAdded DEF Save
<1> QED BY <1>1, SavedPut
-----------------------------------------------------------------------------
(* Tabs.                                                                   *)

\* What loadChapter leaves of a tab.
Loaded(rec, index) ==
    IF index \in 0 .. LastOf(rec.len)
    THEN [rec EXCEPT !.spine = index, !.fetches = rec.fetches + 1,
                     !.found = rec.found /\ index = rec.spine]
    ELSE rec

LEMMA LoadedTab ==
    ASSUME NEW s, TabInv(s), s.at = "open", s.fetches < MaxFetches, NEW index
    PROVE  TabInv(Loaded(s, index))
<1>1. CASE index \in 0 .. LastOf(s.len)
  <2> DEFINE found == s.found /\ index = s.spine
             new == [s EXCEPT !.spine = index, !.fetches = s.fetches + 1, !.found = found]
  <2>1. s \in Tab /\ s.len \in 0 .. MaxLen /\ s.fetches \in Nat /\ s.found \in BOOLEAN
    BY Lengths DEF TabInv, Tab
  <2>2. index \in 0 .. MaxLen /\ s.fetches + 1 \in 0 .. MaxFetches /\ s.fetches + 1 # 0
    BY <1>1, <2>1, Lengths DEF LastOf
  <2>3. found \in BOOLEAN /\ (found => s.found /\ index = s.spine)
    BY <2>1
  <2>4. Loaded(s, index) = new
    BY <1>1 DEF Loaded
  <2> HIDE DEF found
  <2>5. /\ new \in Tab /\ new.at = "open" /\ new.len = s.len /\ new.spine = index
        /\ new.fetches # 0 /\ (new.found <=> found) /\ new.of = s.of
    BY <2>1, <2>2, <2>3 DEF Tab
  <2> HIDE DEF new
  <2>6. TabPhase(new) /\ TabPlace(new)
    BY <2>5 DEF TabPhase, TabPlace
  <2>7. TabFound(new)
    BY <2>3, <2>5 DEF TabFound, TabInv
  <2> QED BY <2>4, <2>5, <2>6, <2>7 DEF TabInv
<1>2. CASE ~(index \in 0 .. LastOf(s.len))
  BY <1>2 DEF Loaded
<1> QED BY <1>1, <1>2

\* A chapter arrives, or fails.
LEMMA MovedTab ==
    ASSUME NEW s, TabInv(s), s.at = "open", NEW page \in {"message", "shown"},
           NEW prog \in Ends, NEW first \in BOOLEAN, NEW to \in Ends,
           NEW fetches \in 0 .. MaxFetches,
           NEW rec, rec = [s EXCEPT !.first = first, !.to = to, !.fetches = fetches]
    PROVE  TabInv(Moved(rec, page, prog))
<1> DEFINE timer == rec.timer \/ prog # rec.prog
           new == [rec EXCEPT !.page = page, !.prog = prog, !.timer = timer]
<1>1. s \in Tab
  BY DEF TabInv
<1>2. /\ rec \in Tab /\ rec.at = "open" /\ rec.len = s.len /\ rec.spine = s.spine
      /\ rec.of = s.of /\ (rec.found <=> s.found)
  BY <1>1 DEF Tab
<1>3. timer \in BOOLEAN
  BY <1>2 DEF Tab
<1> HIDE DEF timer
<1>4. /\ new \in Tab /\ new.at = "open" /\ new.len = s.len /\ new.spine = s.spine
      /\ new.of = s.of /\ (new.found <=> s.found) /\ new.page # "none"
  BY <1>2, <1>3 DEF Tab
<1> HIDE DEF new
<1>5. TabPhase(new) /\ TabPlace(new)
  BY <1>4 DEF TabPhase, TabPlace
<1>6. TabFound(new)
  BY <1>4 DEF TabFound, TabInv
<1> QED BY <1>4, <1>5, <1>6 DEF TabInv, Moved, new, timer

\* The position and the timer of a page that is shown change; the user may have left
\* the position.
LEMMA ScrolledTab ==
    ASSUME NEW s, TabInv(s), s.at = "open", NEW prog \in Ends,
           NEW timer \in BOOLEAN, NEW found \in BOOLEAN, found => s.found,
           NEW new, new = [s EXCEPT !.prog = prog, !.timer = timer, !.found = found]
    PROVE  TabInv(new)
<1>1. s \in Tab
  BY DEF TabInv
<1>2. /\ new \in Tab /\ new.at = s.at /\ new.len = s.len /\ new.spine = s.spine
      /\ new.of = s.of /\ (new.found <=> found) /\ new.page = s.page
      /\ (new.first <=> s.first) /\ new.fetches = s.fetches
  BY <1>1 DEF Tab
<1>3. TabPhase(new) /\ TabPlace(new) /\ TabFound(new)
  BY <1>2 DEF TabInv, TabPhase, TabPlace, TabFound
<1> QED BY <1>2, <1>3 DEF TabInv
-----------------------------------------------------------------------------
(* Steps.                                                                  *)

\* A tab's step, and the saves it sends.
LEMMA TabStep ==
    ASSUME ReadingInv, NEW t \in Tabs, NEW s, TabInv(s), tab' = [tab EXCEPT ![t] = s],
           \A p \in BagToSet(puts') : p \in BagToSet(puts) \/ PutInv(p),
           UNCHANGED <<layout, spineLen, rebuilds, present, progress, marking>>
    PROVE  ReadingInv'
<1>1. VolumeInv' /\ RowInv(progress)' /\ MarkingInv'
  BY DEF ReadingInv, VolumeInv, RowInv, MarkingInv
<1>2. /\ tab' \in [Tabs -> Tab] /\ tab'[t] = s
      /\ \A q \in Tabs \ {t} : tab'[q] = tab[q]
  BY DEF ReadingInv, TabsInv, TabInv
<1>3. ASSUME NEW q \in Tabs PROVE TabInv(tab[q])'
  <2>1. TabInv(tab'[q])
    BY <1>2 DEF ReadingInv, TabsInv
  <2> QED BY <2>1 DEF TabInv, TabPhase, TabPlace, TabFound
<1>4. ASSUME NEW p \in BagToSet(puts') PROVE PutInv(p)'
  <2>1. PutInv(p)
    BY <1>4 DEF ReadingInv, PutsInv
  <2> QED BY <2>1 DEF PutInv, RowInv
<1> QED BY <1>1, <1>2, <1>3, <1>4 DEF ReadingInv, TabsInv, PutsInv

\* A tab's step of loadChapter.
LEMMA LoadStep ==
    ASSUME ReadingInv, NEW t \in Tabs, NEW index, tab[t].at = "open",
           LoadChapter(t, tab[t], index),
           \A p \in BagToSet(puts') : p \in BagToSet(puts) \/ PutInv(p),
           UNCHANGED <<layout, spineLen, rebuilds, present, progress, marking>>
    PROVE  ReadingInv'
<1>1. tab[t].fetches < MaxFetches /\ tab' = [tab EXCEPT ![t] = Loaded(tab[t], index)]
  BY DEF LoadChapter, Loaded
<1>2. TabInv(Loaded(tab[t], index))
  BY <1>1, LoadedTab DEF ReadingInv, TabsInv
<1> QED BY <1>1, <1>2, TabStep

\* A step of the server's, or of the file's.
LEMMA ServerStep ==
    ASSUME ReadingInv, RowInv(progress'), (~present)' => progress' = NoRow, present' \in BOOLEAN,
           BagToSet(puts') \subseteq BagToSet(puts), MarkingInv',
           spineLen' \in 0 .. MaxLen, rebuilds' \in 0 .. MaxRebuilds, UNCHANGED <<layout, tab>>
    PROVE  ReadingInv'
<1>1. VolumeInv' /\ RowInv(progress)'
  BY DEF ReadingInv, VolumeInv, RowInv
<1>2. TabsInv'
  BY DEF ReadingInv, TabsInv, TabInv, TabPhase, TabPlace, TabFound
<1>3. ASSUME NEW p \in BagToSet(puts') PROVE PutInv(p)'
  BY <1>3 DEF ReadingInv, PutsInv, PutInv, RowInv
<1> QED BY <1>1, <1>2, <1>3 DEF ReadingInv, PutsInv

\* Every step keeps the invariant.
LEMMA ReadingStep == ReadingInv /\ [Next]_vars => ReadingInv'
<1> SUFFICES ASSUME ReadingInv, [Next]_vars PROVE ReadingInv'
  OBVIOUS
<1>a. /\ VolumeInv /\ RowInv(progress) /\ MarkingInv
      /\ \A t \in Tabs : TabInv(tab[t])
  BY DEF ReadingInv, TabsInv
<1>b. /\ RowInv(NoRow) /\ TabInv(ClosedTab) /\ NotMarking \in Marking
      /\ NotMarking.at = "idle" /\ present \in BOOLEAN
  BY <1>a, StartTypes DEF VolumeInv
<1>1. ASSUME NEW read \in BOOLEAN, MarkRead(read) PROVE ReadingInv'
  <2> DEFINE new == [NotMarking EXCEPT !.at = "file", !.read = read]
  <2>1. new \in Marking /\ new.at = "file"
    BY <1>b DEF Marking
  <2>2. /\ marking' = new
        /\ UNCHANGED <<layout, spineLen, rebuilds, present, progress, tab, puts>>
    BY <1>1 DEF MarkRead
  <2> HIDE DEF new
  <2>3. MarkingInv'
    BY <2>1, <2>2 DEF MarkingInv
  <2> QED BY <1>a, <2>2, <2>3, ServerStep DEF VolumeInv
<1>2. CASE MarkReadsFile
  <2> DEFINE len == IF spineLen = 0 THEN 1 ELSE spineLen
             new == [marking EXCEPT !.at = "bookmark", !.len = len]
  <2>1. len \in 1 .. MaxLen /\ len \in 0 .. MaxLen
    BY <1>a, Lengths DEF VolumeInv
  <2>2. /\ marking' \in {new, NotMarking}
        /\ UNCHANGED <<layout, spineLen, rebuilds, present, progress, tab, puts>>
    BY <1>2 DEF MarkReadsFile
  <2> HIDE DEF len
  <2>3. new \in Marking /\ new.at = "bookmark" /\ new.len = len
    BY <1>a, <2>1 DEF MarkingInv, Marking
  <2> HIDE DEF new
  <2>4. MarkingInv'
    BY <1>b, <2>1, <2>2, <2>3 DEF MarkingInv
  <2> QED BY <1>a, <2>2, <2>4, ServerStep DEF VolumeInv
<1>3. CASE MarkReadsBookmark
  <2> DEFINE new == [marking EXCEPT !.at = "write", !.mark = progress.mark]
  <2>1. /\ new \in Marking /\ new.at = "write" /\ new.len = marking.len
        /\ new.mark = progress.mark
    BY <1>a DEF MarkingInv, Marking, RowInv, Row
  <2>2. /\ marking' = new /\ marking.at = "bookmark"
        /\ UNCHANGED <<layout, spineLen, rebuilds, present, progress, tab, puts>>
    BY <1>3 DEF MarkReadsBookmark
  <2> HIDE DEF new
  <2>3. MarkingInv'
    BY <1>a, <2>1, <2>2 DEF MarkingInv
  <2> QED BY <1>a, <2>2, <2>3, ServerStep DEF VolumeInv
<1>4. CASE MarkWrites
  <2> DEFINE row == [spine |-> Parked(marking.read, marking.len).spine,
                     prog |-> Parked(marking.read, marking.len).prog,
                     read |-> Parked(marking.read, marking.len).read,
                     mark |-> marking.mark, len |-> marking.len]
  <2>1. /\ marking.at = "write" /\ marking' = NotMarking
        /\ progress' = (IF present THEN row ELSE progress)
        /\ UNCHANGED <<layout, spineLen, rebuilds, present, tab, puts>>
    BY <1>4 DEF MarkWrites, UpsertProgress
  <2>2. RowInv(row)
    BY <2>1, ParkedRow
  <2> HIDE DEF row
  <2>3. MarkingInv'
    BY <1>b, <2>1 DEF MarkingInv
  <2> QED BY <1>a, <1>b, <2>1, <2>2, <2>3, ServerStep DEF VolumeInv
<1>5. ASSUME NEW p \in BagToSet(puts), PutProgress(p) PROVE ReadingInv'
  <2> DEFINE new == [marking EXCEPT !.raced = marking.at = "write"]
  <2>1. /\ new \in Marking /\ new.at = marking.at /\ new.len = marking.len
        /\ new.at = "write" => new.raced
    BY <1>a DEF MarkingInv, Marking
  <2>2. /\ marking' = new /\ progress' = (IF present THEN p.row ELSE progress)
        /\ puts' = puts (-) SetToBag({p})
        /\ UNCHANGED <<layout, spineLen, rebuilds, present, tab>>
    BY <1>5 DEF PutProgress, UpsertProgress
  <2> HIDE DEF new
  <2>3. MarkingInv'
    BY <1>a, <2>1, <2>2 DEF MarkingInv
  <2>4. RowInv(p.row)
    BY <1>5 DEF ReadingInv, PutsInv, PutInv
  <2>5. BagToSet(puts') \subseteq BagToSet(puts)
    BY <2>2, PutTaken
  <2> QED BY <1>a, <1>b, <2>2, <2>3, <2>4, <2>5, ServerStep DEF VolumeInv
<1>6. ASSUME NEW p \in BagToSet(puts), LosePut(p) PROVE ReadingInv'
  <2>1. /\ puts' = puts (-) SetToBag({p})
        /\ UNCHANGED <<layout, spineLen, rebuilds, present, progress, tab, marking>>
    BY <1>6 DEF LosePut
  <2>2. BagToSet(puts') \subseteq BagToSet(puts)
    BY <2>1, PutTaken
  <2>3. MarkingInv'
    BY <1>a, <2>1 DEF MarkingInv
  <2> QED BY <1>a, <1>b, <2>1, <2>2, <2>3, ServerStep DEF VolumeInv
<1>7. ASSUME NEW r \in ClientRows, ClientPut(r) PROVE ReadingInv'
  <2> DEFINE row == [spine |-> r.spine, prog |-> r.prog, read |-> r.read, mark |-> r.mark,
                     len |-> Stray]
             new == [marking EXCEPT !.raced = marking.at = "write"]
  <2>1. /\ r.spine \in 0 .. MaxLen /\ r.prog \in Ends /\ r.read \in BOOLEAN /\ r.mark \in Mark
    BY ReadingAssumption DEF Ends, Mark
  <2>2. row \in Row
    BY <2>1, Lengths, RowType
  <2>3. RowInv(row)
    BY <2>2, Lengths DEF RowInv
  <2>4. /\ new \in Marking /\ new.at = marking.at /\ new.len = marking.len
        /\ new.at = "write" => new.raced
    BY <1>a DEF MarkingInv, Marking
  <2>5. /\ marking' = new /\ progress' = (IF present THEN row ELSE progress)
        /\ UNCHANGED <<layout, spineLen, rebuilds, present, tab, puts>>
    BY <1>7 DEF ClientPut, UpsertProgress
  <2> HIDE DEF row, new
  <2>6. MarkingInv'
    BY <1>a, <2>4, <2>5 DEF MarkingInv
  <2> QED BY <1>a, <1>b, <2>3, <2>5, <2>6, ServerStep DEF VolumeInv
<1>8. ASSUME NEW t \in Tabs, OpenReader(t) PROVE ReadingInv'
  <2> DEFINE new == [ClosedTab EXCEPT !.at = "loading"]
  <2>1. TabInv(new)
    BY <1>b DEF TabInv, ClosedTab, Tab, TabPhase, TabPlace, TabFound
  <2>2. /\ tab' = [tab EXCEPT ![t] = new]
        /\ UNCHANGED <<layout, spineLen, rebuilds, present, progress, puts, marking>>
    BY <1>8 DEF OpenReader
  <2> HIDE DEF new
  <2> QED BY <2>1, <2>2, TabStep
<1>9. ASSUME NEW t \in Tabs, FetchManifest(t) PROVE ReadingInv'
  <2> DEFINE s == tab[t]
             new == [s EXCEPT !.gotLen = TRUE, !.len = spineLen]
  <2>1. TabInv(s) /\ s.at = "loading"
    BY <1>a, <1>9 DEF FetchManifest
  <2>2. /\ tab' \in {[tab EXCEPT ![t] = new], [tab EXCEPT ![t] = ClosedTab]}
        /\ UNCHANGED <<layout, spineLen, rebuilds, present, progress, puts, marking>>
    BY <1>9 DEF FetchManifest, ReadingInv, TabsInv
  <2> HIDE DEF s
  <2>3. /\ new \in Tab /\ new.at = "loading" /\ new.of = s.of /\ new.spine = s.spine
        /\ (new.timer <=> s.timer) /\ (new.found <=> s.found) /\ new.page = s.page
        /\ (new.first <=> s.first) /\ new.fetches = s.fetches
    BY <1>a, <2>1 DEF VolumeInv, TabInv, Tab
  <2> HIDE DEF new
  <2>4. TabInv(new)
    BY <2>1, <2>3 DEF TabInv, TabPhase, TabPlace, TabFound
  <2>5. CASE tab' = [tab EXCEPT ![t] = new]
    BY <2>2, <2>4, <2>5, TabStep
  <2>6. CASE tab' = [tab EXCEPT ![t] = ClosedTab]
    BY <1>b, <2>2, <2>6, TabStep
  <2> QED BY <2>2, <2>5, <2>6
<1>10. ASSUME NEW t \in Tabs, FetchProgress(t) PROVE ReadingInv'
  <2> DEFINE s == tab[t]
             to == IF layout = "text" THEN progress.prog ELSE 0
             new == [s EXCEPT !.gotRow = TRUE, !.spine = progress.spine, !.to = to,
                              !.found = progress.read, !.of = progress.len]
  <2>1. TabInv(s) /\ s.at = "loading" /\ progress \in Row /\ to \in Ends
    BY <1>a, <1>10 DEF FetchProgress, RowInv, Row, Ends
  <2>2. /\ tab' = [tab EXCEPT ![t] = new]
        /\ UNCHANGED <<layout, spineLen, rebuilds, present, progress, puts, marking>>
    BY <1>10 DEF FetchProgress, ReadingInv, TabsInv
  <2> HIDE DEF s, to
  <2>3. /\ new \in Tab /\ new.at = "loading" /\ new.of = progress.len
        /\ new.spine = progress.spine /\ (new.found <=> progress.read)
        /\ (new.timer <=> s.timer) /\ new.page = s.page
        /\ (new.first <=> s.first) /\ new.fetches = s.fetches
    BY <2>1 DEF TabInv, Tab, Row
  <2> HIDE DEF new
  <2>4. TabInv(new)
    BY <1>a, <2>1, <2>3 DEF TabInv, TabPhase, TabPlace, TabFound, RowInv
  <2> QED BY <2>2, <2>4, TabStep
<1>11. ASSUME NEW t \in Tabs, LoadFirst(t) PROVE ReadingInv'
  <2> DEFINE s == tab[t]
             first == s.spine < s.len
             found == s.found /\ s.of = s.len
             of == IF first THEN 0 ELSE s.of
             new == [s EXCEPT !.at = "open", !.first = first, !.found = found, !.of = of]
  <2>1. TabInv(s) /\ s.at = "loading" /\ s \in Tab
    BY <1>a, <1>11 DEF LoadFirst, TabInv
  <2>2. /\ tab' = [tab EXCEPT ![t] = new]
        /\ UNCHANGED <<layout, spineLen, rebuilds, present, progress, puts, marking>>
    BY <1>11 DEF LoadFirst, ReadingInv, TabsInv
  <2>3. /\ first \in BOOLEAN /\ found \in BOOLEAN /\ (found => s.found /\ s.of = s.len)
        /\ s.spine \in 0 .. MaxLen /\ s.len \in 0 .. MaxLen /\ s.of \in 0 .. Stray
        /\ of \in 0 .. Stray /\ (~first => of = s.of)
    BY <2>1, Lengths DEF Tab
  <2>4. ~first => s.len <= s.spine
    BY <2>3, Lengths
  <2> HIDE DEF s, first, found, of
  <2>5. /\ new \in Tab /\ new.at = "open" /\ (~first => new.of = s.of) /\ new.spine = s.spine
        /\ new.len = s.len /\ (new.found <=> found) /\ (new.first <=> first)
    BY <2>1, <2>3 DEF Tab
  <2> HIDE DEF new
  <2>6. TabPhase(new)
    BY <2>5 DEF TabPhase
  <2>7. ~first => s.len = 0 \/ s.len < s.of
    BY <2>1, <2>3, <2>4, Lengths DEF TabInv, TabPlace
  <2>8. TabPlace(new)
    BY <2>5, <2>7 DEF TabPlace
  <2>9. TabFound(new)
    BY <2>1, <2>3, <2>5 DEF TabInv, TabFound
  <2> QED BY <2>2, <2>5, <2>6, <2>8, <2>9, TabStep DEF TabInv
<1>12. ASSUME NEW t \in Tabs, ShowFirst(t) \/ ShowChapter(t) \/ ChapterFails(t)
       PROVE  ReadingInv'
  <2> DEFINE s == tab[t]
  <2>1. TabInv(s) /\ s \in Tab /\ (s.first \/ s.fetches > 0)
    BY <1>a, <1>12 DEF ShowFirst, ShowChapter, ChapterFails, TabInv
  <2>2. s.at = "open"
    BY <2>1 DEF TabInv, TabPhase
  <2>3. UNCHANGED <<layout, spineLen, rebuilds, present, progress, puts, marking>>
    BY <1>12 DEF ShowFirst, ShowChapter, ChapterFails
  <2>4. PICK page \in {"message", "shown"}, prog \in Ends, first \in BOOLEAN, to \in Ends,
             fetches \in 0 .. MaxFetches :
           tab' = [tab EXCEPT ![t] = Moved([s EXCEPT !.first = first, !.to = to,
                                                     !.fetches = fetches], page, prog)]
    <3>1. /\ 0 \in Ends /\ s.to \in Ends /\ s.fetches \in 0 .. MaxFetches /\ s.first \in BOOLEAN
          /\ s.fetches \in Nat /\ (s.fetches > 0 => s.fetches - 1 \in 0 .. MaxFetches)
      BY <2>1, Lengths DEF Tab, Ends
    <3>2. /\ [s EXCEPT !.first = FALSE, !.to = 0] =
                 [s EXCEPT !.first = FALSE, !.to = 0, !.fetches = s.fetches]
          /\ [s EXCEPT !.fetches = s.fetches - 1] =
                 [s EXCEPT !.first = s.first, !.to = s.to, !.fetches = s.fetches - 1]
      BY <2>1 DEF Tab
    <3>3. tab \in [Tabs -> Tab]
      BY DEF ReadingInv, TabsInv
    <3>4. CASE ShowFirst(t)
      <4>1. PICK prog \in {0, s.to} :
               tab' = [tab EXCEPT ![t] = Moved([s EXCEPT !.first = FALSE, !.to = 0], "shown", prog)]
        BY <3>3, <3>4 DEF ShowFirst
      <4> QED BY <3>1, <3>2, <4>1
    <3>5. CASE ShowChapter(t)
      <4>1. tab' = [tab EXCEPT ![t] = Moved([s EXCEPT !.fetches = s.fetches - 1], "shown", 0)]
        BY <3>3, <3>5 DEF ShowChapter
      <4>2. s.fetches - 1 \in 0 .. MaxFetches
        BY <3>1, <3>5 DEF ShowChapter
      <4>3. tab' = [tab EXCEPT ![t] = Moved([s EXCEPT !.first = s.first, !.to = s.to,
                                                      !.fetches = s.fetches - 1], "shown", 0)]
        BY <3>2, <4>1
      <4> QED BY <3>1, <4>2, <4>3
    <3>6. CASE ChapterFails(t)
      <4>1. CASE tab' = [tab EXCEPT ![t] = Moved([s EXCEPT !.first = FALSE, !.to = 0], "message", 0)]
        BY <3>1, <3>2, <4>1
      <4>2. CASE /\ s.fetches > 0
                 /\ tab' = [tab EXCEPT ![t] = Moved([s EXCEPT !.fetches = s.fetches - 1], "message", 0)]
        BY <3>1, <3>2, <4>2
      <4> QED BY <3>3, <3>6, <4>1, <4>2 DEF ChapterFails
    <3> QED BY <1>12, <3>4, <3>5, <3>6
  <2> DEFINE new == Moved([s EXCEPT !.first = first, !.to = to, !.fetches = fetches], page, prog)
  <2> HIDE DEF s
  <2>5. TabInv(new)
    BY <2>1, <2>2, MovedTab
  <2> HIDE DEF new
  <2> QED BY <2>3, <2>4, <2>5, TabStep DEF new
<1>13. ASSUME NEW t \in Tabs, Scroll(t) \/ Reflow(t) \/ TimerFires(t) PROVE ReadingInv'
  <2> DEFINE s == tab[t]
  <2>1. TabInv(s) /\ s \in Tab /\ (s.page # "none" \/ s.timer)
    BY <1>a, <1>13 DEF Scroll, Reflow, TimerFires, TabInv
  <2>2. s.at = "open"
    BY <2>1 DEF TabInv, TabPhase
  <2>3. UNCHANGED <<layout, spineLen, rebuilds, present, progress, marking>>
    BY <1>13 DEF Scroll, Reflow, TimerFires
  <2>4. tab \in [Tabs -> Tab] /\ 0 \in Ends /\ s.found \in BOOLEAN /\ s.timer \in BOOLEAN
        /\ s.prog \in Ends
    BY <2>1 DEF ReadingInv, TabsInv, Tab, Ends
  <2>5. CASE Scroll(t)
    <3>1. PICK end \in Ends :
             tab' = [tab EXCEPT ![t].timer = TRUE,
                                ![t].prog = IF layout = "text" THEN end ELSE 0,
                                ![t].found = @ /\ layout = "fixed"]
      BY <2>5 DEF Scroll
    <3> DEFINE prog == IF layout = "text" THEN end ELSE 0
               found == s.found /\ layout = "fixed"
               new == [s EXCEPT !.prog = prog, !.timer = TRUE, !.found = found]
    <3>2. prog \in Ends /\ found \in BOOLEAN /\ (found => s.found)
      BY <2>4
    <3>3. tab' = [tab EXCEPT ![t] = new]
      BY <2>4, <3>1
    <3>4. TabInv(new) /\ puts' = puts
      <4> HIDE DEF s, prog, found
      <4> QED BY <2>1, <2>2, <2>5, <3>2, ScrolledTab DEF Scroll, s
    <3> HIDE DEF new
    <3> QED BY <2>3, <3>3, <3>4, TabStep
  <2>6. CASE Reflow(t)
    <3>1. PICK end \in Ends, scrolls \in BOOLEAN :
             tab' = [tab EXCEPT ![t].prog = end, ![t].timer = @ \/ scrolls]
      BY <2>6 DEF Reflow
    <3> DEFINE timer == s.timer \/ scrolls
               new == [s EXCEPT !.prog = end, !.timer = timer, !.found = s.found]
    <3>2. timer \in BOOLEAN
      BY <2>4
    <3>3. tab' = [tab EXCEPT ![t] = new]
      <4>1. tab' = [tab EXCEPT ![t] = [s EXCEPT !.prog = end, !.timer = timer]]
        BY <2>4, <3>1
      <4>2. [s EXCEPT !.prog = end, !.timer = timer] = new
        BY <2>1 DEF Tab
      <4> QED BY <4>1, <4>2
    <3>4. TabInv(new) /\ puts' = puts
      <4> HIDE DEF s, timer
      <4> QED BY <2>1, <2>2, <2>4, <2>6, <3>2, ScrolledTab DEF Reflow, s
    <3> HIDE DEF new
    <3> QED BY <2>3, <3>3, <3>4, TabStep
  <2>7. CASE TimerFires(t)
    <3> DEFINE new == [s EXCEPT !.prog = s.prog, !.timer = FALSE, !.found = s.found]
    <3>1. tab' = [tab EXCEPT ![t] = new]
      <4>1. tab' = [tab EXCEPT ![t] = [s EXCEPT !.timer = FALSE]]
        BY <2>4, <2>7 DEF TimerFires
      <4>2. [s EXCEPT !.timer = FALSE] = new
        BY <2>1 DEF Tab
      <4> QED BY <4>1, <4>2
    <3>2. TabInv(new)
      <4> HIDE DEF s
      <4> QED BY <2>1, <2>2, <2>4, ScrolledTab
    <3>3. \A p \in BagToSet(puts') : p \in BagToSet(puts) \/ PutInv(p)
      BY <1>a, <2>1, <2>2, <2>7, SaveSends DEF TimerFires
    <3> HIDE DEF new
    <3> QED BY <2>3, <3>1, <3>2, <3>3, TabStep
  <2> QED BY <1>13, <2>5, <2>6, <2>7
<1>14. ASSUME NEW t \in Tabs, NEW step \in Steps, GoNext(t, step) \/ GoPrev(t, step)
       PROVE  ReadingInv'
  <2>1. tab[t].at = "open" /\ Save(t, TRUE)
    BY <1>14 DEF GoNext, GoPrev
  <2>2. \A p \in BagToSet(puts') : p \in BagToSet(puts) \/ PutInv(p)
    BY <1>a, <2>1, SaveSends
  <2>3. /\ \E index : LoadChapter(t, tab[t], index)
        /\ UNCHANGED <<layout, spineLen, rebuilds, present, progress, marking>>
    BY <1>14 DEF GoNext, GoPrev
  <2> QED BY <2>1, <2>2, <2>3, LoadStep
<1>15. ASSUME NEW t \in Tabs, TurnHalf(t) PROVE ReadingInv'
  <2>1. tab[t].at = "open"
    BY <1>a, <1>15 DEF TurnHalf, TabInv, TabPhase
  <2>2. \A p \in BagToSet(puts') : p \in BagToSet(puts) \/ PutInv(p)
    BY <1>a, <1>15, <2>1, SaveSends DEF TurnHalf
  <2>3. /\ tab' = [tab EXCEPT ![t] = tab[t]]
        /\ UNCHANGED <<layout, spineLen, rebuilds, present, progress, marking>>
    BY <1>15 DEF TurnHalf, ReadingInv, TabsInv
  <2> QED BY <1>a, <2>2, <2>3, TabStep
<1>16. ASSUME NEW t \in Tabs, NEW index \in 0 .. MaxLen, Jump(t, index) \/ GoBack(t, index)
       PROVE  ReadingInv'
  <2>1. /\ tab[t].at = "open" /\ LoadChapter(t, tab[t], index)
        /\ UNCHANGED <<layout, spineLen, rebuilds, present, progress, marking>>
    BY <1>16 DEF Jump, GoBack
  <2>2. \A p \in BagToSet(puts') : p \in BagToSet(puts) \/ PutInv(p)
    <3>1. CASE Jump(t, index)
      BY <1>a, <2>1, <3>1, SaveSends DEF Jump
    <3>2. CASE GoBack(t, index)
      BY <3>2 DEF GoBack
    <3> QED BY <1>16, <3>1, <3>2
  <2> QED BY <2>1, <2>2, LoadStep
<1>17. CASE Rebuild
  <2>1. /\ spineLen' \in 0 .. MaxLen /\ rebuilds' = rebuilds + 1 /\ rebuilds < MaxRebuilds
        /\ UNCHANGED <<layout, present, progress, tab, puts, marking>>
    BY <1>17 DEF Rebuild
  <2>2. rebuilds' \in 0 .. MaxRebuilds
    BY <1>a, <2>1, ReadingAssumption DEF VolumeInv
  <2>3. MarkingInv'
    BY <1>a, <2>1 DEF MarkingInv
  <2> QED BY <1>a, <1>b, <2>1, <2>2, <2>3, ServerStep DEF VolumeInv
<1>18. CASE RemoveBook
  <2>1. /\ present' = FALSE /\ progress' = NoRow
        /\ UNCHANGED <<layout, spineLen, rebuilds, tab, puts, marking>>
    BY <1>18 DEF RemoveBook
  <2>2. MarkingInv'
    BY <1>a, <2>1 DEF MarkingInv
  <2> QED BY <1>a, <1>b, <2>1, <2>2, ServerStep DEF VolumeInv
<1>19. CASE UNCHANGED vars
  BY <1>19 DEF vars, ReadingInv, VolumeInv, RowInv, TabsInv, TabInv, TabPhase, TabPlace,
               TabFound, PutsInv, PutInv, MarkingInv
<1> QED
  BY <1>1, <1>2, <1>3, <1>4, <1>5, <1>6, <1>7, <1>8, <1>9, <1>10, <1>11, <1>12, <1>13, <1>14,
     <1>15, <1>16, <1>17, <1>18, <1>19 DEF Next

\* It holds to begin with.
LEMMA ReadingInit == Init => ReadingInv
<1> SUFFICES ASSUME Init PROVE ReadingInv
  OBVIOUS
<1>1. VolumeInv
  BY ReadingAssumption DEF Init, VolumeInv
<1>2. /\ RowInv(NoRow) /\ TabInv(ClosedTab) /\ NotMarking \in Marking
      /\ NotMarking.at = "idle"
  BY StartTypes
<1>3. TabsInv
  BY <1>2 DEF Init, TabsInv, TabInv
<1>4. PutsInv
  BY DEF Init, PutsInv, EmptyBag, SetToBag, BagToSet
<1> QED BY <1>1, <1>2, <1>3, <1>4 DEF Init, ReadingInv, MarkingInv

\* Types, and no progress without the volume: a save or a mark that arrives after
\* the row was dropped leaves nothing behind.
THEOREM ProgressGoesWithVolume == Spec => []TypeOK
<1>1. ReadingInv => TypeOK
  BY DEF ReadingInv, VolumeInv, RowInv, TabsInv, PutsInv, PutInv, MarkingInv, TypeOK
<1> QED BY ReadingInit, ReadingStep, <1>1, PTL DEF Spec

\* However often the file is replaced, whatever is saved, parked and loaded, and in
\* whatever order it arrives: the reader stays blank only over a volume that has no
\* pages or less than the file the position is from, or at a position from no file.
THEOREM OpensOnPage == Spec => []BlankOnlyIfShorter
<1>1. ReadingInv => BlankOnlyIfShorter
  BY DEF ReadingInv, TabsInv, TabInv, TabPlace, BlankOnlyIfShorter
<1> QED BY ReadingInit, ReadingStep, <1>1, PTL DEF Spec

\* What the steps leave of the row, if the volume stays.
LEMMA RowStep ==
    ASSUME ReadingInv, Next, present'
    PROVE  \/ UNCHANGED progress
           \/ MarkWrites
           \/ \E p \in BagToSet(puts) : PutProgress(p)
           \/ \E r \in ClientRows : ClientPut(r)
BY DEF Next, MarkRead, MarkReadsFile, MarkReadsBookmark, LosePut, OpenReader,
       FetchManifest, FetchProgress, LoadFirst, ShowFirst, ShowChapter, ChapterFails, Scroll,
       Reflow, TimerFires, GoNext, GoPrev, TurnHalf, Jump, GoBack, Rebuild, RemoveBook

\* A manga that is read stops being read only by a request to mark it unread, or by
\* a save of a user who has left the page, of a tab that had not found it read, or of
\* another client.
THEOREM OnlyMovingUndoesRead == Spec => ReadUndoneOnlyByMoving
<1>1. ASSUME ReadingInv, Next, layout = "fixed", ReadUndone
      PROVE  MayUndoRead
  <2>1. CASE MarkWrites
    <3> DEFINE row == [spine |-> Parked(marking.read, marking.len).spine,
                       prog |-> Parked(marking.read, marking.len).prog,
                       read |-> Parked(marking.read, marking.len).read,
                       mark |-> marking.mark, len |-> marking.len]
    <3>1. marking.at = "write" /\ progress' \in {row, progress}
      BY <2>1 DEF MarkWrites, UpsertProgress
    <3>2. row.read <=> marking.read
      BY <1>1, <3>1, ParkedRow
    <3> HIDE DEF row
    <3> QED BY <1>1, <3>1, <3>2 DEF ReadUndone, MayUndoRead
  <2>2. ASSUME NEW p \in BagToSet(puts), PutProgress(p)
        PROVE  MayUndoRead
    <3>1. puts' = puts (-) SetToBag({p}) /\ progress' \in {p.row, progress}
      BY <2>2 DEF PutProgress, UpsertProgress
    <3>2. PutInv(p)
      BY <1>1 DEF ReadingInv, PutsInv
    <3>3. ~p.found
      BY <1>1, <3>1, <3>2 DEF PutInv, ReadUndone
    <3> QED BY <3>1, <3>3 DEF MayUndoRead
  <2>3. CASE \E r \in ClientRows : ClientPut(r)
    BY <2>3 DEF MayUndoRead
  <2> QED BY <1>1, <2>1, <2>2, <2>3, RowStep DEF ReadUndone
<1>2. ReadingInv /\ [Next]_vars => [layout = "fixed" /\ ReadUndone => MayUndoRead]_vars
  BY <1>1
<1> QED BY ReadingInit, ReadingStep, <1>2, PTL DEF Spec, ReadUndoneOnlyByMoving

\* Marking a volume leaves its bookmark alone, unless a save arrived after the request
\* had read it.
THEOREM MarkingKeepsBookmark == Spec => BookmarkCarriedOver
<1>1. ASSUME ReadingInv, Next, marking.at = "write", marking'.at = "idle", present,
             ~marking.raced
      PROVE  progress'.mark = progress.mark
  <2>1. MarkWrites
    <3>1. \A p : ~PutProgress(p)
      <4>1. SUFFICES ASSUME NEW p, PutProgress(p) PROVE FALSE
        OBVIOUS
      <4>2. marking' = [marking EXCEPT !.raced = marking.at = "write"] /\ marking \in Marking
        BY <1>1, <4>1 DEF PutProgress, ReadingInv, MarkingInv
      <4> QED BY <1>1, <4>2 DEF Marking
    <3>2. \A r : ~ClientPut(r)
      <4>1. SUFFICES ASSUME NEW r, ClientPut(r) PROVE FALSE
        OBVIOUS
      <4>2. marking' = [marking EXCEPT !.raced = marking.at = "write"] /\ marking \in Marking
        BY <1>1, <4>1 DEF ClientPut, ReadingInv, MarkingInv
      <4> QED BY <1>1, <4>2 DEF Marking
    <3>3. marking' # marking
      BY <1>1
    <3> QED BY <1>1, <3>1, <3>2, <3>3 DEF Next, MarkRead, MarkReadsFile, MarkReadsBookmark, LosePut,
               OpenReader, FetchManifest, FetchProgress, LoadFirst,
               ShowFirst, ShowChapter, ChapterFails, Scroll, Reflow, TimerFires, GoNext,
               GoPrev, TurnHalf, Jump, GoBack, Rebuild, RemoveBook
  <2> DEFINE row == [spine |-> Parked(marking.read, marking.len).spine,
                     prog |-> Parked(marking.read, marking.len).prog,
                     read |-> Parked(marking.read, marking.len).read,
                     mark |-> marking.mark, len |-> marking.len]
  <2>2. progress' = row
    BY <1>1, <2>1 DEF MarkWrites, UpsertProgress
  <2>3. row.mark = progress.mark
    BY <1>1 DEF ReadingInv, MarkingInv
  <2> QED BY <2>2, <2>3
<1>2. ReadingInv /\ [Next]_vars =>
          [marking.at = "write" /\ marking'.at = "idle" /\ present /\ ~marking.raced =>
              progress'.mark = progress.mark]_vars
  BY <1>1
<1> QED BY ReadingInit, ReadingStep, <1>2, PTL DEF Spec, BookmarkCarriedOver

=============================================================================
