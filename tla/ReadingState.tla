---------------------------- MODULE ReadingState ----------------------------
(***************************************************************************)
(* One user's reading progress in one volume: the row of reading_progress  *)
(* (internal/db/progress.go), the three handlers of                        *)
(* internal/api/progress.go, and the reader tabs that load the row, turn   *)
(* pages and save (frontend/dist/reader.js).  Rows of other volumes and    *)
(* users are independent of it.                                            *)
(*                                                                         *)
(* A position is a spine item and, in it, the top (0) or the end (1); a    *)
(* page of a manga has no position in it.  The percentage matters only     *)
(* where it reaches 1, which is what "read" means.  The window's size, and *)
(* what an image or a stylesheet that arrives late does to a page's        *)
(* length, are the browser's: a text page may get any position from them.  *)
(* Saves are fetch calls nobody awaits: several may be under way, arrive   *)
(* in any order, or be lost.                                               *)
(***************************************************************************)
EXTENDS Integers, FiniteSets, Bags

CONSTANTS
    Tabs,        \* browser tabs with the reader
    Marks,       \* values of the row's bookmark columns
    NoMark,      \* NULL bookmark columns
    Layouts,     \* layouts a volume can have
    ClientRows,  \* what other clients of the API save
    MaxLen,      \* bound: spine items of the volume
    MaxPuts,     \* bound: saves under way at once, by layout
    MaxFetches,  \* bound: chapters on their way to a tab at once, but the first
    MaxRebuilds  \* bound: times the volume's file is replaced

ASSUME ReadingAssumption ==
    /\ NoMark \notin Marks
    /\ Layouts \subseteq {"fixed", "text"}
    /\ MaxLen \in Nat \ {0}
    /\ ClientRows \subseteq [spine : 0 .. MaxLen, prog : {0, 1}, read : BOOLEAN,
                             mark : Marks \cup {NoMark}]
    /\ MaxPuts \in [Layouts -> Nat] /\ MaxFetches \in Nat
    /\ MaxRebuilds \in Nat

VARIABLES
    layout,    \* "fixed" for manga, "text" for reflowable books
    spineLen,  \* spine items of the file, now
    rebuilds,  \* times the file was replaced
    present,   \* whether the volume's books row exists
    progress,  \* the reading_progress row
    tab,       \* the reader tabs
    puts,      \* the saves under way
    marking    \* a "mark as read" or "mark as unread" request

vars == <<layout, spineLen, rebuilds, present, progress, tab, puts, marking>>
-----------------------------------------------------------------------------
Ends == {0, 1}
Mark == Marks \cup {NoMark}

\* The length of no spine: that of a position which is on no page of a file.
Stray == MaxLen + 1

\* len, a ghost, is the length of the spine the position lies in.
Row == [spine : 0 .. MaxLen, prog : Ends, read : BOOLEAN, mark : Mark, len : 0 .. Stray]

\* What getProgress answers when there is no row.
NoRow == [spine |-> 0, prog |-> 0, read |-> FALSE, mark |-> NoMark, len |-> 0]

\* found, a ghost: the tab had found the volume read, at a position in a spine as long
\* as the one it opened, and the user has not turned a page nor scrolled since (nor is
\* about to turn a page, in a text chapter, whose position may not be restored yet).
Put == [row : Row, found : BOOLEAN]

\* prog is where the page is scrolled to, to is restoredProgression, until it is; first and
\* fetches are the calls of loadChapter that wait for their chapter.  of, a ghost, is the
\* len of the position restored, kept only where no chapter is loaded for it.
Tab == [at : {"closed", "loading", "open"}, gotLen : BOOLEAN, gotRow : BOOLEAN,
        len : 0 .. MaxLen, spine : 0 .. MaxLen, prog : Ends, to : Ends,
        first : BOOLEAN, fetches : 0 .. MaxFetches, page : {"none", "message", "shown"},
        timer : BOOLEAN, found : BOOLEAN, of : 0 .. Stray]

ClosedTab == [at |-> "closed", gotLen |-> FALSE, gotRow |-> FALSE, len |-> 0, spine |-> 0,
              prog |-> 0, to |-> 0, first |-> FALSE, fetches |-> 0, page |-> "none",
              timer |-> FALSE, found |-> FALSE, of |-> 0]

Marking == [at : {"idle", "file", "bookmark", "write"}, read : BOOLEAN,
            len : 0 .. MaxLen, mark : Mark, raced : BOOLEAN]

NotMarking == [at |-> "idle", read |-> FALSE, len |-> 0, mark |-> NoMark, raced |-> FALSE]

LastOf(n) == n - 1
-----------------------------------------------------------------------------
(* The server.                                                             *)

\* UpsertProgress: every column is replaced; without the volume's row the
\* foreign key refuses the insert.
UpsertProgress(row) == progress' = IF present THEN row ELSE progress

MarkRead(read) ==
    /\ marking.at = "idle"
    /\ marking' = [NotMarking EXCEPT !.at = "file", !.read = read]
    /\ UNCHANGED <<layout, spineLen, rebuilds, present, progress, tab, puts>>

\* GetBookByID, and the spine's length from the file, an empty one counted as one
\* item; 404 without the row, 500 if the file cannot be opened.
MarkReadsFile ==
    /\ marking.at = "file"
    /\ \/ present /\ marking' = [marking EXCEPT !.at = "bookmark",
                                                !.len = IF spineLen = 0 THEN 1 ELSE spineLen]
       \/ marking' = NotMarking
    /\ UNCHANGED <<layout, spineLen, rebuilds, present, progress, tab, puts>>

\* Mutant: the bookmark is not carried over.
MarkDropsBookmark ==
    /\ marking.at = "bookmark"
    /\ marking' = [marking EXCEPT !.at = "write"]
    /\ UNCHANGED <<layout, spineLen, rebuilds, present, progress, tab, puts>>

MarkReadsBookmark ==
    /\ marking.at = "bookmark"
    /\ marking' = [marking EXCEPT !.at = "write", !.mark = progress.mark]
    /\ UNCHANGED <<layout, spineLen, rebuilds, present, progress, tab, puts>>

\* Mutant: "read" parks behind the last item.
ParkedAtEnd(read, len) ==
    [spine |-> IF read THEN len ELSE 0, prog |-> IF read THEN 1 ELSE 0, read |-> read]

\* "read" parks at the end of the last item, "unread" at the beginning.
Parked(read, len) ==
    [spine |-> IF read THEN LastOf(len) ELSE 0, prog |-> IF read THEN 1 ELSE 0, read |-> read]

MarkWrites ==
    /\ marking.at = "write"
    /\ LET at == Parked(marking.read, marking.len) IN
       UpsertProgress([spine |-> at.spine, prog |-> at.prog, read |-> at.read,
                       mark |-> marking.mark, len |-> marking.len])
    /\ marking' = NotMarking
    /\ UNCHANGED <<layout, spineLen, rebuilds, present, tab, puts>>

\* putProgress, for any of the saves under way.
PutProgress(p) ==
    /\ BagIn(p, puts)
    /\ UpsertProgress(p.row)
    /\ puts' = puts (-) SetToBag({p})
    /\ marking' = [marking EXCEPT !.raced = marking.at = "write"]
    /\ UNCHANGED <<layout, spineLen, rebuilds, present, tab>>

\* The connection fails; the reader ignores it.
LosePut(p) ==
    /\ BagIn(p, puts)
    /\ puts' = puts (-) SetToBag({p})
    /\ UNCHANGED <<layout, spineLen, rebuilds, present, progress, tab, marking>>

\* Another client of the API puts what it likes: putProgress checks none of it.
ClientPut(r) ==
    /\ UpsertProgress([spine |-> r.spine, prog |-> r.prog, read |-> r.read, mark |-> r.mark,
                       len |-> Stray])
    /\ marking' = [marking EXCEPT !.raced = marking.at = "write"]
    /\ UNCHANGED <<layout, spineLen, rebuilds, present, tab, puts>>
-----------------------------------------------------------------------------
(* The reader.                                                             *)

\* Mutant: on page N of a manga N - 1 pages are read.
PagesBefore(t) == tab[t].spine + tab[t].prog >= tab[t].len

\* Whether the percentage a save computes is 1: it is capped there, infinite for an
\* empty spine, and no number for position 0 in one, which is stored as 0.
WholeRead(t) ==
    IF layout = "fixed" THEN tab[t].spine + 1 >= tab[t].len
                        ELSE /\ tab[t].spine + tab[t].prog >= tab[t].len
                             /\ tab[t].spine + tab[t].prog > 0

\* saveProgress: the body of the PUT; it never names the bookmark columns.
Saved(t, turning) ==
    [row |-> [spine |-> tab[t].spine, prog |-> tab[t].prog, read |-> WholeRead(t),
              mark |-> NoMark,
              len |-> IF tab[t].spine < tab[t].len THEN tab[t].len ELSE Stray],
     found |-> tab[t].found /\ ~(turning /\ layout = "text")]

Save(t, turning) ==
    /\ BagCardinality(puts) < MaxPuts[layout]
    /\ puts' = puts (+) SetToBag({Saved(t, turning)})

\* loadChapter, up to its fetch: an index outside the spine is ignored; the index is
\* the reader's from now on, though the page on the screen is still the one before.
LoadChapter(t, rec, index) ==
    /\ rec.fetches < MaxFetches
    /\ tab' = [tab EXCEPT ![t] =
                  IF index \in 0 .. LastOf(rec.len)
                  THEN [rec EXCEPT !.spine = index, !.fetches = rec.fetches + 1,
                                   !.found = rec.found /\ index = rec.spine]
                  ELSE rec]

\* The page changes, or is scrolled, to a position; that arms the timer of the save.
Moved(rec, page, prog) ==
    [rec EXCEPT !.page = page, !.prog = prog, !.timer = rec.timer \/ prog # rec.prog]

OpenReader(t) ==
    /\ tab' = [tab EXCEPT ![t] = [ClosedTab EXCEPT !.at = "loading"]]
    /\ UNCHANGED <<layout, spineLen, rebuilds, present, progress, puts, marking>>

\* init: the manifest and the progress are fetched side by side.  Without the
\* volume's row, or if its file cannot be opened, the reader shows an error.
FetchManifest(t) ==
    /\ tab[t].at = "loading"
    /\ ~tab[t].gotLen
    /\ \/ present /\ tab' = [tab EXCEPT ![t].gotLen = TRUE, ![t].len = spineLen]
       \/ tab' = [tab EXCEPT ![t] = ClosedTab]
    /\ UNCHANGED <<layout, spineLen, rebuilds, present, progress, puts, marking>>

FetchProgress(t) ==
    /\ tab[t].at = "loading"
    /\ ~tab[t].gotRow
    /\ tab' = [tab EXCEPT ![t].gotRow = TRUE, ![t].spine = progress.spine,
                          ![t].to = IF layout = "text" THEN progress.prog ELSE 0,
                          ![t].found = progress.read, ![t].of = progress.len]
    /\ UNCHANGED <<layout, spineLen, rebuilds, present, progress, puts, marking>>

\* init loads the chapter of the position, if there is one.
LoadFirst(t) ==
    /\ tab[t].at = "loading"
    /\ tab[t].gotLen
    /\ tab[t].gotRow
    /\ LET first == tab[t].spine < tab[t].len IN
       tab' = [tab EXCEPT ![t].at = "open", ![t].first = first,
                          ![t].found = @ /\ tab[t].of = tab[t].len,
                          ![t].of = IF first THEN 0 ELSE @]
    /\ UNCHANGED <<layout, spineLen, rebuilds, present, progress, puts, marking>>

\* Its text arrives, whatever was loaded since, and is scrolled to the position
\* restored; that does nothing if it fits the window.
ShowFirst(t) ==
    /\ tab[t].first
    /\ \E prog \in {0, tab[t].to} :
          tab' = [tab EXCEPT ![t] = Moved([tab[t] EXCEPT !.first = FALSE, !.to = 0], "shown", prog)]
    /\ UNCHANGED <<layout, spineLen, rebuilds, present, progress, puts, marking>>

\* Any other chapter is shown from its top.
ShowChapter(t) ==
    /\ tab[t].fetches > 0
    /\ tab' = [tab EXCEPT ![t] = Moved([tab[t] EXCEPT !.fetches = tab[t].fetches - 1], "shown", 0)]
    /\ UNCHANGED <<layout, spineLen, rebuilds, present, progress, puts, marking>>

\* A chapter does not arrive: a line of text takes the place of the page.
ChapterFails(t) ==
    /\ \/ /\ tab[t].first
          /\ tab' = [tab EXCEPT ![t] = Moved([tab[t] EXCEPT !.first = FALSE, !.to = 0], "message", 0)]
       \/ /\ tab[t].fetches > 0
          /\ tab' = [tab EXCEPT ![t] = Moved([tab[t] EXCEPT !.fetches = tab[t].fetches - 1], "message", 0)]
    /\ UNCHANGED <<layout, spineLen, rebuilds, present, progress, puts, marking>>

\* A text chapter moves; a manga page, zoomed, moves inside the page.
Scroll(t) ==
    /\ tab[t].page = "shown"
    /\ \E end \in Ends :
          tab' = [tab EXCEPT ![t].timer = TRUE,
                             ![t].prog = IF layout = "text" THEN end ELSE 0,
                             ![t].found = @ /\ layout = "fixed"]
    /\ UNCHANGED <<layout, spineLen, rebuilds, present, progress, puts, marking>>

\* The length of a text chapter changes under the reader: an image or a stylesheet
\* arrives, the window is resized.  The browser may scroll, or not.
Reflow(t) ==
    /\ layout = "text" /\ tab[t].page = "shown"
    /\ \E end \in Ends, scrolls \in BOOLEAN :
          tab' = [tab EXCEPT ![t].prog = end, ![t].timer = @ \/ scrolls]
    /\ UNCHANGED <<layout, spineLen, rebuilds, present, progress, puts, marking>>

\* 800 ms after the last scroll, whatever was loaded in between.
TimerFires(t) ==
    /\ tab[t].timer
    /\ Save(t, FALSE)
    /\ tab' = [tab EXCEPT ![t].timer = FALSE]
    /\ UNCHANGED <<layout, spineLen, rebuilds, present, progress, marking>>

\* The buttons are as the last page shown has set them, which may not be the current
\* one while a chapter is on its way or after it failed.
ButtonAllows(t, turns) ==
    /\ tab[t].page # "none"
    /\ tab[t].page = "shown" /\ ~tab[t].first /\ tab[t].fetches = 0 => turns

\* Pages turned at once: two of a manga with Spread on.
Steps == IF layout = "fixed" THEN {1, 2} ELSE {1}

\* goNext saves where the reader is, then moves.  A manga can also be tapped, which
\* asks no button.
GoNext(t, step) ==
    /\ tab[t].at = "open"
    /\ layout = "text" => ButtonAllows(t, tab[t].spine < LastOf(tab[t].len))
    /\ Save(t, TRUE)
    /\ LoadChapter(t, tab[t], IF tab[t].spine + step < tab[t].len THEN tab[t].spine + step
                                                                  ELSE LastOf(tab[t].len))
    /\ UNCHANGED <<layout, spineLen, rebuilds, present, progress, marking>>

GoPrev(t, step) ==
    /\ tab[t].at = "open"
    /\ layout = "text" => ButtonAllows(t, tab[t].spine > 0)
    /\ Save(t, TRUE)
    /\ LoadChapter(t, tab[t], IF tab[t].spine > step THEN tab[t].spine - step ELSE 0)
    /\ UNCHANGED <<layout, spineLen, rebuilds, present, progress, marking>>

\* The other half of a page that is a whole spread: goNext and goPrev only save.
TurnHalf(t) ==
    /\ layout = "fixed" /\ tab[t].page = "shown"
    /\ Save(t, TRUE)
    /\ UNCHANGED <<layout, spineLen, rebuilds, present, progress, tab, marking>>

\* An entry of the table of contents, or a bookmark of another version of the file.
Jump(t, index) ==
    /\ tab[t].at = "open"
    /\ Save(t, TRUE)
    /\ LoadChapter(t, tab[t], index)
    /\ UNCHANGED <<layout, spineLen, rebuilds, present, progress, marking>>

\* popstate: the browser's Back and Forward, and the Spread button, save nothing.
GoBack(t, index) ==
    /\ tab[t].at = "open"
    /\ LoadChapter(t, tab[t], index)
    /\ UNCHANGED <<layout, spineLen, rebuilds, present, progress, puts, marking>>
-----------------------------------------------------------------------------
(* The volume: a conversion replaces its file; the scanner drops its row,  *)
(* and the progress goes with it.                                          *)
Rebuild ==
    /\ rebuilds < MaxRebuilds
    /\ spineLen' \in (0 .. MaxLen) \ {spineLen}
    /\ rebuilds' = rebuilds + 1
    /\ UNCHANGED <<layout, present, progress, tab, puts, marking>>

\* Mutant: reading_progress.book_id without ON DELETE CASCADE.
RemoveBookOnly ==
    /\ present
    /\ present' = FALSE
    /\ UNCHANGED <<layout, spineLen, rebuilds, progress, tab, puts, marking>>

RemoveBook ==
    /\ present
    /\ present' = FALSE
    /\ progress' = NoRow
    /\ UNCHANGED <<layout, spineLen, rebuilds, tab, puts, marking>>
-----------------------------------------------------------------------------
Init ==
    /\ layout \in Layouts
    /\ spineLen \in 0 .. MaxLen
    /\ rebuilds = 0
    /\ present = TRUE
    /\ progress = NoRow
    /\ tab = [t \in Tabs |-> ClosedTab]
    /\ puts = EmptyBag
    /\ marking = NotMarking

Next ==
    \/ \E read \in BOOLEAN : MarkRead(read)
    \/ MarkReadsFile
    \/ MarkReadsBookmark
    \/ MarkWrites
    \/ \E p \in BagToSet(puts) : PutProgress(p) \/ LosePut(p)
    \/ \E r \in ClientRows : ClientPut(r)
    \/ \E t \in Tabs :
        \/ OpenReader(t)
        \/ FetchManifest(t)
        \/ FetchProgress(t)
        \/ LoadFirst(t)
        \/ ShowFirst(t)
        \/ ShowChapter(t)
        \/ ChapterFails(t)
        \/ Scroll(t)
        \/ Reflow(t)
        \/ TimerFires(t)
        \/ \E step \in Steps : GoNext(t, step) \/ GoPrev(t, step)
        \/ TurnHalf(t)
        \/ \E index \in 0 .. MaxLen : Jump(t, index) \/ GoBack(t, index)
    \/ Rebuild
    \/ RemoveBook

Spec == Init /\ [][Next]_vars
-----------------------------------------------------------------------------
(* Correctness.                                                            *)

\* Types, and no progress without the volume: a save or a mark that arrives
\* after the row was dropped must leave nothing behind.
TypeOK ==
    /\ layout \in Layouts
    /\ spineLen \in 0 .. MaxLen
    /\ rebuilds \in 0 .. MaxRebuilds
    /\ present \in BOOLEAN
    /\ progress \in Row
    /\ tab \in [Tabs -> Tab]
    /\ BagToSet(puts) \subseteq Put
    /\ marking \in Marking
    /\ ~present => progress = NoRow

\* What may undo "read" of a volume that stays: a request to mark it unread, or a save
\* of a user who moved, or of a tab that had not found the volume read as it is, or of
\* another client.
MayUndoRead ==
    \/ marking.at = "write" /\ ~marking.read
    \/ \E p \in BagToSet(puts) : /\ puts' = puts (-) SetToBag({p})
                                 /\ ~p.found
    \/ \E r \in ClientRows : ClientPut(r)

ReadUndone == progress.read /\ present' /\ ~progress'.read

\* "read" parks at the last item, "or reopening would undo it": a manga that is read
\* is not undone by opening it, zooming, tapping on at its end, or by the save that
\* goes before a page is turned.
ReadUndoneOnlyByMoving == [][layout = "fixed" /\ ReadUndone => MayUndoRead]_vars

\* Whatever was saved, parked and loaded, in whatever order saves and answers arrive,
\* and however often the file was replaced: the reader stays blank only if the file
\* has no pages, or less than the one the position is from; or if the position is
\* from no file, for a client made it up, or it was saved by a blank reader.
BlankOnlyIfShorter ==
    \A t \in Tabs :
        /\ tab[t].at = "open" /\ tab[t].page = "none"
        /\ ~tab[t].first /\ tab[t].fetches = 0
        => tab[t].len = 0 \/ tab[t].len < tab[t].of

\* "Carry the bookmark over": marking a volume leaves its bookmark alone,
\* unless a save arrived after the request had read it.
BookmarkCarriedOver ==
    [][marking.at = "write" /\ marking'.at = "idle" /\ present /\ ~marking.raced =>
           progress'.mark = progress.mark]_vars
-----------------------------------------------------------------------------
\* A claim of a comment that a text volume breaks: "read" parks at the last item, "or
\* reopening would undo it" (progress.go:91-92), that is, reopening does not.
ReopeningKeepsRead == [][layout = "text" /\ ReadUndone => MayUndoRead]_vars
=============================================================================
