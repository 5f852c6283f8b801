SPECIFICATION Spec
CONSTANTS
    Tabs = {t1}
    Marks = {m1}
    NoMark = NoMark
    Layouts = {"fixed", "text"}
    ClientRows <- MCClientRows
    MaxLen = 2
    MaxPuts <- MCMaxPuts
    MaxFetches = 1
    MaxRebuilds = 1
CHECK_DEADLOCK FALSE
INVARIANTS
    TypeOK
    BlankOnlyIfShorter
PROPERTIES
    ReadUndoneOnlyByMoving
    BookmarkCarriedOver
