--------------------------- MODULE LibraryFolders ---------------------------
(***************************************************************************)
(* One library directory as the converter worker and the API server share  *)
(* it, with no lock of any kind between them: for every name n the raw     *)
(* scan folder "<n>-in" (a set of volumes) and the book folder "<n>" (a    *)
(* set of EPUBs, one per volume).  Page images, OCR caches and EPUB        *)
(* contents are abstracted to "this volume is there".                      *)
(***************************************************************************)
EXTENDS ConversionJobs, FiniteSets

CONSTANTS
    Vols,       \* volume names
    NoDir       \* the contents of a folder that does not exist

ASSUME LibraryFoldersAssumption == NoDir \notin SUBSET Vols

VARIABLES
    scans,      \* scans[n]: the volumes in "<n>-in"
    books       \* books[n]: the EPUBs in "<n>"

folderVars == <<scans, books>>

Folder == (SUBSET Vols) \cup {NoDir}

FoldersTypeOK ==
    /\ scans \in [Names -> Folder]
    /\ books \in [Names -> Folder]

\* A library of books that were converted before: each one complete or absent.
FoldersInit ==
    /\ books \in [Names -> Folder \ {{}}]
    /\ \A s \in Stagings : books[s] = NoDir
    /\ scans = books

Present(f) == IF f = NoDir THEN {} ELSE f

\* manualFolderNeedsConversion compares two counts, not two sets of names.
NeedsConversion(n) ==
    /\ scans[n] \notin {NoDir, {}}
    /\ Cardinality(Present(books[n])) < Cardinality(scans[n])

\* os.RemoveAll
RemoveScan(n) == scans' = [scans EXCEPT ![n] = NoDir] /\ UNCHANGED books
RemoveBook(n) == books' = [books EXCEPT ![n] = NoDir] /\ UNCHANGED scans

\* The documented manual workflow: the user copies a volume into "<b>-in".
DropVolume(b, v) ==
    /\ v \notin Present(scans[b])
    /\ scans' = [scans EXCEPT ![b] = Present(@) \cup {v}]
    /\ UNCHANGED books
=============================================================================
