------------------------------- MODULE ZipCache ------------------------------
(***************************************************************************)
(* internal/api/content.go: the LRU cache of open EPUB archives that all   *)
(* page requests share.  Every cache operation holds c.mu and is one step; *)
(* what interleaves is requests streaming from a reader while others hit,  *)
(* invalidate or evict it, and the converter and scanner rewriting the     *)
(* file and its hash underneath.                                           *)
(*                                                                         *)
(* The contents of a file are abstracted to a version number and a hash to *)
(* the version it was computed from.  Entry i is the i-th archive opened.  *)
(***************************************************************************)
EXTENDS Naturals, FiniteSets, SequencesExt

CONSTANTS
    Paths,      \* EPUB files
    NoPath,     \* the path of an entry that was never made
    Requests,   \* page requests in flight
    Scanners,   \* goroutines in processFile: library scans and the watcher
    Cap,        \* zip-cache-size (anything below 1 behaves as 0)
    MaxOpens,   \* bound: how often an archive is opened
    MaxVersion  \* bound: the last version of a file

ASSUME ZipCacheAssumption ==
    /\ Cap \in Nat /\ MaxOpens \in Nat /\ MaxVersion \in Nat
    /\ NoPath \notin Paths
    /\ IsFiniteSet(Requests)

VARIABLES
    entries,    \* the cacheEntry structs
    opened,     \* how many of them exist
    items,      \* map from path to entry, 0 where it has no key
    order,      \* list of cached entries, most recently used first
    reqs,       \* page requests
    file,       \* the version on disk
    row,        \* the file_hash column
    scans       \* what each processFile has hashed and not stored yet

cacheVars == <<entries, opened, items, order>>
fileVars  == <<file, row, scans>>
vars      == <<cacheVars, reqs, fileVars>>

Ids     == 1..MaxOpens
Version == 0..MaxVersion

\* version is what rc was opened on; closes counts the calls of rc.Close.
Entry   == [path: Paths \cup {NoPath}, hash: Version, version: Version,
            refs: Nat, evicted: BOOLEAN, closes: Nat]
Request == [pc: {"idle", "asking", "reading"}, path: Paths \cup {NoPath},
            hash: Version, entry: 0..MaxOpens]
Scan    == [path: Paths \cup {NoPath}, hash: Version]

NoEntry   == [path |-> NoPath, hash |-> 0, version |-> 0,
              refs |-> 0, evicted |-> FALSE, closes |-> 0]
NoRequest == [pc |-> "idle", path |-> NoPath, hash |-> 0, entry |-> 0]
NoScan    == [path |-> NoPath, hash |-> 0]

Init ==
    /\ entries = [i \in Ids |-> NoEntry]
    /\ opened = 0
    /\ items = [p \in Paths |-> 0]
    /\ order = <<>>
    /\ reqs = [c \in Requests |-> NoRequest]
    /\ file = [p \in Paths |-> 0]
    /\ row = [p \in Paths |-> 0]
    /\ scans = [s \in Scanners |-> NoScan]

TypeOK ==
    /\ entries \in [Ids -> Entry]
    /\ opened \in 0..MaxOpens
    /\ items \in [Paths -> 0..MaxOpens]
    /\ order \in Seq(Ids)
    /\ reqs \in [Requests -> Request]
    /\ file \in [Paths -> Version]
    /\ row \in [Paths -> Version]
    /\ scans \in [Scanners -> Scan]

-----------------------------------------------------------------------------
(* Files and their rows.                                                   *)

\* The converter (os.Create on the same path) or a user writes a new version.
Rewrite(p) ==
    /\ file[p] < MaxVersion
    /\ file' = [file EXCEPT ![p] = @ + 1]
    /\ UNCHANGED <<cacheVars, reqs, row, scans>>

\* processFile hashes a file whose mtime or size changed (a touch does that
\* too), ...
HashFile(s, p) ==
    /\ scans[s] = NoScan
    /\ scans' = [scans EXCEPT ![s] = [path |-> p, hash |-> file[p]]]
    /\ UNCHANGED <<cacheVars, reqs, file, row>>

\* ... and stores the hash later, unless the file does not parse: the last of
\* two processFiles wins.
StoreHash(s) ==
    /\ scans[s] # NoScan
    /\ \/ row' = [row EXCEPT ![scans[s].path] = scans[s].hash]
       \/ row' = row
    /\ scans' = [scans EXCEPT ![s] = NoScan]
    /\ UNCHANGED <<cacheVars, reqs, file>>

-----------------------------------------------------------------------------
(* The cache.                                                              *)

Close(e) == [e EXCEPT !.closes = @ + 1]

\* Mutant: no reference count, a dropped reader is closed under its readers.
CloseOutright(e) == Close(e)

\* Mutant: a dropped reader is left to a release that may never come.
OnlyMarkEvicted(e) == [e EXCEPT !.evicted = TRUE]

CloseOrMarkEvicted(e) == IF e.refs = 0 THEN Close(e) ELSE [e EXCEPT !.evicted = TRUE]

\* list.Remove
Unlink(s, i) == RemoveAt(s, CHOOSE k \in DOMAIN s : s[k] = i)

Asking(c) == reqs[c].pc = "asking"

\* Mutant: a cached reader is used whatever the file's hash has become.
HitAnyHash(c) == Asking(c) /\ items[reqs[c].path] # 0

Hit(c) ==
    /\ Asking(c)
    /\ items[reqs[c].path] # 0
    /\ entries[items[reqs[c].path]].hash = reqs[c].hash

Read(c, i) == reqs' = [reqs EXCEPT ![c].pc = "reading", ![c].entry = i]

\* Mutant: a hit does not count its reader.
GetHitUncounted(c) ==
    LET i == items[reqs[c].path] IN
    /\ Hit(c)
    /\ order' = <<i>> \o Unlink(order, i)
    /\ Read(c, i)
    /\ UNCHANGED <<entries, opened, items, fileVars>>

GetHit(c) ==
    LET i == items[reqs[c].path] IN
    /\ Hit(c)
    /\ order' = <<i>> \o Unlink(order, i)
    /\ entries' = [entries EXCEPT ![i].refs = @ + 1]
    /\ Read(c, i)
    /\ UNCHANGED <<opened, items, fileVars>>

\* What is left of the list once the stale reader of the path is dropped.
Kept(p) == IF items[p] = 0 THEN order ELSE Unlink(order, items[p])

\* The stale reader, if the path has one, is gone even when the archive does
\* not open (it was deleted, or is half written).
GetFails(c) ==
    LET p == reqs[c].path IN
    /\ Asking(c) /\ ~Hit(c)
    /\ entries' = [i \in Ids |-> IF i = items[p] THEN CloseOrMarkEvicted(entries[i]) ELSE entries[i]]
    /\ items' = [items EXCEPT ![p] = 0]
    /\ order' = Kept(p)
    /\ reqs' = [reqs EXCEPT ![c] = NoRequest]
    /\ UNCHANGED <<opened, fileVars>>

\* The entry at the back of a list that is full; 0 if there is room, or if
\* there is nothing to evict.
Victim(s) == IF Len(s) >= Cap /\ s # <<>> THEN s[Len(s)] ELSE 0

\* Entry i is opened as e, and the entries in dropped give up their place.
Opened(i, dropped, e) ==
    /\ opened' = i
    /\ entries' = [k \in Ids |-> IF k = i THEN e
                                 ELSE IF k \in dropped THEN CloseOrMarkEvicted(entries[k])
                                 ELSE entries[k]]

NewEntry(p, hash) == [path |-> p, hash |-> hash, version |-> file[p],
                      refs |-> 1, evicted |-> FALSE, closes |-> 0]

\* Mutant: the evicted entry's key stays in the map.
GetOpensKeepsKey(c) ==
    LET p      == reqs[c].path
        kept   == Kept(p)
        victim == Victim(kept)
        i      == opened + 1
    IN  /\ Asking(c) /\ ~Hit(c)
        /\ opened < MaxOpens
        /\ Opened(i, {items[p], victim}, NewEntry(p, reqs[c].hash))
        /\ items' = [items EXCEPT ![p] = i]
        /\ order' = <<i>> \o IF victim = 0 THEN kept ELSE Front(kept)
        /\ Read(c, i)
        /\ UNCHANGED fileVars

GetOpens(c) ==
    LET p      == reqs[c].path
        kept   == Kept(p)
        victim == Victim(kept)
        i      == opened + 1
    IN  /\ Asking(c) /\ ~Hit(c)
        /\ opened < MaxOpens
        /\ Opened(i, {items[p], victim}, NewEntry(p, reqs[c].hash))
        /\ items' = [q \in Paths |-> IF q = p THEN i
                                     ELSE IF victim # 0 /\ entries[victim].path = q THEN 0
                                     ELSE items[q]]
        /\ order' = <<i>> \o IF victim = 0 THEN kept ELSE Front(kept)
        /\ Read(c, i)
        /\ UNCHANGED fileVars

\* Mutant: the last reader closes an entry that is still cached.
LeftCached(e) == IF e.refs = 1 THEN Close([e EXCEPT !.refs = 0]) ELSE [e EXCEPT !.refs = @ - 1]

\* An entry that one of its readers has released.
Left(e) ==
    IF e.refs = 1 /\ e.evicted THEN Close([e EXCEPT !.refs = 0]) ELSE [e EXCEPT !.refs = @ - 1]

\* getBookContent has streamed its page, or did not find it.
Release(c) ==
    /\ reqs[c].pc = "reading"
    /\ entries' = [entries EXCEPT ![reqs[c].entry] = Left(@)]
    /\ reqs' = [reqs EXCEPT ![c] = NoRequest]
    /\ UNCHANGED <<opened, items, order, fileVars>>

\* getBookContent reads the book's row before it asks the cache.
ReadRow(c, p) ==
    /\ reqs[c].pc = "idle"
    /\ reqs' = [reqs EXCEPT ![c] = [pc |-> "asking", path |-> p, hash |-> row[p], entry |-> 0]]
    /\ UNCHANGED <<cacheVars, fileVars>>

Next ==
    \/ \E p \in Paths : Rewrite(p)
    \/ \E s \in Scanners : StoreHash(s) \/ \E p \in Paths : HashFile(s, p)
    \/ \E c \in Requests :
          \/ \E p \in Paths : ReadRow(c, p)
          \/ GetHit(c) \/ GetOpens(c) \/ GetFails(c) \/ Release(c)

Spec == Init /\ [][Next]_vars

-----------------------------------------------------------------------------
(* Safety.                                                                 *)

Reading(c, i) == reqs[c].pc = "reading" /\ reqs[c].entry = i
Cached(i)     == \E p \in Paths : items[p] = i

\* No request ever streams from a closed archive, whoever evicted or
\* invalidated its reader meanwhile.
HeldReadersOpen ==
    \A c \in Requests : reqs[c].pc = "reading" => entries[reqs[c].entry].closes = 0

\* rc.Close is called once per archive, however eviction and releases cross.
ClosedOnce == \A i \in Ids : entries[i].closes <= 1

\* No descriptor leaks: an archive that is open can still be found in the cache
\* or is being read by a request, whose release will close it.
NoLeak ==
    \A i \in 1..opened :
        entries[i].closes = 0 => Cached(i) \/ \E c \in Requests : Reading(c, i)

\* The map and the list hold the same entries, each under its own path, and the
\* cache does not outgrow its capacity (of one, if it is configured smaller).
CacheConsistent ==
    /\ IsInjective(order)
    /\ Range(order) = {items[p] : p \in Paths} \ {0}
    /\ \A p \in Paths : items[p] # 0 => entries[items[p]].path = p
    /\ Len(order) <= Cap \/ Len(order) <= 1

\* A page is never older than the ETag it is served under: the reader was
\* opened on the version the request's hash names, or on a later one.
FreshRead ==
    \A c \in Requests : reqs[c].pc = "reading" =>
        /\ entries[reqs[c].entry].path = reqs[c].path
        /\ entries[reqs[c].entry].version >= reqs[c].hash
=============================================================================
