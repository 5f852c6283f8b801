---------------------------- MODULE ZipCacheProofs ---------------------------
(***************************************************************************)
(* The zip cache never closes an archive under a reader, never closes one  *)
(* twice and never loses one, for any number of files, requests and        *)
(* scanners, any capacity and any schedule.                                *)
(***************************************************************************)
EXTENDS ZipCache, FiniteSetTheorems, SequenceTheorems, TLAPS

Readers(i) == {c \in Requests : Reading(c, i)}

\* Entries are numbered as they are opened, and only opened ones are used; a
\* request that has left idle names a file.
Numbered ==
    /\ \A i \in Ids : i > opened => entries[i] = NoEntry
    /\ \A p \in Paths : items[p] <= opened
    /\ \A c \in Requests : reqs[c].entry <= opened
    /\ \A c \in Requests : reqs[c].pc = "reading" => reqs[c].entry # 0
    /\ \A c \in Requests : reqs[c].pc # "idle" => reqs[c].path \in Paths

\* The reference count counts the requests that read from the entry.
RefsExact == \A i \in Ids : entries[i].refs = Cardinality(Readers(i))

\* An entry in the cache is open and not given up; one that has left it is
\* closed if nobody reads it, and marked for its last reader if somebody does.
CachedLive == \A p \in Paths : items[p] # 0 =>
    entries[items[p]].closes = 0 /\ ~entries[items[p]].evicted

DroppedSettled == \A i \in 1..opened : ~Cached(i) =>
    \/ entries[i].refs = 0 /\ entries[i].closes = 1
    \/ entries[i].refs > 0 /\ entries[i].closes = 0 /\ entries[i].evicted

CacheInv == TypeOK /\ Numbered /\ RefsExact /\ CacheConsistent /\ CachedLive /\ DroppedSettled

\* Hashes lag behind the files they were computed from.
HashesLag ==
    /\ \A p \in Paths : row[p] <= file[p]
    /\ \A s \in Scanners : scans[s] # NoScan =>
          scans[s].path \in Paths /\ scans[s].hash <= file[scans[s].path]
    /\ \A c \in Requests : reqs[c].pc # "idle" =>
          reqs[c].hash <= file[reqs[c].path]
    /\ \A i \in 1..opened : entries[i].hash <= entries[i].version

ReadsAsked == \A c \in Requests : reqs[c].pc = "reading" =>
    /\ entries[reqs[c].entry].path = reqs[c].path
    /\ entries[reqs[c].entry].hash = reqs[c].hash

FreshInv == CacheInv /\ HashesLag /\ ReadsAsked

-----------------------------------------------------------------------------
(* The list operations of container/list on a list without repetitions.    *)

LEMMA UnlinkProperties ==
    ASSUME NEW S, NEW s \in Seq(S), IsInjective(s), NEW i \in Range(s)
    PROVE  /\ Unlink(s, i) \in Seq(S)
           /\ Len(Unlink(s, i)) = Len(s) - 1
           /\ IsInjective(Unlink(s, i))
           /\ Range(Unlink(s, i)) = Range(s) \ {i}
<1> DEFINE k == CHOOSE j \in DOMAIN s : s[j] = i
           a == SubSeq(s, 1, k - 1)
           b == SubSeq(s, k + 1, Len(s))
<1>1. Len(s) \in Nat /\ DOMAIN s = 1..Len(s) /\ \A j \in 1..Len(s) : s[j] \in S
  BY LenProperties
<1>2. k \in 1..Len(s) /\ s[k] = i
  BY <1>1 DEF Range
<1> HIDE DEF k
<1>3. /\ a \in Seq(S)
      /\ Len(a) = k - 1
      /\ \A j \in 1..(k - 1) : a[j] = s[j]
  <2>1. \A j \in 1..(k - 1) : s[j] \in S
    BY <1>1, <1>2
  <2>2. /\ a \in Seq(S)
        /\ Len(a) = IF 1 <= k - 1 THEN (k - 1) - 1 + 1 ELSE 0
        /\ \A j \in 1..((k - 1) - 1 + 1) : a[j] = s[1 + j - 1]
    BY <2>1, <1>2, SubSeqProperties
  <2> QED
    BY <2>2, <1>2
<1>4. /\ b \in Seq(S)
      /\ Len(b) = Len(s) - k
      /\ \A j \in 1..(Len(s) - k) : b[j] = s[k + j]
  <2>1. \A j \in (k + 1)..Len(s) : s[j] \in S
    BY <1>1, <1>2
  <2>2. /\ b \in Seq(S)
        /\ Len(b) = IF k + 1 <= Len(s) THEN Len(s) - (k + 1) + 1 ELSE 0
        /\ \A j \in 1..(Len(s) - (k + 1) + 1) : b[j] = s[(k + 1) + j - 1]
    BY <2>1, <1>1, <1>2, SubSeqProperties
  <2> HIDE DEF b
  <2>3. Len(s) - (k + 1) + 1 = Len(s) - k
    BY <1>1, <1>2
  <2>4. Len(b) = Len(s) - k
    <3>1. CASE k + 1 <= Len(s)
      BY <3>1, <2>2, <2>3
    <3>2. CASE ~(k + 1 <= Len(s))
      <4>1. Len(s) \in Nat /\ k \in Nat /\ k <= Len(s)
        BY <1>1, <1>2
      <4>2. Len(s) = k
        BY <3>2, <4>1
      <4>3. Len(s) - k = 0
        BY <4>1, <4>2
      <4> QED BY <3>2, <4>3, <2>2
    <3> QED BY <3>1, <3>2
  <2>5. ASSUME NEW j \in 1..(Len(s) - k) PROVE b[j] = s[k + j]
    <3>1. b[j] = s[(k + 1) + j - 1]
      BY <2>2, <2>3
    <3>2. (k + 1) + j - 1 = k + j
      BY <1>2
    <3> QED BY <3>1, <3>2
  <2> QED
    BY <2>2, <2>4, <2>5
<1> DEFINE u == a \o b
<1>5. Unlink(s, i) = u
  BY DEF Unlink, RemoveAt, k
<1> HIDE DEF a, b
<1>6. /\ u \in Seq(S)
      /\ Len(u) = Len(s) - 1
      /\ \A j \in 1..(Len(s) - 1) : u[j] = IF j < k THEN s[j] ELSE s[j + 1]
  <2>1. /\ u \in Seq(S)
        /\ Len(u) = Len(a) + Len(b)
        /\ \A j \in 1..(Len(a) + Len(b)) : u[j] = IF j <= Len(a) THEN a[j] ELSE b[j - Len(a)]
    BY <1>3, <1>4, ConcatProperties
  <2> HIDE DEF u
  <2>2. Len(a) + Len(b) = Len(s) - 1
    BY <1>1, <1>2, <1>3, <1>4
  <2>3. ASSUME NEW j \in 1..(Len(s) - 1)
        PROVE  u[j] = IF j < k THEN s[j] ELSE s[j + 1]
    <3>1. CASE j < k
      BY <3>1, <2>1, <2>2, <1>1, <1>2, <1>3
    <3>2. CASE ~(j < k)
      <4>1. u[j] = b[j - (k - 1)]
        BY <3>2, <2>1, <2>2, <1>1, <1>2, <1>3
      <4>2. j - (k - 1) \in 1..(Len(s) - k) /\ k + (j - (k - 1)) = j + 1
        BY <3>2, <1>1, <1>2
      <4> QED
        BY <4>1, <4>2, <3>2, <1>4
    <3> QED
      BY <3>1, <3>2
  <2> QED
    BY <2>1, <2>2, <2>3
<1> HIDE DEF u
<1>7. DOMAIN u = 1..(Len(s) - 1)
  BY <1>6, LenProperties
<1>8. IsInjective(u)
  <2> SUFFICES ASSUME NEW m \in 1..(Len(s) - 1), NEW n \in 1..(Len(s) - 1), u[m] = u[n]
               PROVE  m = n
    BY <1>7 DEF IsInjective
  <2>1. \A x, y \in 1..Len(s) : s[x] = s[y] => x = y
    BY <1>1 DEF IsInjective
  <2>2. PICK x \in 1..Len(s) : x = (IF m < k THEN m ELSE m + 1)
    BY <1>1, <1>2
  <2>3. PICK y \in 1..Len(s) : y = (IF n < k THEN n ELSE n + 1)
    BY <1>1, <1>2
  <2>4. u[m] = s[x]
    BY <2>2, <1>6
  <2>5. u[n] = s[y]
    BY <2>3, <1>6
  <2>6. x = y
    BY <2>1, <2>4, <2>5
  <2> QED
    BY <2>2, <2>3, <2>6, <1>1, <1>2
<1>9. Range(u) = Range(s) \ {i}
  <2>1. ASSUME NEW x \in Range(u) PROVE x \in Range(s) \ {i}
    <3>1. PICK j \in 1..(Len(s) - 1) : x = u[j]
      BY <1>7 DEF Range
    <3>2. PICK n \in 1..Len(s) : x = s[n] /\ n # k
      BY <3>1, <1>1, <1>2, <1>6
    <3> QED
      BY <3>2, <1>1, <1>2 DEF Range, IsInjective
  <2>2. ASSUME NEW x \in Range(s), x # i PROVE x \in Range(u)
    <3>1. PICK n \in 1..Len(s) : x = s[n]
      BY <1>1 DEF Range
    <3>2. n # k
      BY <3>1, <2>2, <1>2
    <3>3. PICK j \in 1..(Len(s) - 1) : u[j] = s[n]
      <4>1. CASE n < k
        <5>1. n \in 1..(Len(s) - 1) /\ u[n] = s[n]
          BY <4>1, <1>1, <1>2, <1>6
        <5> QED BY <5>1
      <4>2. CASE n > k
        <5>1. n - 1 \in 1..(Len(s) - 1) /\ ~(n - 1 < k) /\ (n - 1) + 1 = n
          BY <4>2, <1>1, <1>2
        <5>2. u[n - 1] = s[n]
          BY <5>1, <1>6
        <5> QED BY <5>1, <5>2
      <4> QED BY <4>1, <4>2, <3>2, <1>1, <1>2
    <3> QED
      BY <3>1, <3>3, <1>7 DEF Range
  <2> QED
    BY <2>1, <2>2
<1> QED
  BY <1>5, <1>6, <1>8, <1>9

LEMMA PushFrontProperties ==
    ASSUME NEW S, NEW s \in Seq(S), IsInjective(s), NEW i \in S, i \notin Range(s)
    PROVE  /\ <<i>> \o s \in Seq(S)
           /\ Len(<<i>> \o s) = Len(s) + 1
           /\ IsInjective(<<i>> \o s)
           /\ Range(<<i>> \o s) = Range(s) \cup {i}
<1> DEFINE u == <<i>> \o s
<1>1. Len(s) \in Nat /\ DOMAIN s = 1..Len(s)
  BY LenProperties
<1>2. <<i>> \in Seq(S) /\ Len(<<i>>) = 1 /\ <<i>>[1] = i
  OBVIOUS
<1>3. /\ u \in Seq(S)
      /\ Len(u) = 1 + Len(s)
      /\ \A j \in 1..(1 + Len(s)) : u[j] = IF j <= 1 THEN <<i>>[j] ELSE s[j - 1]
  BY <1>2, ConcatProperties
<1> HIDE DEF u
<1>4. DOMAIN u = 1..(1 + Len(s))
  BY <1>3, LenProperties
<1>5. u[1] = i /\ \A j \in 2..(1 + Len(s)) : u[j] = s[j - 1] /\ j - 1 \in DOMAIN s
  BY <1>1, <1>2, <1>3
<1>6. \A n \in DOMAIN s : s[n] # i
  BY DEF Range
<1>7. IsInjective(u)
  <2> SUFFICES ASSUME NEW m \in 1..(1 + Len(s)), NEW n \in 1..(1 + Len(s)), u[m] = u[n]
               PROVE  m = n
    BY <1>4 DEF IsInjective
  <2>1. CASE m = 1
    <3>1. ~(n \in 2..(1 + Len(s)))
      BY <2>1, <1>5, <1>6
    <3> QED BY <2>1, <3>1, <1>1
  <2>2. CASE n = 1
    <3>1. ~(m \in 2..(1 + Len(s)))
      BY <2>2, <1>5, <1>6
    <3> QED BY <2>2, <3>1, <1>1
  <2>3. CASE m # 1 /\ n # 1
    <3>1. s[m - 1] = s[n - 1] /\ m - 1 \in DOMAIN s /\ n - 1 \in DOMAIN s
      BY <2>3, <1>1, <1>5
    <3>2. m - 1 = n - 1
      BY <3>1 DEF IsInjective
    <3> QED BY <3>2, <1>1
  <2> QED BY <2>1, <2>2, <2>3
<1>8. Range(u) = Range(s) \cup {i}
  <2>1. ASSUME NEW x \in Range(u) PROVE x \in Range(s) \cup {i}
    <3>1. PICK j \in 1..(1 + Len(s)) : x = u[j]
      BY <1>4 DEF Range
    <3> QED
      BY <3>1, <1>1, <1>5 DEF Range
  <2>2. ASSUME NEW x \in Range(s) PROVE x \in Range(u)
    <3>1. PICK n \in 1..Len(s) : x = s[n]
      BY <1>1 DEF Range
    <3>2. n + 1 \in 2..(1 + Len(s)) /\ (n + 1) - 1 = n
      BY <1>1
    <3>3. n + 1 \in DOMAIN u /\ u[n + 1] = x
      BY <3>1, <3>2, <1>1, <1>4, <1>5
    <3> QED
      BY <3>3 DEF Range
  <2>3. i \in Range(u)
    BY <1>1, <1>4, <1>5 DEF Range
  <2> QED
    BY <2>1, <2>2, <2>3
<1>9. Len(u) = Len(s) + 1
  BY <1>1, <1>3
<1> QED
  BY <1>3, <1>7, <1>8, <1>9 DEF u

\* The back of a list is what Unlink takes when it takes the last element.
LEMMA FrontProperties ==
    ASSUME NEW S, NEW s \in Seq(S), IsInjective(s), s # <<>>
    PROVE  /\ s[Len(s)] \in Range(s)
           /\ Front(s) \in Seq(S)
           /\ Len(Front(s)) = Len(s) - 1
           /\ IsInjective(Front(s))
           /\ Range(Front(s)) = Range(s) \ {s[Len(s)]}
<1> DEFINE u == Front(s)
<1>1. Len(s) \in Nat \ {0} /\ DOMAIN s = 1..Len(s) /\ \A j \in 1..Len(s) : s[j] \in S
  BY LenProperties, EmptySeq
<1>2. /\ u \in Seq(S)
      /\ Len(u) = Len(s) - 1
      /\ \A j \in 1..(Len(s) - 1) : u[j] = s[j]
  <2>1. \A j \in 1..(Len(s) - 1) : s[j] \in S
    BY <1>1
  <2>2. /\ u \in Seq(S)
        /\ Len(u) = IF 1 <= Len(s) - 1 THEN (Len(s) - 1) - 1 + 1 ELSE 0
        /\ \A j \in 1..((Len(s) - 1) - 1 + 1) : u[j] = s[1 + j - 1]
    BY <2>1, <1>1, SubSeqProperties DEF Front
  <2> HIDE DEF u
  <2>3. (Len(s) - 1) - 1 + 1 = Len(s) - 1
    BY <1>1
  <2>4. Len(u) = Len(s) - 1
    <3>1. CASE 1 <= Len(s) - 1
      BY <3>1, <2>2, <2>3
    <3>2. CASE ~(1 <= Len(s) - 1)
      BY <3>2, <2>2, <1>1
    <3> QED BY <3>1, <3>2
  <2>5. ASSUME NEW j \in 1..(Len(s) - 1) PROVE u[j] = s[j]
    <3>1. u[j] = s[1 + j - 1]
      BY <2>2, <2>3
    <3>2. 1 + j - 1 = j
      OBVIOUS
    <3> QED BY <3>1, <3>2
  <2> QED
    BY <2>2, <2>4, <2>5
<1> HIDE DEF u
<1>3. DOMAIN u = 1..(Len(s) - 1)
  BY <1>2, LenProperties
<1>4. s[Len(s)] \in Range(s)
  BY <1>1 DEF Range
<1>5. IsInjective(u)
  BY <1>1, <1>2, <1>3 DEF IsInjective
<1>6. Range(u) = Range(s) \ {s[Len(s)]}
  <2>1. ASSUME NEW x \in Range(u) PROVE x \in Range(s) \ {s[Len(s)]}
    <3>1. PICK j \in 1..(Len(s) - 1) : x = s[j]
      BY <1>2, <1>3 DEF Range
    <3> QED
      BY <3>1, <1>1 DEF Range, IsInjective
  <2>2. ASSUME NEW x \in Range(s), x # s[Len(s)] PROVE x \in Range(u)
    <3>1. PICK n \in 1..Len(s) : x = s[n]
      BY <1>1 DEF Range
    <3>2. n \in 1..(Len(s) - 1)
      BY <3>1, <2>2, <1>1
    <3> QED
      BY <3>1, <3>2, <1>2, <1>3 DEF Range
  <2> QED
    BY <2>1, <2>2
<1> QED
  BY <1>2, <1>4, <1>5, <1>6 DEF u

-----------------------------------------------------------------------------
(* What the operators of the cache do to their arguments.                  *)

LEMMA DropProperties ==
    ASSUME NEW e \in Entry, e.closes = 0
    PROVE  LET d == CloseOrMarkEvicted(e) IN
           /\ d \in Entry
           /\ d.path = e.path /\ d.hash = e.hash /\ d.version = e.version /\ d.refs = e.refs
           /\ \/ d.refs = 0 /\ d.closes = 1
              \/ d.refs > 0 /\ d.closes = 0 /\ d.evicted
<1> USE DEF CloseOrMarkEvicted, Close
<1>1. e.refs \in Nat /\ e.closes \in Nat
  BY DEF Entry
<1>2. CASE e.refs = 0
  <2>1. CloseOrMarkEvicted(e) = [e EXCEPT !.closes = 1]
    BY <1>2
  <2>2. [e EXCEPT !.closes = 1] \in Entry
    BY DEF Entry
  <2>3. [e EXCEPT !.closes = 1].closes = 1
    BY DEF Entry
  <2> QED
    BY <1>2, <2>1, <2>2, <2>3
<1>3. CASE e.refs # 0
  <2>1. CloseOrMarkEvicted(e) = [e EXCEPT !.evicted = TRUE]
    BY <1>3
  <2>2. [e EXCEPT !.evicted = TRUE] \in Entry
    BY DEF Entry
  <2>3. [e EXCEPT !.evicted = TRUE].evicted
    BY DEF Entry
  <2>4. e.refs > 0
    BY <1>1, <1>3
  <2> QED
    BY <2>1, <2>2, <2>3, <2>4
<1> QED
  BY <1>2, <1>3

\* The list without the stale entry of a path.
LEMMA KeptProperties ==
    ASSUME TypeOK, CacheConsistent, NEW p \in Paths
    PROVE  /\ Kept(p) \in Seq(Ids)
           /\ IsInjective(Kept(p))
           /\ Range(Kept(p)) = {items[q] : q \in Paths} \ {0, items[p]}
           /\ Len(Kept(p)) \in Nat
           /\ Len(Kept(p)) <= Len(order)
<1>1. order \in Seq(Ids) /\ IsInjective(order) /\ Range(order) = {items[q] : q \in Paths} \ {0}
  BY DEF TypeOK, CacheConsistent
<1>2. Len(order) \in Nat
  BY <1>1, LenProperties
<1>3. CASE items[p] = 0
  BY <1>1, <1>2, <1>3 DEF Kept
<1>4. CASE items[p] # 0
  <2>1. items[p] \in Range(order)
    BY <1>1, <1>4
  <2>2. /\ Unlink(order, items[p]) \in Seq(Ids)
        /\ Len(Unlink(order, items[p])) = Len(order) - 1
        /\ IsInjective(Unlink(order, items[p]))
        /\ Range(Unlink(order, items[p])) = Range(order) \ {items[p]}
    BY <1>1, <2>1, UnlinkProperties
  <2>3. Len(Unlink(order, items[p])) \in Nat
    BY <2>2, LenProperties
  <2>4. Kept(p) = Unlink(order, items[p])
    BY <1>4 DEF Kept
  <2> HIDE DEF Unlink
  <2> QED
    BY <1>1, <1>2, <2>2, <2>3, <2>4
<1> QED
  BY <1>3, <1>4

LEMMA ReadersFinite == \A i : IsFiniteSet(Readers(i)) /\ Cardinality(Readers(i)) \in Nat
BY ZipCacheAssumption, FS_Subset, FS_CardinalityType DEF Readers

\* A request that starts to read, and one that stops.
LEMMA ReadersJoin ==
    ASSUME TypeOK, NEW c \in Requests, NEW i \in Ids, Asking(c), Read(c, i)
    PROVE  /\ c \notin Readers(i)
           /\ Readers(i)' = Readers(i) \cup {c}
           /\ \A k \in Ids \ {i} : Readers(k)' = Readers(k)
BY DEF TypeOK, Readers, Reading, Asking, Read, Request

LEMMA ReadProperties ==
    ASSUME TypeOK, NEW c \in Requests, NEW i \in Ids, Read(c, i)
    PROVE  /\ reqs' \in [Requests -> Request]
           /\ reqs'[c].pc = "reading" /\ reqs'[c].entry = i
           /\ reqs'[c].path = reqs[c].path
           /\ \A d \in Requests \ {c} : reqs'[d] = reqs[d]
<1>1. reqs[c] \in Request /\ i \in 0..MaxOpens
  BY ZipCacheAssumption DEF TypeOK, Ids
<1>2. PICK r : r = [reqs[c] EXCEPT !.pc = "reading", !.entry = i]
  OBVIOUS
<1>3. r \in Request /\ r.pc = "reading" /\ r.entry = i /\ r.path = reqs[c].path
  BY <1>1, <1>2 DEF Request
<1>4. reqs' = [reqs EXCEPT ![c] = r]
  BY <1>2 DEF Read
<1> QED
  BY <1>3, <1>4 DEF TypeOK

LEMMA ReadersLeave ==
    ASSUME TypeOK, NEW c \in Requests, NEW i \in Ids, Reading(c, i),
           reqs' = [reqs EXCEPT ![c] = NoRequest]
    PROVE  /\ c \in Readers(i)
           /\ Readers(i)' = Readers(i) \ {c}
           /\ \A k \in Ids \ {i} : Readers(k)' = Readers(k)
BY DEF TypeOK, Readers, Reading, NoRequest, Request

LEMMA ReadersStay ==
    ASSUME TypeOK, NEW c \in Requests, reqs[c].pc # "reading",
           NEW r \in Request, r.pc # "reading", reqs' = [reqs EXCEPT ![c] = r]
    PROVE  \A k \in Ids : Readers(k)' = Readers(k)
BY DEF TypeOK, Readers, Reading, Request

-----------------------------------------------------------------------------
(* The inductive invariant.                                                *)

LEMMA CacheInit == Init => CacheInv
<1> SUFFICES ASSUME Init PROVE CacheInv
  OBVIOUS
<1>1. \A i \in Ids : Readers(i) = {}
  BY DEF Init, Readers, Reading, NoRequest
<1>2. TypeOK
  BY ZipCacheAssumption DEF Init, TypeOK, NoEntry, NoRequest, NoScan, Entry, Request, Scan, Version
<1>3. Numbered
  BY ZipCacheAssumption DEF Init, Numbered, NoRequest
<1>4. RefsExact
  BY <1>1, FS_EmptySet DEF Init, RefsExact, NoEntry
<1>5. CacheConsistent
  BY DEF Init, CacheConsistent, IsInjective, Range
<1>6. CachedLive /\ DroppedSettled
  BY DEF Init, CachedLive, DroppedSettled
<1> QED
  BY <1>2, <1>3, <1>4, <1>5, <1>6 DEF CacheInv

\* Steps that touch neither the cache nor what any request reads.
LEMMA QuietStep ==
    ASSUME CacheInv, TypeOK', UNCHANGED cacheVars,
           \A k \in Ids : Readers(k)' = Readers(k),
           \A c \in Requests : /\ reqs'[c].entry <= opened
                               /\ reqs'[c].pc = "reading" => reqs'[c].entry # 0
                               /\ reqs'[c].pc # "idle" => reqs'[c].path \in Paths
    PROVE  CacheInv'
<1>0. entries' = entries /\ opened' = opened /\ items' = items /\ order' = order
  BY DEF cacheVars
<1>1. Numbered'
  <2>1. Numbered
    BY DEF CacheInv
  <2>2. \A i \in Ids : i > opened' => entries'[i] = NoEntry
    BY <1>0, <2>1 DEF Numbered
  <2>3. \A p \in Paths : items'[p] <= opened'
    BY <1>0, <2>1 DEF Numbered
  <2>4. \A c \in Requests : /\ reqs'[c].entry <= opened'
                            /\ reqs'[c].pc = "reading" => reqs'[c].entry # 0
                            /\ reqs'[c].pc # "idle" => reqs'[c].path \in Paths
    BY <1>0
  <2> QED
    BY <2>2, <2>3, <2>4 DEF Numbered
<1>2. RefsExact'
  BY <1>0 DEF CacheInv, RefsExact
<1>3. CacheConsistent'
  BY <1>0 DEF CacheInv, CacheConsistent
<1>4. CachedLive' /\ DroppedSettled'
  BY <1>0 DEF CacheInv, CachedLive, DroppedSettled, Cached
<1> QED
  BY <1>1, <1>2, <1>3, <1>4 DEF CacheInv

LEMMA GetHitStep ==
    ASSUME CacheInv, NEW c \in Requests, GetHit(c)
    PROVE  CacheInv'
<1>0. PICK p \in Paths : p = reqs[c].path
  BY DEF CacheInv, Numbered, GetHit, Hit, Asking
<1>1. PICK i \in Ids : i = items[p] /\ i <= opened /\ i # 0 /\ opened \in Nat
  BY <1>0 DEF CacheInv, TypeOK, Numbered, GetHit, Hit, Ids
<1>2. /\ entries' = [entries EXCEPT ![i].refs = @ + 1]
      /\ order' = <<i>> \o Unlink(order, i)
      /\ Asking(c) /\ Read(c, i)
      /\ UNCHANGED <<opened, items, fileVars>>
  BY <1>0, <1>1 DEF GetHit, Hit
<1>3. /\ \A k \in Ids : entries[k] \in Entry
      /\ \A k \in Ids \ {i} : entries'[k] = entries[k]
      /\ entries'[i] = [entries[i] EXCEPT !.refs = @ + 1]
  BY <1>1, <1>2 DEF CacheInv, TypeOK
<1>4. /\ entries'[i] \in Entry
      /\ entries'[i].refs = entries[i].refs + 1
      /\ entries'[i].closes = entries[i].closes
      /\ entries'[i].evicted = entries[i].evicted
      /\ entries'[i].path = entries[i].path
  BY <1>1, <1>3 DEF Entry
<1>5. /\ order' \in Seq(Ids)
      /\ Len(order') = Len(order)
      /\ IsInjective(order')
      /\ Range(order') = Range(order)
  <2>1. order \in Seq(Ids) /\ IsInjective(order) /\ i \in Range(order)
    BY <1>1 DEF CacheInv, TypeOK, CacheConsistent, Ids
  <2>2. /\ Unlink(order, i) \in Seq(Ids)
        /\ Len(Unlink(order, i)) = Len(order) - 1
        /\ IsInjective(Unlink(order, i))
        /\ Range(Unlink(order, i)) = Range(order) \ {i}
    BY <2>1, UnlinkProperties
  <2>3. /\ <<i>> \o Unlink(order, i) \in Seq(Ids)
        /\ Len(<<i>> \o Unlink(order, i)) = Len(Unlink(order, i)) + 1
        /\ IsInjective(<<i>> \o Unlink(order, i))
        /\ Range(<<i>> \o Unlink(order, i)) = Range(Unlink(order, i)) \cup {i}
    BY <2>2, <1>1, PushFrontProperties
  <2>4. Len(order) \in Nat
    BY <2>1, LenProperties
  <2>5. Len(order') = Len(order)
    BY <2>2, <2>3, <2>4, <1>2
  <2>6. Range(order') = Range(order)
    BY <2>1, <2>2, <2>3, <1>2
  <2> QED
    BY <2>3, <2>5, <2>6, <1>2
<1>6. /\ c \notin Readers(i)
      /\ Readers(i)' = Readers(i) \cup {c}
      /\ \A k \in Ids \ {i} : Readers(k)' = Readers(k)
  BY <1>1, <1>2, ReadersJoin DEF CacheInv
<1>7. TypeOK'
  <2>1. entries' \in [Ids -> Entry]
    BY <1>1, <1>2, <1>3, <1>4 DEF CacheInv, TypeOK
  <2>2. reqs' \in [Requests -> Request]
    BY <1>1, <1>2, ReadProperties DEF CacheInv
  <2> QED
    BY <2>1, <2>2, <1>2, <1>5 DEF CacheInv, TypeOK, fileVars
<1>8. Numbered'
  <2>1. \A k \in Ids : k > opened => k # i /\ entries[k] = NoEntry
    BY <1>1 DEF CacheInv, Numbered, Ids
  <2>2. /\ reqs'[c].pc = "reading" /\ reqs'[c].entry = i
        /\ reqs'[c].path = reqs[c].path
        /\ \A d \in Requests \ {c} : reqs'[d] = reqs[d]
    BY <1>1, <1>2, ReadProperties DEF CacheInv
  <2>3. reqs'[c].path \in Paths
    BY <1>0, <2>2
  <2>4. /\ \A q \in Paths : items[q] <= opened
        /\ \A d \in Requests : reqs[d].entry <= opened
        /\ \A d \in Requests : reqs[d].pc = "reading" => reqs[d].entry # 0
        /\ \A d \in Requests : reqs[d].pc # "idle" => reqs[d].path \in Paths
    BY DEF CacheInv, Numbered
  <2>5. \A k \in Ids : k > opened' => entries'[k] = NoEntry
    BY <2>1, <1>2, <1>3
  <2>6. ASSUME NEW d \in Requests
        PROVE  /\ reqs'[d].entry <= opened'
               /\ reqs'[d].pc = "reading" => reqs'[d].entry # 0
               /\ reqs'[d].pc # "idle" => reqs'[d].path \in Paths
    <3>1. CASE d = c
      BY <3>1, <2>2, <2>3, <1>1, <1>2
    <3>2. CASE d # c
      BY <3>2, <2>2, <2>4, <1>2
    <3> QED BY <3>1, <3>2
  <2> QED
    BY <2>4, <2>5, <2>6, <1>2 DEF Numbered
<1>9. RefsExact'
  <2>1. Cardinality(Readers(i)') = Cardinality(Readers(i)) + 1
    BY <1>6, ReadersFinite, FS_AddElement
  <2>2. RefsExact
    BY DEF CacheInv
  <2>3. entries'[i].refs = Cardinality(Readers(i)')
    BY <2>1, <2>2, <1>4 DEF RefsExact
  <2>4. \A k \in Ids \ {i} : entries'[k].refs = Cardinality(Readers(k)')
    BY <2>2, <1>3, <1>6 DEF RefsExact
  <2> QED
    BY <2>3, <2>4 DEF RefsExact
<1>10. CacheConsistent'
  <2>1. /\ Range(order) = {items[q] : q \in Paths} \ {0}
        /\ \A q \in Paths : items[q] # 0 => entries[items[q]].path = q
        /\ Len(order) <= Cap \/ Len(order) <= 1
    BY DEF CacheInv, CacheConsistent
  <2>2. ASSUME NEW q \in Paths, items[q] # 0 PROVE entries'[items[q]].path = q
    <3>1. items[q] \in Ids
      BY <2>2 DEF CacheInv, TypeOK, Ids
    <3> QED
      BY <2>1, <2>2, <3>1, <1>3, <1>4
  <2> QED
    BY <2>1, <2>2, <1>2, <1>5 DEF CacheConsistent
<1>11. CachedLive'
  BY <1>1, <1>2, <1>3, <1>4 DEF CacheInv, TypeOK, CachedLive, Ids
<1>12. DroppedSettled'
  <2>1. Cached(i)'
    BY <1>1, <1>2 DEF Cached
  <2>2. \A k : Cached(k)' = Cached(k)
    BY <1>2 DEF Cached
  <2> QED
    BY <2>1, <2>2, <1>1, <1>2, <1>3 DEF CacheInv, TypeOK, DroppedSettled, Ids
<1> QED
  BY <1>7, <1>8, <1>9, <1>10, <1>11, <1>12 DEF CacheInv

LEMMA ReleaseStep ==
    ASSUME CacheInv, NEW c \in Requests, Release(c)
    PROVE  CacheInv'
<1>1. PICK i \in Ids : /\ i = reqs[c].entry /\ i \in 1..opened
                       /\ opened \in 0..MaxOpens /\ Reading(c, i)
  BY DEF CacheInv, TypeOK, Numbered, Release, Ids, Request, Reading
<1>2. /\ entries' = [entries EXCEPT ![i] = Left(@)]
      /\ reqs' = [reqs EXCEPT ![c] = NoRequest]
      /\ UNCHANGED <<opened, items, order, fileVars>>
  BY <1>1 DEF Release
<1>3. /\ c \in Readers(i)
      /\ Readers(i)' = Readers(i) \ {c}
      /\ \A k \in Ids \ {i} : Readers(k)' = Readers(k)
  BY <1>1, <1>2, ReadersLeave DEF CacheInv
<1>4. /\ \A k \in Ids : entries[k] \in Entry
      /\ \A k \in Ids \ {i} : entries'[k] = entries[k]
      /\ entries'[i] = Left(entries[i])
  BY <1>1, <1>2 DEF CacheInv, TypeOK
<1>5. entries[i].refs \in Nat /\ entries[i].refs > 0 /\ entries[i].closes \in Nat
  <2>1. Cardinality(Readers(i)) # 0
    BY <1>3, ReadersFinite, FS_EmptySet
  <2> QED
    BY <2>1, <1>1, <1>4, ReadersFinite DEF CacheInv, RefsExact, Entry
<1>6. /\ entries'[i] \in Entry
      /\ entries'[i].path = entries[i].path
      /\ entries'[i].refs = entries[i].refs - 1
      /\ entries'[i].evicted = entries[i].evicted
      /\ entries'[i].closes = IF entries[i].refs = 1 /\ entries[i].evicted
                             THEN entries[i].closes + 1 ELSE entries[i].closes
  <2>1. entries[i] \in Entry
    BY <1>1, <1>4
  <2>2. CASE entries[i].refs = 1 /\ entries[i].evicted
    <3>1. entries'[i] = [entries[i] EXCEPT !.refs = 0, !.closes = @ + 1]
      BY <2>1, <2>2, <1>4 DEF Left, Close, Entry
    <3>2. entries[i].closes + 1 \in Nat /\ 0 = entries[i].refs - 1
      BY <2>2, <1>5
    <3>3. [entries[i] EXCEPT !.refs = 0, !.closes = @ + 1] \in Entry
      BY <2>1, <3>2 DEF Entry
    <3>4. /\ entries'[i].path = entries[i].path
          /\ entries'[i].refs = 0
          /\ entries'[i].evicted = entries[i].evicted
          /\ entries'[i].closes = entries[i].closes + 1
      BY <2>1, <3>1 DEF Entry
    <3> QED
      BY <2>2, <3>1, <3>2, <3>3, <3>4
  <2>3. CASE ~(entries[i].refs = 1 /\ entries[i].evicted)
    <3>1. entries'[i] = [entries[i] EXCEPT !.refs = @ - 1]
      BY <2>3, <1>4 DEF Left
    <3>2. entries[i].refs - 1 \in Nat
      BY <1>5
    <3> QED
      BY <2>1, <2>3, <3>1, <3>2 DEF Entry
  <2> QED
    BY <2>2, <2>3
<1>7. TypeOK'
  <2>1. entries' \in [Ids -> Entry]
    BY <1>1, <1>2, <1>4, <1>6 DEF CacheInv, TypeOK
  <2>2. NoRequest \in Request
    BY ZipCacheAssumption DEF NoRequest, Request, Version
  <2>3. reqs' \in [Requests -> Request]
    BY <1>2, <2>2 DEF CacheInv, TypeOK
  <2> QED
    BY <2>1, <2>3, <1>2 DEF CacheInv, TypeOK, fileVars
<1>8. Numbered'
  BY <1>1, <1>2, <1>4 DEF CacheInv, TypeOK, Numbered, Ids, NoRequest, Request
<1>9. RefsExact'
  <2>1. Cardinality(Readers(i)') = Cardinality(Readers(i)) - 1
    BY <1>3, ReadersFinite, FS_RemoveElement
  <2>2. RefsExact
    BY DEF CacheInv
  <2>3. entries'[i].refs = Cardinality(Readers(i)')
    BY <2>1, <2>2, <1>6 DEF RefsExact
  <2>4. \A k \in Ids \ {i} : entries'[k].refs = Cardinality(Readers(k)')
    BY <2>2, <1>3, <1>4 DEF RefsExact
  <2> QED
    BY <2>3, <2>4 DEF RefsExact
<1>10. CacheConsistent'
  <2>1. /\ IsInjective(order)
        /\ Range(order) = {items[q] : q \in Paths} \ {0}
        /\ \A q \in Paths : items[q] # 0 => entries[items[q]].path = q
        /\ Len(order) <= Cap \/ Len(order) <= 1
    BY DEF CacheInv, CacheConsistent
  <2>2. ASSUME NEW q \in Paths, items[q] # 0 PROVE entries'[items[q]].path = q
    <3>1. items[q] \in Ids
      BY <2>2 DEF CacheInv, TypeOK, Ids
    <3> QED
      BY <2>1, <2>2, <3>1, <1>4, <1>6
  <2> QED
    BY <2>1, <2>2, <1>2 DEF CacheConsistent
<1>11. CachedLive'
  BY <1>1, <1>2, <1>4, <1>6 DEF CacheInv, TypeOK, CachedLive, Ids
<1>12. DroppedSettled'
  <2>1. \A k : Cached(k)' = Cached(k)
    BY <1>2 DEF Cached
  <2>2. ASSUME NEW k \in 1..opened, ~Cached(k)
        PROVE  \/ entries'[k].refs = 0 /\ entries'[k].closes = 1
               \/ entries'[k].refs > 0 /\ entries'[k].closes = 0 /\ entries'[k].evicted
    <3>1. \/ entries[k].refs = 0 /\ entries[k].closes = 1
          \/ entries[k].refs > 0 /\ entries[k].closes = 0 /\ entries[k].evicted
      BY <2>2 DEF CacheInv, DroppedSettled
    <3>2. k \in Ids
      BY <1>1, ZipCacheAssumption DEF Ids
    <3>3. CASE k # i
      BY <3>1, <3>2, <3>3, <1>4
    <3>4. CASE k = i
      BY <3>1, <3>4, <1>5, <1>6
    <3> QED
      BY <3>3, <3>4
  <2> QED
    BY <2>1, <2>2, <1>2 DEF DroppedSettled
<1> QED
  BY <1>7, <1>8, <1>9, <1>10, <1>11, <1>12 DEF CacheInv

\* An entry that is in the cache gives up its place there.
LEMMA DroppedEntry ==
    ASSUME CacheInv, NEW q \in Paths, NEW k \in Ids, items[q] = k
    PROVE  LET d == CloseOrMarkEvicted(entries[k]) IN
           /\ d \in Entry
           /\ d.path = entries[k].path /\ d.hash = entries[k].hash
           /\ d.version = entries[k].version /\ d.refs = entries[k].refs
           /\ \/ d.refs = 0 /\ d.closes = 1
              \/ d.refs > 0 /\ d.closes = 0 /\ d.evicted
<1>1. entries[k] \in Entry
  BY DEF CacheInv, TypeOK
<1>2. entries[k].closes = 0
  BY DEF CacheInv, CachedLive, Ids
<1> QED
  BY <1>1, <1>2, DropProperties

\* Two paths never share an entry.
LEMMA ItemsInjective ==
    ASSUME CacheInv, NEW q \in Paths, NEW r \in Paths, items[q] # 0, items[q] = items[r]
    PROVE  q = r
BY DEF CacheInv, CacheConsistent

LEMMA GetFailsStep ==
    ASSUME CacheInv, NEW c \in Requests, GetFails(c)
    PROVE  CacheInv'
<1>1. PICK p \in Paths : p = reqs[c].path
  BY DEF CacheInv, Numbered, GetFails, Asking
<1>2. PICK i \in 0..MaxOpens : i = items[p] /\ i <= opened
  BY DEF CacheInv, TypeOK, Numbered
<1>3. /\ entries' = [k \in Ids |-> IF k = i THEN CloseOrMarkEvicted(entries[k]) ELSE entries[k]]
      /\ items' = [items EXCEPT ![p] = 0]
      /\ order' = Kept(p)
      /\ reqs' = [reqs EXCEPT ![c] = NoRequest]
      /\ reqs[c].pc = "asking"
      /\ UNCHANGED <<opened, fileVars>>
  BY <1>1, <1>2 DEF GetFails, Asking
<1>4. /\ NoRequest \in Request /\ NoRequest.pc = "idle" /\ NoRequest.entry = 0
      /\ opened \in 0..MaxOpens
  BY ZipCacheAssumption DEF NoRequest, Request, Version, CacheInv, TypeOK
<1>5. \A k \in Ids : Readers(k)' = Readers(k)
  <2>1. TypeOK
    BY DEF CacheInv
  <2> QED
    BY <1>3, <1>4, <2>1, ReadersStay
<1>6. ASSUME NEW k \in Ids, k = i
      PROVE  /\ entries'[k] \in Entry
             /\ entries'[k].path = entries[k].path
             /\ entries'[k].refs = entries[k].refs
             /\ \/ entries'[k].refs = 0 /\ entries'[k].closes = 1
                \/ entries'[k].refs > 0 /\ entries'[k].closes = 0 /\ entries'[k].evicted
  <2>1. entries'[k] = CloseOrMarkEvicted(entries[k])
    BY <1>3, <1>6
  <2> QED
    BY <1>2, <1>6, <2>1, DroppedEntry
<1>7. \A k \in Ids : k # i => entries'[k] = entries[k]
  BY <1>3
<1>8. \A q \in Paths : items'[q] = IF q = p THEN 0 ELSE items[q]
  BY <1>3 DEF CacheInv, TypeOK
<1>9. \A q \in Paths : q # p /\ items[q] # 0 => items[q] # i
  BY <1>2, ItemsInjective
<1>10. /\ order' \in Seq(Ids)
       /\ IsInjective(order')
       /\ Range(order') = {items[q] : q \in Paths} \ {0, i}
       /\ Len(order') \in Nat
       /\ Len(order') <= Len(order)
  BY <1>2, <1>3, KeptProperties DEF CacheInv
<1>11. TypeOK'
  <2>1. \A k \in Ids : entries'[k] \in Entry
    BY <1>6, <1>7 DEF CacheInv, TypeOK
  <2>2. entries' \in [Ids -> Entry]
    BY <1>3, <2>1
  <2>3. items' \in [Paths -> 0..MaxOpens]
    BY <1>3, <1>4, ZipCacheAssumption DEF CacheInv, TypeOK
  <2>4. reqs' \in [Requests -> Request]
    BY <1>3, <1>4 DEF CacheInv, TypeOK
  <2> QED
    BY <2>2, <2>3, <2>4, <1>3, <1>10 DEF CacheInv, TypeOK, fileVars
<1>12. Numbered'
  <2>1. Numbered
    BY DEF CacheInv
  <2>2. \A k \in Ids : k > opened' => entries'[k] = NoEntry
    BY <2>1, <1>2, <1>3, <1>4, <1>7 DEF Numbered, Ids
  <2>3. \A q \in Paths : items'[q] <= opened'
    BY <2>1, <1>3, <1>4, <1>8 DEF Numbered
  <2>4. \A d \in Requests : reqs'[d] = IF d = c THEN NoRequest ELSE reqs[d]
    BY <1>3 DEF CacheInv, TypeOK
  <2>5. \A d \in Requests : reqs'[d].entry <= opened'
    BY <2>1, <2>4, <1>3, <1>4 DEF Numbered
  <2>6. \A d \in Requests : reqs'[d].pc = "reading" => reqs'[d].entry # 0
    BY <2>1, <2>4, <1>4 DEF Numbered
  <2>7. \A d \in Requests : reqs'[d].pc # "idle" => reqs'[d].path \in Paths
    BY <2>1, <2>4, <1>4 DEF Numbered
  <2> QED
    BY <2>2, <2>3, <2>5, <2>6, <2>7 DEF Numbered
<1>13. RefsExact'
  BY <1>5, <1>6, <1>7 DEF CacheInv, RefsExact
<1>14. CacheConsistent'
  <2>1. Range(order') = {items'[q] : q \in Paths} \ {0}
    BY <1>2, <1>8, <1>9, <1>10
  <2>2. ASSUME NEW q \in Paths, items'[q] # 0 PROVE entries'[items'[q]].path = q
    <3>1. q # p /\ items'[q] = items[q] /\ items[q] # 0 /\ items[q] # i /\ items[q] \in Ids
      BY <2>2, <1>8, <1>9 DEF CacheInv, TypeOK, Ids
    <3> QED
      BY <3>1, <1>7 DEF CacheInv, CacheConsistent
  <2>3. Len(order) \in Nat
    BY LenProperties DEF CacheInv, TypeOK
  <2>4. Len(order') <= Cap \/ Len(order') <= 1
    BY <2>3, <1>10, ZipCacheAssumption DEF CacheInv, CacheConsistent
  <2> QED
    BY <2>1, <2>2, <2>4, <1>10 DEF CacheConsistent
<1>15. CachedLive'
  <2>1. ASSUME NEW q \in Paths, items'[q] # 0
        PROVE  entries'[items'[q]].closes = 0 /\ ~entries'[items'[q]].evicted
    <3>1. items'[q] = items[q] /\ items[q] # 0 /\ items[q] # i /\ items[q] \in Ids
      BY <2>1, <1>8, <1>9 DEF CacheInv, TypeOK, Ids
    <3> QED
      BY <3>1, <1>7 DEF CacheInv, CachedLive
  <2> QED
    BY <2>1 DEF CachedLive
<1>16. DroppedSettled'
  <2>1. ASSUME NEW k \in 1..opened, ~Cached(k)'
        PROVE  \/ entries'[k].refs = 0 /\ entries'[k].closes = 1
               \/ entries'[k].refs > 0 /\ entries'[k].closes = 0 /\ entries'[k].evicted
    <3>1. k \in Ids /\ k # 0
      BY <1>4, ZipCacheAssumption DEF Ids
    <3>2. CASE k = i
      BY <3>1, <3>2, <1>6
    <3>3. CASE k # i
      <4>1. ~Cached(k)
        BY <2>1, <3>1, <3>3, <1>2, <1>8 DEF Cached
      <4> QED
        BY <4>1, <3>1, <3>3, <1>7 DEF CacheInv, DroppedSettled
    <3> QED
      BY <3>2, <3>3
  <2> QED
    BY <2>1, <1>3 DEF DroppedSettled
<1> QED
  BY <1>11, <1>12, <1>13, <1>14, <1>15, <1>16 DEF CacheInv

LEMMA GetOpensStep ==
    ASSUME CacheInv, NEW c \in Requests, GetOpens(c)
    PROVE  CacheInv'
<1>1. PICK p \in Paths : p = reqs[c].path
  BY DEF CacheInv, Numbered, GetOpens, Asking
<1>2. PICK s \in 0..MaxOpens : s = items[p] /\ s <= opened
  BY DEF CacheInv, TypeOK, Numbered
<1>3. PICK kept \in Seq(Ids) :
         /\ kept = Kept(p)
         /\ IsInjective(kept)
         /\ Range(kept) = {items[q] : q \in Paths} \ {0, s}
         /\ Len(kept) \in Nat
         /\ Len(kept) <= Len(order)
  BY <1>2, KeptProperties DEF CacheInv
<1>4. PICK i \in Ids : i = opened + 1 /\ opened \in Nat /\ opened <= MaxOpens
  BY ZipCacheAssumption DEF GetOpens, CacheInv, TypeOK, Ids
<1>5. PICK v \in 0..MaxOpens : v = Victim(kept) /\ (v # 0 => v \in Range(kept))
  <2>1. CASE Len(kept) >= Cap /\ kept # <<>>
    <3>1. kept[Len(kept)] \in Range(kept)
      BY <2>1, <1>3, FrontProperties
    <3>2. kept[Len(kept)] \in 0..MaxOpens
      BY <3>1, <1>3 DEF CacheInv, TypeOK
    <3> QED
      BY <2>1, <3>1, <3>2 DEF Victim
  <2>2. CASE ~(Len(kept) >= Cap /\ kept # <<>>)
    BY <2>2, ZipCacheAssumption DEF Victim
  <2> QED
    BY <2>1, <2>2
<1>6. PICK new \in Entry :
         /\ new = NewEntry(p, reqs[c].hash)
         /\ new.path = p /\ new.refs = 1 /\ new.closes = 0 /\ ~new.evicted
  <2>1. reqs[c].hash \in Version /\ file[p] \in Version
    BY DEF CacheInv, TypeOK, Request
  <2>2. NewEntry(p, reqs[c].hash) \in Entry
    BY <2>1 DEF NewEntry, Entry
  <2> QED
    BY <2>2 DEF NewEntry
<1>7. /\ entries' = [k \in Ids |-> IF k = i THEN new
                                   ELSE IF k \in {s, v} THEN CloseOrMarkEvicted(entries[k])
                                   ELSE entries[k]]
      /\ items' = [q \in Paths |-> IF q = p THEN i
                                   ELSE IF v # 0 /\ entries[v].path = q THEN 0
                                   ELSE items[q]]
      /\ order' = <<i>> \o IF v = 0 THEN kept ELSE Front(kept)
      /\ opened' = i
      /\ Asking(c) /\ Read(c, i)
      /\ UNCHANGED fileVars
  BY <1>1, <1>2, <1>3, <1>4, <1>5, <1>6 DEF GetOpens, Opened
\* The victim is the entry of another path; it loses that path's key.
<1>8. ASSUME v # 0
      PROVE  \E q \in Paths : q # p /\ items[q] = v /\ entries[v].path = q /\ v # s
  <2>1. PICK q \in Paths : items[q] = v /\ v # s
    BY <1>8, <1>3, <1>5
  <2> QED
    BY <2>1, <1>2, <1>8 DEF CacheInv, CacheConsistent
<1>9. \A q \in Paths : items[q] \in 0..opened /\ items[q] # i
  BY <1>4 DEF CacheInv, TypeOK, Numbered
<1>10. \A q \in Paths : q # p => items'[q] = IF items[q] \in {s, v} THEN 0 ELSE items[q]
  <2>1. ASSUME NEW q \in Paths, q # p
        PROVE  items'[q] = IF items[q] \in {s, v} THEN 0 ELSE items[q]
    <3>1. items[q] = 0 \/ items[q] # s
      BY <2>1, <1>2, ItemsInjective
    <3>2. CASE v # 0
      <4>1. items[q] = v <=> entries[v].path = q
        BY <3>2, <1>8 DEF CacheInv, CacheConsistent
      <4> QED
        BY <2>1, <3>1, <3>2, <4>1, <1>7
    <3>3. CASE v = 0
      BY <2>1, <3>1, <3>3, <1>7
    <3> QED
      BY <3>2, <3>3
  <2> QED
    BY <2>1
<1>11. items'[p] = i
  BY <1>7
<1>12. \A q \in Paths : \A k \in Ids : items'[q] = k => k = i \/ (k = items[q] /\ k \notin {s, v})
  BY <1>10, <1>11 DEF Ids
<1>13. ASSUME NEW k \in Ids, k \in {s, v}, k # i
       PROVE  /\ entries'[k] \in Entry
              /\ entries'[k].path = entries[k].path
              /\ entries'[k].refs = entries[k].refs
              /\ \/ entries'[k].refs = 0 /\ entries'[k].closes = 1
                 \/ entries'[k].refs > 0 /\ entries'[k].closes = 0 /\ entries'[k].evicted
  <2>1. PICK q \in Paths : items[q] = k
    BY <1>2, <1>8, <1>13 DEF Ids
  <2>2. entries'[k] = CloseOrMarkEvicted(entries[k])
    BY <1>7, <1>13
  <2> QED
    BY <2>1, <2>2, DroppedEntry
<1>14. /\ entries'[i] = new
       /\ \A k \in Ids : k \notin {i, s, v} => entries'[k] = entries[k]
  BY <1>7
<1>15. /\ order' \in Seq(Ids)
       /\ IsInjective(order')
       /\ Range(order') = (Range(kept) \ {v}) \cup {i}
       /\ Len(order') <= Cap \/ Len(order') <= 1
  <2>1. i \notin Range(kept)
    BY <1>3, <1>9
  <2>2. Len(order) \in Nat /\ (Len(order) <= Cap \/ Len(order) <= 1)
    BY LenProperties DEF CacheInv, TypeOK, CacheConsistent
  <2>3. CASE v = 0
    <3>1. /\ <<i>> \o kept \in Seq(Ids)
          /\ Len(<<i>> \o kept) = Len(kept) + 1
          /\ IsInjective(<<i>> \o kept)
          /\ Range(<<i>> \o kept) = Range(kept) \cup {i}
      BY <2>1, <1>3, PushFrontProperties
    <3>2. Len(kept) < Cap \/ Len(kept) = 0
      <4>1. CASE kept = <<>>
        BY <4>1
      <4>2. CASE kept # <<>>
        <5>1. ~(Len(kept) >= Cap)
          <6>1. kept[Len(kept)] \in Ids
            BY <4>2, <1>3, FrontProperties, RangeOfSeq
          <6> QED
            BY <6>1, <4>2, <2>3, <1>5 DEF Victim, Ids
        <5> QED
          BY <5>1, <1>3, ZipCacheAssumption
      <4> QED
        BY <4>1, <4>2
    <3>3. Len(<<i>> \o kept) <= Cap \/ Len(<<i>> \o kept) <= 1
      BY <3>1, <3>2, <1>3, ZipCacheAssumption
    <3>4. 0 \notin Range(kept) /\ order' = <<i>> \o kept
      BY <1>3, <1>7, <2>3
    <3> QED
      BY <2>3, <3>1, <3>3, <3>4
  <2>4. CASE v # 0
    <3>1. kept # <<>> /\ v = kept[Len(kept)]
      BY <2>4, <1>5 DEF Victim
    <3>2. /\ Front(kept) \in Seq(Ids)
          /\ Len(Front(kept)) = Len(kept) - 1
          /\ IsInjective(Front(kept))
          /\ Range(Front(kept)) = Range(kept) \ {v}
      BY <3>1, <1>3, FrontProperties
    <3>3. /\ <<i>> \o Front(kept) \in Seq(Ids)
          /\ Len(<<i>> \o Front(kept)) = Len(Front(kept)) + 1
          /\ IsInjective(<<i>> \o Front(kept))
          /\ Range(<<i>> \o Front(kept)) = Range(Front(kept)) \cup {i}
      BY <2>1, <3>2, PushFrontProperties
    <3>4. order' = <<i>> \o Front(kept)
      BY <2>4, <1>7
    <3>5. Len(<<i>> \o Front(kept)) = Len(kept)
      BY <3>2, <3>3, <1>3
    <3>6. Len(<<i>> \o Front(kept)) <= Cap \/ Len(<<i>> \o Front(kept)) <= 1
      BY <3>5, <2>2, <1>3, ZipCacheAssumption
    <3> QED
      BY <3>2, <3>3, <3>4, <3>6
  <2> QED
    BY <2>3, <2>4
<1>16. /\ Readers(i)' = Readers(i) \cup {c}
       /\ \A k \in Ids \ {i} : Readers(k)' = Readers(k)
  BY <1>7, ReadersJoin DEF CacheInv
<1>17. Readers(i) = {}
  BY <1>4 DEF CacheInv, TypeOK, Request, Numbered, Readers, Reading
<1>18. TypeOK'
  <2>1. \A k \in Ids : entries'[k] \in Entry
    BY <1>13, <1>14 DEF CacheInv, TypeOK
  <2>2. entries' \in [Ids -> Entry]
    BY <2>1, <1>7
  <2>3. items' \in [Paths -> 0..MaxOpens]
    <3>1. \A q \in Paths : items'[q] \in 0..MaxOpens
      <4>1. /\ i \in 0..MaxOpens /\ 0 \in 0..MaxOpens
            /\ \A q \in Paths : items[q] \in 0..MaxOpens
        BY ZipCacheAssumption DEF Ids, CacheInv, TypeOK
      <4> QED
        BY <4>1, <1>10, <1>11
    <3> QED
      BY <3>1, <1>7
  <2>4. reqs' \in [Requests -> Request]
    <3>1. i \in 0..MaxOpens
      BY ZipCacheAssumption DEF Ids
    <3>2. [reqs[c] EXCEPT !.pc = "reading", !.entry = i] \in Request
      BY <3>1 DEF CacheInv, TypeOK, Request
    <3>3. reqs' = [reqs EXCEPT ![c] = [reqs[c] EXCEPT !.pc = "reading", !.entry = i]]
      BY <1>7 DEF Read, CacheInv, TypeOK
    <3> QED
      BY <3>2, <3>3 DEF CacheInv, TypeOK
  <2>5. opened' \in 0..MaxOpens
    BY <1>4, <1>7 DEF Ids
  <2> QED
    BY <2>2, <2>3, <2>4, <2>5, <1>7, <1>15 DEF CacheInv, TypeOK, fileVars
<1>19. Numbered'
  <2>1. Numbered
    BY DEF CacheInv
  <2>2. ASSUME NEW k \in Ids, k > opened' PROVE entries'[k] = NoEntry
    <3>1. k > opened /\ k # i /\ k \in Nat
      BY <2>2, <1>4, <1>7 DEF Ids
    <3>2. v <= opened
      BY <1>8, <1>9, <1>4
    <3>3. k \notin {i, s, v}
      BY <3>1, <3>2, <1>2, <1>4
    <3> QED
      BY <2>1, <3>1, <3>3, <1>14 DEF Numbered
  <2>3. \A q \in Paths : items'[q] <= opened'
    BY <1>4, <1>7, <1>9, <1>10, <1>11
  <2>4. \A d \in Requests : reqs'[d] = IF d = c THEN [reqs[c] EXCEPT !.pc = "reading", !.entry = i]
                                                ELSE reqs[d]
    BY <1>7 DEF CacheInv, TypeOK, Read
  <2>4a. reqs'[c].entry = i
    <3>1. reqs[c] \in Request
      BY DEF CacheInv, TypeOK
    <3>2. [reqs[c] EXCEPT !.pc = "reading", !.entry = i].entry = i
      BY <3>1 DEF Request
    <3> QED BY <2>4, <3>2
  <2>5. ASSUME NEW d \in Requests PROVE reqs'[d].entry <= opened'
    <3>1. CASE d = c
      BY <3>1, <2>4a, <1>7 DEF Ids
    <3>2. CASE d # c
      <4>1. reqs[d].entry \in Nat /\ reqs[d].entry <= opened
        BY <2>1 DEF CacheInv, TypeOK, Request, Numbered
      <4> QED
        BY <3>2, <4>1, <2>4, <1>4, <1>7
    <3> QED BY <3>1, <3>2
  <2>6. ASSUME NEW d \in Requests, reqs'[d].pc = "reading" PROVE reqs'[d].entry # 0
    <3>1. CASE d = c
      BY <3>1, <2>4a DEF Ids
    <3>2. CASE d # c
      BY <3>2, <2>1, <2>4, <2>6 DEF Numbered
    <3> QED BY <3>1, <3>2
  <2>7. ASSUME NEW d \in Requests, reqs'[d].pc # "idle" PROVE reqs'[d].path \in Paths
    <3>1. CASE d = c
      <4>1. reqs'[c].path = reqs[c].path
        BY <1>7, ReadProperties DEF CacheInv
      <4> QED
        BY <3>1, <4>1, <1>1
    <3>2. CASE d # c
      BY <3>2, <2>1, <2>4, <2>7 DEF Numbered
    <3> QED BY <3>1, <3>2
  <2> QED
    BY <2>2, <2>3, <2>5, <2>6, <2>7 DEF Numbered
<1>20. RefsExact'
  <2>1. Readers(i)' = {c}
    BY <1>16, <1>17
  <2>2. entries'[i].refs = Cardinality(Readers(i)')
    BY <2>1, <1>6, <1>14, FS_Singleton
  <2>3. ASSUME NEW k \in Ids, k # i PROVE entries'[k].refs = Cardinality(Readers(k)')
    <3>1. entries'[k].refs = entries[k].refs
      BY <2>3, <1>13, <1>14
    <3> QED
      BY <2>3, <3>1, <1>16 DEF CacheInv, RefsExact
  <2> QED
    BY <2>2, <2>3 DEF RefsExact
<1>21. CacheConsistent'
  <2>1. Range(order') = {items'[q] : q \in Paths} \ {0}
    <3>1. ASSUME NEW k \in Range(order') PROVE k \in {items'[q] : q \in Paths} \ {0}
      <4>1. CASE k = i
        BY <4>1, <1>11 DEF Ids
      <4>2. CASE k # i
        <5>1. k \in Range(kept) /\ k # v
          BY <3>1, <4>2, <1>15
        <5>2. PICK q \in Paths : k = items[q] /\ k # 0 /\ k # s /\ k # v
          BY <5>1, <1>3
        <5>3. q # p
          BY <5>2, <1>2
        <5> QED
          BY <5>2, <5>3, <1>10
      <4> QED
        BY <4>1, <4>2
    <3>2. ASSUME NEW q \in Paths, items'[q] # 0 PROVE items'[q] \in Range(order')
      <4>1. CASE q = p
        BY <4>1, <1>11, <1>15
      <4>2. CASE q # p
        <5>1. items'[q] = items[q] /\ items[q] \notin {0, s, v}
          BY <3>2, <4>2, <1>10
        <5>2. items[q] \in Range(kept)
          BY <5>1, <1>3
        <5> QED
          BY <5>1, <5>2, <1>15
      <4> QED
        BY <4>1, <4>2
    <3> QED
      BY <3>1, <3>2
  <2>2. ASSUME NEW q \in Paths, items'[q] # 0 PROVE entries'[items'[q]].path = q
    <3>1. CASE q = p
      BY <3>1, <1>6, <1>11, <1>14
    <3>2. CASE q # p
      <4>1. items'[q] = items[q] /\ items[q] \notin {0, i, s, v} /\ items[q] \in Ids
        BY <2>2, <3>2, <1>9, <1>10 DEF CacheInv, TypeOK, Ids
      <4>2. entries'[items[q]] = entries[items[q]]
        BY <4>1, <1>14
      <4> QED
        BY <4>1, <4>2 DEF CacheInv, CacheConsistent
    <3> QED
      BY <3>1, <3>2
  <2> QED
    BY <2>1, <2>2, <1>15 DEF CacheConsistent
<1>22. CachedLive'
  <2>1. ASSUME NEW q \in Paths, items'[q] # 0
        PROVE  entries'[items'[q]].closes = 0 /\ ~entries'[items'[q]].evicted
    <3>1. CASE q = p
      BY <3>1, <1>6, <1>11, <1>14
    <3>2. CASE q # p
      <4>1. items'[q] = items[q] /\ items[q] \notin {0, i, s, v} /\ items[q] \in Ids
        BY <2>1, <3>2, <1>9, <1>10 DEF CacheInv, TypeOK, Ids
      <4>2. entries'[items[q]] = entries[items[q]]
        BY <4>1, <1>14
      <4> QED
        BY <4>1, <4>2 DEF CacheInv, CachedLive
    <3> QED
      BY <3>1, <3>2
  <2> QED
    BY <2>1 DEF CachedLive
<1>23. DroppedSettled'
  <2>1. ASSUME NEW k \in 1..i, ~Cached(k)'
        PROVE  \/ entries'[k].refs = 0 /\ entries'[k].closes = 1
               \/ entries'[k].refs > 0 /\ entries'[k].closes = 0 /\ entries'[k].evicted
    <3>1. k # i
      BY <2>1, <1>11 DEF Cached
    <3>2. k \in Ids /\ k \in 1..opened
      BY <3>1, <1>4, ZipCacheAssumption DEF Ids
    <3>3. CASE k \in {s, v}
      BY <3>1, <3>2, <3>3, <1>13
    <3>4. CASE k \notin {s, v}
      <4>1. ~Cached(k)
        <5>1. SUFFICES ASSUME NEW q \in Paths, items[q] = k PROVE FALSE
          BY DEF Cached
        <5>2. q # p
          BY <3>4, <5>1, <1>2
        <5>3. items'[q] = k
          BY <3>4, <5>1, <5>2, <1>10
        <5> QED
          BY <2>1, <5>3 DEF Cached
      <4>2. entries'[k] = entries[k]
        BY <3>1, <3>2, <3>4, <1>14
      <4> QED
        BY <4>1, <4>2, <3>2 DEF CacheInv, DroppedSettled
    <3> QED
      BY <3>3, <3>4
  <2> QED
    BY <2>1, <1>7 DEF DroppedSettled
<1> QED
  BY <1>18, <1>19, <1>20, <1>21, <1>22, <1>23 DEF CacheInv

LEMMA ReadRowStep ==
    ASSUME CacheInv, NEW c \in Requests, NEW p \in Paths, ReadRow(c, p)
    PROVE  CacheInv'
<1>1. PICK r \in Request : /\ reqs' = [reqs EXCEPT ![c] = r]
                           /\ r.pc = "asking" /\ r.path = p /\ r.entry = 0
  <2>1. row[p] \in Version
    BY DEF CacheInv, TypeOK
  <2>2. [pc |-> "asking", path |-> p, hash |-> row[p], entry |-> 0] \in Request
    BY <2>1, ZipCacheAssumption DEF Request
  <2> QED
    BY <2>2 DEF ReadRow
<1>2. reqs[c].pc = "idle" /\ UNCHANGED <<cacheVars, fileVars>>
  BY DEF ReadRow
<1>3. TypeOK'
  BY <1>1, <1>2 DEF CacheInv, TypeOK, cacheVars, fileVars
<1>4. \A k \in Ids : Readers(k)' = Readers(k)
  BY <1>1, <1>2, ReadersStay DEF CacheInv
<1>5. \A d \in Requests : reqs'[d] = IF d = c THEN r ELSE reqs[d]
  BY <1>1 DEF CacheInv, TypeOK
<1>6. Numbered /\ opened \in Nat
  BY DEF CacheInv, TypeOK
<1>7. \A d \in Requests : /\ reqs'[d].entry <= opened
                          /\ reqs'[d].pc = "reading" => reqs'[d].entry # 0
                          /\ reqs'[d].pc # "idle" => reqs'[d].path \in Paths
  BY <1>1, <1>5, <1>6 DEF Numbered
<1> QED
  BY <1>2, <1>3, <1>4, <1>7, QuietStep

\* Steps of the files and their rows only.
LEMMA FileStep ==
    ASSUME CacheInv, TypeOK', UNCHANGED <<cacheVars, reqs>>
    PROVE  CacheInv'
<1>1. \A k \in Ids : Readers(k)' = Readers(k)
  BY DEF Readers, Reading
<1>2. \A d \in Requests : /\ reqs'[d].entry <= opened
                          /\ reqs'[d].pc = "reading" => reqs'[d].entry # 0
                          /\ reqs'[d].pc # "idle" => reqs'[d].path \in Paths
  BY DEF CacheInv, Numbered
<1> QED
  BY <1>1, <1>2, QuietStep

LEMMA CacheStep == CacheInv /\ [Next]_vars => CacheInv'
<1> SUFFICES ASSUME CacheInv, [Next]_vars PROVE CacheInv'
  OBVIOUS
<1>1. ASSUME NEW p \in Paths, Rewrite(p) PROVE CacheInv'
  <2>1. file[p] + 1 \in Version
    BY <1>1, ZipCacheAssumption DEF Rewrite, CacheInv, TypeOK, Version
  <2>2. TypeOK'
    BY <1>1, <2>1 DEF Rewrite, CacheInv, TypeOK, cacheVars
  <2> QED
    BY <1>1, <2>2, FileStep DEF Rewrite
<1>2. ASSUME NEW s \in Scanners, NEW p \in Paths, HashFile(s, p) PROVE CacheInv'
  <2>1. TypeOK'
    BY <1>2 DEF HashFile, CacheInv, TypeOK, cacheVars, Scan
  <2> QED
    BY <1>2, <2>1, FileStep DEF HashFile
<1>3. ASSUME NEW s \in Scanners, StoreHash(s) PROVE CacheInv'
  <2>1. scans[s].hash \in Version /\ NoScan \in Scan
    BY ZipCacheAssumption DEF CacheInv, TypeOK, Scan, NoScan, Version
  <2>2. row' \in [Paths -> Version]
    BY <1>3, <2>1 DEF StoreHash, CacheInv, TypeOK
  <2>3. scans' \in [Scanners -> Scan]
    BY <1>3, <2>1 DEF StoreHash, CacheInv, TypeOK
  <2>4. TypeOK'
    BY <1>3, <2>2, <2>3 DEF StoreHash, CacheInv, TypeOK, cacheVars
  <2> QED
    BY <1>3, <2>4, FileStep DEF StoreHash
<1>4. CASE UNCHANGED vars
  <2>1. TypeOK'
    BY <1>4 DEF CacheInv, TypeOK, vars, cacheVars, fileVars
  <2> QED
    BY <1>4, <2>1, FileStep DEF vars
<1> QED
  BY <1>1, <1>2, <1>3, <1>4, ReadRowStep, GetHitStep, GetOpensStep, GetFailsStep, ReleaseStep DEF Next

\* The cache, its entries and the requests that hold them stay in step.
THEOREM CacheInvariant == Spec => []CacheInv
BY CacheInit, CacheStep, PTL DEF Spec

\* Every variable of the cache keeps its type; in particular a reference count
\* never falls below zero.
THEOREM CacheTypes == Spec => []TypeOK
BY CacheInvariant, PTL DEF CacheInv

-----------------------------------------------------------------------------
(* What the invariant means for readers and descriptors.                   *)

\* Whatever a request holds is open.
THEOREM ReadersStayOpen == Spec => []HeldReadersOpen
<1>1. ASSUME CacheInv PROVE HeldReadersOpen
  <2> SUFFICES ASSUME NEW c \in Requests, reqs[c].pc = "reading"
               PROVE  entries[reqs[c].entry].closes = 0
    BY DEF HeldReadersOpen
  <2>1. PICK i \in Ids : i = reqs[c].entry /\ i \in 1..opened
    BY <1>1 DEF CacheInv, TypeOK, Numbered, Ids, Request
  <2>2. c \in Readers(i)
    BY <2>1 DEF Readers, Reading
  <2>3. entries[i].refs # 0
    BY <1>1, <2>2, ReadersFinite, FS_EmptySet DEF CacheInv, RefsExact
  <2>4. CASE Cached(i)
    BY <1>1, <2>1, <2>4 DEF CacheInv, CachedLive, Cached, Ids
  <2>5. CASE ~Cached(i)
    BY <1>1, <2>1, <2>3, <2>5 DEF CacheInv, DroppedSettled
  <2> QED
    BY <2>1, <2>4, <2>5
<1> QED
  BY <1>1, CacheInvariant, PTL

\* An archive is closed at most once.
THEOREM ArchivesCloseOnce == Spec => []ClosedOnce
<1>1. ASSUME CacheInv PROVE ClosedOnce
  <2> SUFFICES ASSUME NEW i \in Ids PROVE entries[i].closes <= 1
    BY DEF ClosedOnce
  <2>1. CASE i > opened
    BY <1>1, <2>1 DEF CacheInv, Numbered, NoEntry
  <2>2. CASE ~(i > opened) /\ Cached(i)
    BY <1>1, <2>2 DEF CacheInv, CachedLive, Cached, Ids
  <2>3. CASE ~(i > opened) /\ ~Cached(i)
    <3>1. i \in 1..opened
      BY <1>1, <2>3 DEF CacheInv, TypeOK, Ids
    <3> QED
      BY <1>1, <2>3, <3>1 DEF CacheInv, DroppedSettled
  <2> QED
    BY <2>1, <2>2, <2>3
<1> QED
  BY <1>1, CacheInvariant, PTL

\* An open archive is always in somebody's hands.
THEOREM NoArchiveLeaks == Spec => []NoLeak
<1>1. ASSUME CacheInv PROVE NoLeak
  <2> SUFFICES ASSUME NEW i \in 1..opened, entries[i].closes = 0, ~Cached(i)
               PROVE  \E c \in Requests : Reading(c, i)
    BY DEF NoLeak
  <2>1. i \in Ids
    BY <1>1, ZipCacheAssumption DEF CacheInv, TypeOK, Ids
  <2>2. entries[i].refs > 0
    BY <1>1 DEF CacheInv, DroppedSettled
  <2>3. Readers(i) # {}
    BY <1>1, <2>1, <2>2, FS_EmptySet DEF CacheInv, RefsExact
  <2> QED
    BY <2>3 DEF Readers
<1> QED
  BY <1>1, CacheInvariant, PTL

\* The map and the list of the cache agree, within the capacity.
THEOREM MapAndListAgree == Spec => []CacheConsistent
BY CacheInvariant, PTL DEF CacheInv

-----------------------------------------------------------------------------
(* Pages are not older than their ETags.                                   *)

\* No step changes what an entry was opened for, or on.
LEMMA KeysStay ==
    ASSUME CacheInv, [Next]_vars, NEW k \in 1..opened
    PROVE  /\ entries'[k].path = entries[k].path
           /\ entries'[k].hash = entries[k].hash
           /\ entries'[k].version = entries[k].version
<1> DEFINE Same(e) == /\ e.path = entries[k].path
                      /\ e.hash = entries[k].hash
                      /\ e.version = entries[k].version
<1>1. k \in Ids /\ k # 0 /\ k # opened + 1 /\ entries[k] \in Entry
  BY ZipCacheAssumption DEF CacheInv, TypeOK, Ids
<1>2. Same(CloseOrMarkEvicted(entries[k]))
  BY <1>1 DEF CloseOrMarkEvicted, Close, Entry
<1>3. Same(Left(entries[k]))
  BY <1>1 DEF Left, Close, Entry
<1>4. Same([entries[k] EXCEPT !.refs = @ + 1])
  BY <1>1 DEF Entry
<1>5. ASSUME NEW c \in Requests, GetHit(c) PROVE Same(entries'[k])
  <2>1. entries'[k] = entries[k] \/ entries'[k] = [entries[k] EXCEPT !.refs = @ + 1]
    BY <1>1, <1>5 DEF GetHit, CacheInv, TypeOK
  <2> QED
    BY <2>1, <1>4
<1>6. ASSUME NEW c \in Requests, GetFails(c) PROVE Same(entries'[k])
  <2>1. entries'[k] = entries[k] \/ entries'[k] = CloseOrMarkEvicted(entries[k])
    BY <1>1, <1>6 DEF GetFails
  <2> QED
    BY <2>1, <1>2
<1>7. ASSUME NEW c \in Requests, GetOpens(c) PROVE Same(entries'[k])
  <2>1. entries'[k] = entries[k] \/ entries'[k] = CloseOrMarkEvicted(entries[k])
    BY <1>1, <1>7 DEF GetOpens, Opened
  <2> QED
    BY <2>1, <1>2
<1>8. ASSUME NEW c \in Requests, Release(c) PROVE Same(entries'[k])
  <2>1. entries'[k] = entries[k] \/ entries'[k] = Left(entries[k])
    BY <1>1, <1>8 DEF Release, CacheInv, TypeOK
  <2> QED
    BY <2>1, <1>3
<1>9. CASE UNCHANGED entries
  BY <1>9
<1> HIDE DEF Same
<1>10. Same(entries'[k])
  <2>1. ASSUME NEW p \in Paths, Rewrite(p) PROVE UNCHANGED entries
    BY <2>1 DEF Rewrite, cacheVars
  <2>2. ASSUME NEW s \in Scanners, NEW p \in Paths, HashFile(s, p) PROVE UNCHANGED entries
    BY <2>2 DEF HashFile, cacheVars
  <2>3. ASSUME NEW s \in Scanners, StoreHash(s) PROVE UNCHANGED entries
    BY <2>3 DEF StoreHash, cacheVars
  <2>4. ASSUME NEW c \in Requests, NEW p \in Paths, ReadRow(c, p) PROVE UNCHANGED entries
    BY <2>4 DEF ReadRow, cacheVars
  <2>5. CASE UNCHANGED vars
    BY <2>5, <1>9 DEF vars, cacheVars, Same
  <2>6. CASE UNCHANGED entries
    BY <2>6 DEF Same
  <2> QED
    BY <2>1, <2>2, <2>3, <2>4, <2>5, <2>6, <1>5, <1>6, <1>7, <1>8 DEF Next
<1> QED
  BY <1>10 DEF Same

\* Where a request and an entry can have come from in one step.
LEMMA RequestSteps ==
    ASSUME CacheInv, [Next]_vars, NEW d \in Requests
    PROVE  \/ reqs'[d] = reqs[d]
           \/ reqs'[d].pc = "idle"
           \/ \E p \in Paths : reqs'[d].pc = "asking" /\ reqs'[d].path = p /\ reqs'[d].hash = row[p]
                               /\ UNCHANGED fileVars
           \/ /\ reqs[d].pc = "asking" /\ reqs'[d].pc = "reading"
              /\ reqs'[d].path = reqs[d].path /\ reqs'[d].hash = reqs[d].hash
              /\ GetHit(d) /\ reqs'[d].entry = items[reqs[d].path]
           \/ /\ reqs[d].pc = "asking" /\ reqs'[d].pc = "reading"
              /\ reqs'[d].path = reqs[d].path /\ reqs'[d].hash = reqs[d].hash
              /\ GetOpens(d) /\ reqs'[d].entry = opened + 1
<1>1. reqs \in [Requests -> Request] /\ reqs[d] \in Request
  BY DEF CacheInv, TypeOK
<1>2. \A i : /\ [reqs[d] EXCEPT !.pc = "reading", !.entry = i].path = reqs[d].path
             /\ [reqs[d] EXCEPT !.pc = "reading", !.entry = i].hash = reqs[d].hash
             /\ [reqs[d] EXCEPT !.pc = "reading", !.entry = i].pc = "reading"
             /\ [reqs[d] EXCEPT !.pc = "reading", !.entry = i].entry = i
  BY <1>1 DEF Request
<1>3. ASSUME NEW c \in Requests, NEW i, Read(c, i)
      PROVE  reqs'[d] = IF d = c THEN [reqs[d] EXCEPT !.pc = "reading", !.entry = i] ELSE reqs[d]
  BY <1>1, <1>3 DEF Read
<1>4. ASSUME NEW c \in Requests, GetHit(c)
      PROVE  reqs[c].pc = "asking" /\ Read(c, items[reqs[c].path])
  BY <1>4 DEF GetHit, Hit, Asking
<1>5. ASSUME NEW c \in Requests, GetOpens(c)
      PROVE  reqs[c].pc = "asking" /\ Read(c, opened + 1)
  BY <1>5 DEF GetOpens, Asking
<1>6. ASSUME NEW c \in Requests, GetFails(c) \/ Release(c)
      PROVE  reqs'[d] = reqs[d] \/ reqs'[d].pc = "idle"
  BY <1>1, <1>6 DEF GetFails, Release, NoRequest
<1>7. ASSUME NEW c \in Requests, NEW p \in Paths, ReadRow(c, p)
      PROVE  \/ reqs'[d] = reqs[d]
             \/ reqs'[d].pc = "asking" /\ reqs'[d].path = p /\ reqs'[d].hash = row[p] /\ UNCHANGED fileVars
  BY <1>1, <1>7 DEF ReadRow
<1>8. ASSUME NEW c \in Requests, GetHit(c) \/ GetOpens(c) PROVE
         \/ reqs'[d] = reqs[d]
         \/ /\ reqs[d].pc = "asking" /\ reqs'[d].pc = "reading"
            /\ reqs'[d].path = reqs[d].path /\ reqs'[d].hash = reqs[d].hash
            /\ \/ GetHit(d) /\ reqs'[d].entry = items[reqs[d].path]
               \/ GetOpens(d) /\ reqs'[d].entry = opened + 1
  <2>1. CASE c # d
    <3>1. PICK i : Read(c, i)
      BY <1>4, <1>5, <1>8
    <3> QED
      BY <2>1, <3>1, <1>3
  <2>2. CASE c = d /\ GetHit(d)
    <3>1. reqs[d].pc = "asking" /\ Read(d, items[reqs[d].path])
      BY <2>2, <1>4
    <3>2. reqs'[d] = [reqs[d] EXCEPT !.pc = "reading", !.entry = items[reqs[d].path]]
      BY <3>1, <1>3
    <3> QED
      BY <2>2, <3>1, <3>2, <1>2
  <2>3. CASE c = d /\ GetOpens(d)
    <3>1. reqs[d].pc = "asking" /\ Read(d, opened + 1)
      BY <2>3, <1>5
    <3>2. reqs'[d] = [reqs[d] EXCEPT !.pc = "reading", !.entry = opened + 1]
      BY <3>1, <1>3
    <3> QED
      BY <2>3, <3>1, <3>2, <1>2
  <2> QED
    BY <2>1, <2>2, <2>3, <1>8
<1>9. ASSUME NEW p \in Paths, Rewrite(p) PROVE reqs' = reqs
  BY <1>9 DEF Rewrite
<1>10. ASSUME NEW s \in Scanners, StoreHash(s) \/ \E p \in Paths : HashFile(s, p) PROVE reqs' = reqs
  BY <1>10 DEF StoreHash, HashFile
<1>11. CASE UNCHANGED vars
  BY <1>11 DEF vars
<1> QED
  BY <1>6, <1>7, <1>8, <1>9, <1>10, <1>11 DEF Next

LEMMA FreshInit == Init => HashesLag /\ ReadsAsked
BY DEF Init, HashesLag, ReadsAsked, NoScan, NoRequest

LEMMA FreshStep == FreshInv /\ [Next]_vars => FreshInv'
<1> SUFFICES ASSUME FreshInv, [Next]_vars PROVE FreshInv'
  OBVIOUS
<1>1. CacheInv /\ CacheInv' /\ HashesLag /\ ReadsAsked
  BY CacheStep DEF FreshInv
<1>2. /\ \A p \in Paths : file[p] \in Nat /\ file'[p] \in Nat /\ row[p] \in Nat
      /\ \A d \in Requests : reqs[d].hash \in Nat
      /\ \A s \in Scanners : scans[s].hash \in Nat
      /\ opened \in Nat
  BY <1>1, ZipCacheAssumption DEF CacheInv, TypeOK, Version, Request, Scan
\* Files only move forward.
<1>3. \A p \in Paths : file[p] <= file'[p]
  <2>1. ASSUME NEW p \in Paths, Rewrite(p) PROVE \A q \in Paths : file[q] <= file'[q]
    BY <2>1, <1>1, <1>2 DEF Rewrite, CacheInv, TypeOK
  <2>2. CASE file' = file
    BY <2>2, <1>2
  <2>3. ASSUME NEW s \in Scanners, StoreHash(s) \/ \E p \in Paths : HashFile(s, p)
        PROVE  file' = file
    BY <2>3 DEF StoreHash, HashFile
  <2>4. ASSUME NEW c \in Requests,
               \/ \E p \in Paths : ReadRow(c, p)
               \/ GetHit(c) \/ GetOpens(c) \/ GetFails(c) \/ Release(c)
        PROVE  file' = file
    BY <2>4 DEF ReadRow, GetHit, GetOpens, GetFails, Release, fileVars
  <2>5. CASE UNCHANGED vars
    BY <2>5, <2>2 DEF vars, fileVars
  <2> QED
    BY <2>1, <2>2, <2>3, <2>4, <2>5 DEF Next
\* A row is written from a hash that was taken before.
<1>4. \A p \in Paths :
          \/ row'[p] = row[p]
          \/ \E s \in Scanners : scans[s] # NoScan /\ scans[s].path = p /\ row'[p] = scans[s].hash
  <2>1. ASSUME NEW s \in Scanners, StoreHash(s)
        PROVE  \A p \in Paths :
                   \/ row'[p] = row[p]
                   \/ scans[s] # NoScan /\ scans[s].path = p /\ row'[p] = scans[s].hash
    BY <2>1, <1>1 DEF StoreHash, CacheInv, TypeOK
  <2>2. ASSUME NEW p \in Paths, Rewrite(p) \/ \E s \in Scanners : HashFile(s, p)
        PROVE  row' = row
    BY <2>2 DEF Rewrite, HashFile
  <2>3. ASSUME NEW c \in Requests,
               \/ \E p \in Paths : ReadRow(c, p)
               \/ GetHit(c) \/ GetOpens(c) \/ GetFails(c) \/ Release(c)
        PROVE  row' = row
    BY <2>3 DEF ReadRow, GetHit, GetOpens, GetFails, Release, fileVars
  <2>4. CASE UNCHANGED vars
    BY <2>4 DEF vars, fileVars
  <2> QED
    BY <2>1, <2>2, <2>3, <2>4 DEF Next
<1>5. \A s \in Scanners : \/ scans'[s] = scans[s]
                          \/ scans'[s] = NoScan
                          \/ \E p \in Paths : scans'[s].path = p /\ scans'[s].hash = file[p]
  <2>1. ASSUME NEW t \in Scanners, NEW p \in Paths, HashFile(t, p), NEW s \in Scanners
        PROVE  scans'[s] = scans[s] \/ (scans'[s].path = p /\ scans'[s].hash = file[p])
    BY <2>1, <1>1 DEF HashFile, CacheInv, TypeOK
  <2>2. ASSUME NEW t \in Scanners, StoreHash(t), NEW s \in Scanners
        PROVE  scans'[s] = scans[s] \/ scans'[s] = NoScan
    BY <2>2, <1>1 DEF StoreHash, CacheInv, TypeOK
  <2>3. ASSUME NEW p \in Paths, Rewrite(p) PROVE scans' = scans
    BY <2>3 DEF Rewrite
  <2>4. ASSUME NEW c \in Requests,
               \/ \E p \in Paths : ReadRow(c, p)
               \/ GetHit(c) \/ GetOpens(c) \/ GetFails(c) \/ Release(c)
        PROVE  scans' = scans
    BY <2>4 DEF ReadRow, GetHit, GetOpens, GetFails, Release, fileVars
  <2>5. CASE UNCHANGED vars
    BY <2>5 DEF vars, fileVars
  <2> QED
    BY <2>1, <2>2, <2>3, <2>4, <2>5 DEF Next
<1>6. \A p \in Paths : row'[p] <= file'[p]
  <2>1. \A p \in Paths : row'[p] \in Nat
    BY <1>1, ZipCacheAssumption DEF CacheInv, TypeOK, Version
  <2>2. \A p \in Paths : row'[p] <= file[p]
    BY <1>1, <1>4 DEF HashesLag
  <2> QED
    BY <2>1, <2>2, <1>2, <1>3
<1>7. \A s \in Scanners : scans'[s] # NoScan =>
          scans'[s].path \in Paths /\ scans'[s].hash <= file'[scans'[s].path]
  BY <1>1, <1>2, <1>3, <1>5 DEF HashesLag
<1>8. \A d \in Requests : reqs'[d].pc # "idle" =>
          reqs'[d].path \in Paths /\ reqs'[d].hash <= file[reqs'[d].path]
  <2> SUFFICES ASSUME NEW d \in Requests, reqs'[d].pc # "idle"
               PROVE  reqs'[d].path \in Paths /\ reqs'[d].hash <= file[reqs'[d].path]
    OBVIOUS
  <2>1. reqs[d].pc # "idle" => reqs[d].path \in Paths /\ reqs[d].hash <= file[reqs[d].path]
    BY <1>1 DEF HashesLag, CacheInv, Numbered
  <2>2. \A p \in Paths : row[p] <= file[p]
    BY <1>1 DEF HashesLag
  <2> QED
    BY <2>1, <2>2, <1>1, RequestSteps
<1>9. ASSUME NEW d \in Requests, GetOpens(d)
      PROVE  LET e == entries'[opened + 1] IN
             /\ opened' = opened + 1
             /\ e.path = reqs[d].path /\ e.hash = reqs[d].hash /\ e.hash <= e.version
  <2>1. opened + 1 \in Ids
    BY <1>1, <1>9, ZipCacheAssumption DEF GetOpens, CacheInv, TypeOK, Ids
  <2>2. opened' = opened + 1 /\ entries'[opened + 1] = NewEntry(reqs[d].path, reqs[d].hash)
    BY <1>9, <2>1 DEF GetOpens, Opened
  <2>3. reqs[d].hash <= file[reqs[d].path]
    BY <1>1, <1>9 DEF HashesLag, GetOpens, Asking
  <2> QED
    BY <2>2, <2>3 DEF NewEntry
<1>10. ASSUME ~\E d \in Requests : GetOpens(d) PROVE opened' = opened
  <2>1. ASSUME NEW p \in Paths, Rewrite(p) \/ \E s \in Scanners : HashFile(s, p)
        PROVE  opened' = opened
    BY <2>1 DEF Rewrite, HashFile, cacheVars
  <2>2. ASSUME NEW s \in Scanners, StoreHash(s) PROVE opened' = opened
    BY <2>2 DEF StoreHash, cacheVars
  <2>3. ASSUME NEW c \in Requests,
               \/ \E p \in Paths : ReadRow(c, p)
               \/ GetHit(c) \/ GetFails(c) \/ Release(c)
        PROVE  opened' = opened
    BY <2>3 DEF ReadRow, GetHit, GetFails, Release, cacheVars
  <2>4. CASE UNCHANGED vars
    BY <2>4 DEF vars, cacheVars
  <2> QED
    BY <1>10, <2>1, <2>2, <2>3, <2>4 DEF Next
<1>11. \A k \in 1..opened' : entries'[k].hash <= entries'[k].version
  <2> SUFFICES ASSUME NEW k \in 1..opened' PROVE entries'[k].hash <= entries'[k].version
    OBVIOUS
  <2>1. CASE k \in 1..opened
    BY <2>1, <1>1, KeysStay DEF HashesLag
  <2>2. CASE k \notin 1..opened
    <3>1. PICK d \in Requests : GetOpens(d)
      BY <2>2, <1>10
    <3>2. k = opened + 1
      BY <2>2, <3>1, <1>2, <1>9
    <3> QED
      BY <3>1, <3>2, <1>9
  <2> QED
    BY <2>1, <2>2
<1>12. HashesLag'
  <2>1. \A d \in Requests : reqs'[d].pc # "idle" => reqs'[d].hash <= file'[reqs'[d].path]
    <3> SUFFICES ASSUME NEW d \in Requests, reqs'[d].pc # "idle"
                 PROVE  reqs'[d].hash <= file'[reqs'[d].path]
      OBVIOUS
    <3>1. reqs'[d].hash \in Nat
      BY <1>1, ZipCacheAssumption DEF CacheInv, TypeOK, Request, Version
    <3> QED
      BY <3>1, <1>2, <1>3, <1>8
  <2> QED
    BY <2>1, <1>6, <1>7, <1>11 DEF HashesLag
<1>13. ReadsAsked'
  <2> SUFFICES ASSUME NEW d \in Requests, reqs'[d].pc = "reading"
               PROVE  /\ entries'[reqs'[d].entry].path = reqs'[d].path
                      /\ entries'[reqs'[d].entry].hash = reqs'[d].hash
    BY DEF ReadsAsked
  <2>1. CASE reqs'[d] = reqs[d]
    <3>1. PICK k \in 1..opened : k = reqs[d].entry
      BY <2>1, <1>1 DEF CacheInv, TypeOK, Request, Numbered
    <3> QED
      BY <2>1, <3>1, <1>1, KeysStay DEF ReadsAsked
  <2>2. CASE /\ reqs[d].pc = "asking" /\ reqs'[d].path = reqs[d].path /\ reqs'[d].hash = reqs[d].hash
             /\ GetHit(d) /\ reqs'[d].entry = items[reqs[d].path]
    <3>1. PICK p \in Paths : p = reqs[d].path /\ items[p] # 0
      BY <2>2, <1>1 DEF CacheInv, Numbered, GetHit, Hit
    <3>2. PICK k \in 1..opened : k = items[p]
      BY <3>1, <1>1 DEF CacheInv, TypeOK, Numbered
    <3>3. entries[k].path = p /\ entries[k].hash = reqs[d].hash
      BY <2>2, <3>1, <3>2, <1>1 DEF CacheInv, CacheConsistent, GetHit, Hit
    <3> QED
      BY <2>2, <3>1, <3>2, <3>3, <1>1, KeysStay
  <2>3. CASE /\ reqs[d].pc = "asking" /\ reqs'[d].path = reqs[d].path /\ reqs'[d].hash = reqs[d].hash
             /\ GetOpens(d) /\ reqs'[d].entry = opened + 1
    BY <2>3, <1>9
  <2> QED
    BY <2>1, <2>2, <2>3, <1>1, RequestSteps
<1> QED
  BY <1>1, <1>12, <1>13 DEF FreshInv

\* A page is never older than the ETag it is served under.
THEOREM PagesAreFresh == Spec => []FreshRead
<1>1. Init => FreshInv
  BY CacheInit, FreshInit DEF FreshInv
<1>2. ASSUME FreshInv PROVE FreshRead
  <2> SUFFICES ASSUME NEW c \in Requests, reqs[c].pc = "reading"
               PROVE  /\ entries[reqs[c].entry].path = reqs[c].path
                      /\ entries[reqs[c].entry].version >= reqs[c].hash
    BY DEF FreshRead
  <2>1. PICK k \in 1..opened : k = reqs[c].entry
    BY <1>2 DEF FreshInv, CacheInv, TypeOK, Request, Numbered
  <2>2. k \in Ids /\ entries[k].hash \in Nat /\ entries[k].version \in Nat
    BY <1>2, ZipCacheAssumption DEF FreshInv, CacheInv, TypeOK, Ids, Entry, Version
  <2> QED
    BY <1>2, <2>1, <2>2 DEF FreshInv, HashesLag, ReadsAsked
<1> QED
  BY <1>1, <1>2, FreshStep, PTL DEF Spec
=============================================================================
