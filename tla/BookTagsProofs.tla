--------------------------- MODULE BookTagsProofs ---------------------------
(***************************************************************************)
(* For any number of requests, books and tags, and lists of any length:    *)
(* no tag is linked that has no row, or to a book that has none, and the   *)
(* tags of a book change only when a request succeeds, to the tags it      *)
(* asked for if no other request on the book ran meanwhile.                *)
(***************************************************************************)
EXTENDS BookTags, TLAPS

TablesInv ==
    /\ books \subseteq Books /\ tags \subseteq Tags /\ bookTags \subseteq books \X tags
    /\ deleting \subseteq books

\* What a transaction has done so far: before its DELETE nothing, and a link it
\* inserted is one of a tag whose row it holds, to a book that is there and stays.
TxInv(x) ==
    /\ x \in Tx
    /\ x.at \in {"idle", "delete"} => x.removed = {} /\ x.linked = {} /\ x.held = {}
    /\ x.at = "delete" => x.asked = ToSet(x.todo)
    /\ x.at = "link" => x.todo # <<>> /\ Head(x.todo) \in x.held
    /\ x.linked \subseteq x.held
    /\ x.linked # {} => x.book \in books \ deleting

\* What a request that runs alone on its book has still before it: the links it saw,
\* or removed, are all that the book has, and it inserts all that it was asked for.
LoneTx(x) ==
    /\ x.at = "delete" => x.seen = LinksOf(x.book)
    /\ x.at \in {"tag", "link"} => /\ x.removed = LinksOf(x.book)
                                   /\ x.asked = x.linked \cup ToSet(x.todo)

Lone(r) == Open(r) /\ tx[r].alone /\ tx[r].book \in books

TransactionsInv ==
    /\ tx \in [Requests -> Tx]
    /\ \A r \in Requests : /\ TxInv(tx[r])
                           /\ Lone(r) => OthersOn(r) = {} /\ LoneTx(tx[r])

TagsInv == TablesInv /\ TransactionsInv

-----------------------------------------------------------------------------
(* Sequences.                                                              *)

\* The first tag of a list, and the others.
LEMMA HeadAndTail ==
    ASSUME NEW S, NEW s \in Seq(S), s # <<>>
    PROVE  /\ Head(s) \in S /\ Tail(s) \in Seq(S)
           /\ ToSet(s) = {Head(s)} \cup ToSet(Tail(s))
<1>1. /\ Len(s) \in Nat /\ Len(s) > 0 /\ DOMAIN s = 1 .. Len(s) /\ Head(s) = s[1]
      /\ Tail(s) \in Seq(S) /\ DOMAIN Tail(s) = 1 .. (Len(s) - 1)
      /\ \A i \in 1 .. (Len(s) - 1) : Tail(s)[i] = s[i + 1]
  OBVIOUS
<1>2. Head(s) \in S
  BY <1>1
<1>3. ASSUME NEW x \in ToSet(s) PROVE x = Head(s) \/ x \in ToSet(Tail(s))
  <2>1. PICK i \in 1 .. Len(s) : x = s[i]
    BY <1>1, <1>3 DEF ToSet
  <2>2. CASE i = 1
    BY <1>1, <2>1, <2>2
  <2>3. CASE i # 1
    <3>1. i - 1 \in 1 .. (Len(s) - 1) /\ x = Tail(s)[i - 1]
      BY <1>1, <2>1, <2>3
    <3> QED BY <1>1, <3>1 DEF ToSet
  <2> QED BY <2>2, <2>3
<1>4. ASSUME NEW x \in ToSet(Tail(s)) PROVE x \in ToSet(s)
  <2>1. PICK i \in 1 .. (Len(s) - 1) : x = Tail(s)[i]
    BY <1>1, <1>4 DEF ToSet
  <2>2. i + 1 \in 1 .. Len(s) /\ x = s[i + 1]
    BY <1>1, <2>1
  <2> QED BY <1>1, <2>2 DEF ToSet
<1>5. Head(s) \in ToSet(s)
  BY <1>1 DEF ToSet
<1> QED BY <1>1, <1>2, <1>3, <1>4, <1>5

\* The tags of a list.
LEMMA TagsOfList ==
    ASSUME NEW s \in TagLists \cup Seq(Tags)
    PROVE  s \in Seq(Tags) /\ ToSet(s) \subseteq Tags
<1>1. s \in Seq(Tags)
  BY TagListsAssumption
<1>2. DOMAIN s = 1 .. Len(s) /\ \A i \in 1 .. Len(s) : s[i] \in Tags
  BY <1>1
<1> QED BY <1>1, <1>2 DEF ToSet

-----------------------------------------------------------------------------
(* Steps.                                                                  *)

\* An open transaction goes on, or ends and leaves nothing.
LEMMA TxStep ==
    ASSUME TagsInv, NEW r \in Requests, Open(r), NEW new, tx' = [tx EXCEPT ![r] = new],
           TxInv(new), new.book = tx[r].book, new.alone <=> tx[r].alone,
           Lone(r) => LoneTx(new), UNCHANGED <<books, tags, bookTags, deleting>>
    PROVE  TagsInv'
<1>1. /\ tx' \in [Requests -> Tx] /\ tx'[r] = new
      /\ \A q \in Requests \ {r} : tx'[q] = tx[q]
  BY DEF TagsInv, TransactionsInv, TxInv
<1>2. TablesInv'
  BY DEF TagsInv, TablesInv
<1>3. ASSUME NEW q \in Requests PROVE TxInv(tx[q])'
  BY <1>1 DEF TagsInv, TransactionsInv, TxInv
<1>4. ASSUME NEW q \in Requests, Lone(q)' PROVE OthersOn(q)' = {} /\ LoneTx(tx[q])'
  <2>1. Lone(q) /\ tx'[q].book = tx[q].book
    BY <1>1, <1>4 DEF Lone, Open
  <2>2. OthersOn(q)' \subseteq OthersOn(q)
    BY <1>1, <2>1 DEF OthersOn, Open
  <2>3. LoneTx(tx'[q])
    BY <1>1, <2>1 DEF TagsInv, TransactionsInv
  <2>4. LoneTx(tx[q])'
    BY <2>3 DEF LoneTx, LinksOf
  <2> QED BY <2>1, <2>2, <2>4 DEF TagsInv, TransactionsInv
<1> QED BY <1>1, <1>2, <1>3, <1>4 DEF TagsInv, TransactionsInv

\* An error return.
LEMMA RollbackStep ==
    ASSUME TagsInv, NEW r \in Requests, Open(r), Rollback(r)
    PROVE  TagsInv'
<1> DEFINE x == tx[r]
           new == [x EXCEPT !.at = "idle", !.todo = <<>>, !.asked = {}, !.seen = {},
                            !.removed = {}, !.linked = {}, !.held = {}, !.reply = "error"]
<1>1. x \in Tx /\ <<>> \in Seq(Tags)
  BY DEF TagsInv, TransactionsInv
<1>2. /\ new \in Tx /\ new.at = "idle" /\ new.removed = {} /\ new.linked = {} /\ new.held = {}
      /\ new.book = x.book /\ (new.alone <=> x.alone)
  <2> HIDE DEF x
  <2> QED BY <1>1 DEF Tx, Statement
<1>3. tx' = [tx EXCEPT ![r] = new] /\ UNCHANGED <<books, tags, bookTags, deleting>>
  BY DEF Rollback, Closed
<1> HIDE DEF new
<1>4. TxInv(new) /\ LoneTx(new)
  BY <1>2 DEF TxInv, LoneTx
<1> QED BY <1>2, <1>3, <1>4, TxStep

\* A transaction begins.
LEMMA BeginStep ==
    ASSUME TagsInv, NEW r \in Requests, NEW b \in Books, NEW names \in TagLists,
           SetBookTags(r, b, names)
    PROVE  TagsInv'
<1> DEFINE rivals == {q \in Requests : Open(q) /\ tx[q].book = b}
           new == [at |-> "delete", book |-> b, todo |-> names, asked |-> ToSet(names),
                   seen |-> LinksOf(b), removed |-> {}, linked |-> {}, held |-> {},
                   alone |-> rivals = {}, reply |-> "none"]
<1>1. /\ ~Open(r) /\ UNCHANGED <<books, tags, bookTags, deleting>>
      /\ tx' = [q \in Requests |-> CASE q = r -> new
                                     [] q \in rivals -> [tx[q] EXCEPT !.alone = FALSE]
                                     [] OTHER -> tx[q]]
  BY DEF SetBookTags
<1>2. new \in Tx /\ new.at = "delete" /\ new.book = b /\ (new.alone <=> rivals = {})
  <2>1. ToSet(names) \in SUBSET Tags /\ LinksOf(b) \in SUBSET Tags
    BY TagsOfList DEF LinksOf
  <2>2. (rivals = {}) \in BOOLEAN
    OBVIOUS
  <2> HIDE DEF rivals
  <2> QED BY <2>1, <2>2 DEF Tx, Statement
<1>3. TxInv(new) /\ LoneTx(new)
  BY <1>2 DEF TxInv, LoneTx
<1>4. r \notin rivals
  BY <1>1
<1>5. /\ DOMAIN tx' = Requests /\ tx'[r] = new
      /\ \A q \in rivals : tx'[q] = [tx[q] EXCEPT !.alone = FALSE]
      /\ \A q \in Requests \ (rivals \cup {r}) : tx'[q] = tx[q]
  <2> HIDE DEF new
  <2> QED BY <1>1, <1>4
<1>6. ASSUME NEW q \in rivals
      PROVE  /\ TxInv(tx'[q]) /\ ~tx'[q].alone /\ tx'[q].at = tx[q].at
             /\ tx'[q].book = tx[q].book
  <2> DEFINE x == tx[q]
             y == [x EXCEPT !.alone = FALSE]
  <2>1. TxInv(x)
    BY DEF TagsInv, TransactionsInv
  <2> HIDE DEF x
  <2>2. /\ y \in Tx /\ ~y.alone /\ y.at = x.at /\ y.book = x.book /\ y.removed = x.removed
        /\ y.linked = x.linked /\ y.held = x.held /\ y.asked = x.asked /\ y.todo = x.todo
    BY <2>1 DEF TxInv, Tx
  <2>3. tx'[q] = y
    BY <1>5 DEF x
  <2> HIDE DEF y
  <2> QED BY <2>1, <2>2, <2>3 DEF TxInv, x
<1>7. ASSUME NEW q \in Requests PROVE TxInv(tx[q])'
  <2>1. TxInv(tx'[q])
    <3> HIDE DEF new, rivals
    <3> QED BY <1>3, <1>5, <1>6 DEF TagsInv, TransactionsInv
  <2> QED BY <1>1, <2>1 DEF TxInv
<1>8. ASSUME NEW q \in Requests, Lone(q)' PROVE OthersOn(q)' = {} /\ LoneTx(tx[q])'
  <2>1. CASE q = r
    <3>1. rivals = {} /\ tx'[q].book = b
      BY <1>2, <1>5, <1>8, <2>1 DEF Lone
    <3>2. ASSUME NEW o \in Requests \ {r} PROVE ~(tx'[o].at # "idle" /\ tx'[o].book = b)
      BY <1>5, <3>1 DEF Open
    <3>3. LoneTx(tx'[q])
      BY <1>3, <1>5, <2>1
    <3>4. LoneTx(tx[q])'
      BY <1>1, <3>3 DEF LoneTx, LinksOf
    <3> QED BY <2>1, <3>1, <3>2, <3>4 DEF OthersOn, Open
  <2>2. CASE q # r
    <3>1. q \notin rivals /\ tx'[q] = tx[q]
      <4> HIDE DEF rivals, new
      <4> QED BY <1>5, <1>6, <1>8, <2>2 DEF Lone
    <3>2. Lone(q) /\ tx[q].book # b
      BY <1>1, <1>8, <3>1 DEF Lone, Open
    <3>3. ASSUME NEW o \in Requests \ {q} PROVE ~(tx'[o].at # "idle" /\ tx'[o].book = tx[q].book)
      <4>1. tx[o].at = "idle" \/ tx[o].book # tx[q].book
        BY <3>2 DEF TagsInv, TransactionsInv, OthersOn, Open
      <4>2. o # r => tx'[o].at = tx[o].at /\ tx'[o].book = tx[o].book
        <5> HIDE DEF rivals, new
        <5> QED BY <1>5, <1>6
      <4>3. o = r => tx'[o].book = b
        BY <1>2, <1>5
      <4> QED BY <3>2, <4>1, <4>2, <4>3
    <3>4. LoneTx(tx[q])
      BY <3>2 DEF TagsInv, TransactionsInv
    <3>5. LoneTx(tx[q])'
      BY <1>1, <3>1, <3>4 DEF LoneTx, LinksOf
    <3> QED BY <3>1, <3>3, <3>5 DEF OthersOn, Open
  <2> QED BY <2>1, <2>2
<1>9. tx' \in [Requests -> Tx]
  <2>1. \A q \in Requests : tx'[q] \in Tx
    BY <1>7 DEF TxInv
  <2>2. tx' = [q \in Requests |-> tx'[q]]
    <3> HIDE DEF new, rivals
    <3> QED BY <1>1
  <2> QED BY <2>1, <2>2
<1>10. TablesInv'
  BY <1>1 DEF TagsInv, TablesInv
<1> QED BY <1>7, <1>8, <1>9, <1>10 DEF TagsInv, TransactionsInv

\* What a commit leaves of the links.
LEMMA CommitLinks ==
    ASSUME TagsInv, NEW r \in Requests, Commit(r)
    PROVE  /\ \A b : LinksOf(b)' = IF b = tx[r].book
                                   THEN (LinksOf(b) \ tx[r].removed) \cup tx[r].linked
                                   ELSE LinksOf(b)
           /\ tx'[r].at = "idle" /\ tx'[r].reply = "ok" /\ tx'[r].book = tx[r].book
           /\ tx' = [tx EXCEPT ![r] = Closed(r, "ok")]
           /\ tx[r].removed \subseteq Tags /\ tx[r].linked \subseteq Tags
<1> DEFINE x == tx[r]
<1>1. x \in Tx /\ tx \in [Requests -> Tx]
  BY DEF TagsInv, TransactionsInv
<1>2. x.removed \subseteq Tags /\ x.linked \subseteq Tags
  <2> HIDE DEF x
  <2> QED BY <1>1 DEF Tx
<1>3. /\ bookTags' = (bookTags \ ({x.book} \X x.removed)) \cup ({x.book} \X x.linked)
      /\ tx' = [tx EXCEPT ![r] = Closed(r, "ok")]
  BY DEF Commit
<1>4. tx'[r].at = "idle" /\ tx'[r].reply = "ok" /\ tx'[r].book = tx[r].book
  BY <1>1, <1>3 DEF Closed, Tx
<1> HIDE DEF x
<1>5. ASSUME NEW b, b = x.book PROVE LinksOf(b)' = (LinksOf(b) \ x.removed) \cup x.linked
  BY <1>2, <1>3, <1>5 DEF LinksOf
<1>6. ASSUME NEW b, b # x.book PROVE LinksOf(b)' = LinksOf(b)
  BY <1>3, <1>6 DEF LinksOf
<1> QED BY <1>2, <1>3, <1>4, <1>5, <1>6 DEF x

\* A transaction commits.
LEMMA CommitStep ==
    ASSUME TagsInv, NEW r \in Requests, Commit(r)
    PROVE  TagsInv'
<1> DEFINE x == tx[r]
           new == [x EXCEPT !.at = "idle", !.todo = <<>>, !.asked = {}, !.seen = {},
                            !.removed = {}, !.linked = {}, !.held = {}, !.reply = "ok"]
<1>1. /\ TxInv(x) /\ x.at = "tag" /\ <<>> \in Seq(Tags)
      /\ tags' = tags \cup x.held /\ UNCHANGED <<books, deleting>>
      /\ bookTags' = (bookTags \ ({x.book} \X x.removed)) \cup ({x.book} \X x.linked)
  BY DEF TagsInv, TransactionsInv, Commit
<1>2. /\ tx' = [tx EXCEPT ![r] = new]
  BY DEF Commit, Closed
<1> HIDE DEF x
<1>3. /\ new \in Tx /\ new.at = "idle" /\ new.removed = {} /\ new.linked = {} /\ new.held = {}
  BY <1>1 DEF TxInv, Tx, Statement
<1> HIDE DEF new
<1>4. /\ tx' \in [Requests -> Tx] /\ tx'[r] = new
      /\ \A q \in Requests \ {r} : tx'[q] = tx[q]
  BY <1>2, <1>3 DEF TagsInv, TransactionsInv
<1>5. TablesInv'
  <2>1. x.held \subseteq Tags /\ x.linked \subseteq x.held /\ (x.linked # {} => x.book \in books)
    BY <1>1 DEF TxInv, Tx
  <2> QED BY <1>1, <2>1 DEF TagsInv, TablesInv
<1>6. ASSUME NEW q \in Requests PROVE TxInv(tx[q])'
  BY <1>1, <1>3, <1>4 DEF TagsInv, TransactionsInv, TxInv
<1>7. ASSUME NEW q \in Requests, Lone(q)' PROVE OthersOn(q)' = {} /\ LoneTx(tx[q])'
  <2>1. q # r /\ tx'[q] = tx[q] /\ Lone(q)
    BY <1>1, <1>3, <1>4, <1>7 DEF Lone, Open
  <2>2. OthersOn(q)' \subseteq OthersOn(q)
    BY <1>3, <1>4, <2>1 DEF OthersOn, Open
  <2>3. OthersOn(q) = {} /\ LoneTx(tx[q])
    BY <2>1 DEF TagsInv, TransactionsInv
  <2>4. x.book # tx[q].book
    BY <1>1, <2>1, <2>3 DEF OthersOn, Open, x
  <2>5. ASSUME NEW b, b = tx[q].book PROVE LinksOf(b)' = LinksOf(b)
    BY <2>4, <2>5, CommitLinks DEF x
  <2>6. LinksOf(tx[q].book)' = LinksOf(tx[q].book)
    BY <2>1, <2>5
  <2> QED BY <2>1, <2>2, <2>3, <2>6 DEF LoneTx
<1> QED BY <1>4, <1>5, <1>6, <1>7 DEF TagsInv, TransactionsInv

\* A book's row is deleted.
LEMMA DeleteStep ==
    ASSUME TagsInv, NEW b \in Books, DeleteBook(b)
    PROVE  TagsInv' /\ \A c \in books' : LinksOf(c)' = LinksOf(c)
<1>1. /\ books' = books \ {b} /\ bookTags' = {link \in bookTags : link[1] # b}
      /\ UNCHANGED <<tags, tx>> /\ b \in deleting /\ deleting' = deleting \ {b}
  BY DEF DeleteBook
<1>2. TablesInv'
  BY <1>1 DEF TagsInv, TablesInv
<1>3. ASSUME NEW c \in books' PROVE LinksOf(c)' = LinksOf(c)
  BY <1>1, <1>3 DEF LinksOf
<1>4. ASSUME NEW r \in Requests PROVE TxInv(tx[r])'
  BY <1>1 DEF TagsInv, TransactionsInv, TxInv
<1>5. ASSUME NEW r \in Requests, Lone(r)' PROVE OthersOn(r)' = {} /\ LoneTx(tx[r])'
  <2>1. Lone(r) /\ tx[r].book \in books' /\ UNCHANGED tx
    BY <1>1, <1>5 DEF Lone, Open
  <2>2. OthersOn(r) = {} /\ LoneTx(tx[r])
    BY <2>1 DEF TagsInv, TransactionsInv
  <2>3. LinksOf(tx[r].book)' = LinksOf(tx[r].book)
    BY <1>1, <2>1 DEF LinksOf
  <2> QED BY <2>1, <2>2, <2>3 DEF OthersOn, Open, LoneTx
<1> QED BY <1>1, <1>2, <1>3, <1>4, <1>5 DEF TagsInv, TransactionsInv

\* The DELETE of a book's row waits for its links, or fails.
LEMMA WaitStep ==
    ASSUME TagsInv, NEW b \in Books, LockBook(b) \/ DeleteFails(b)
    PROVE  TagsInv'
<1>1. /\ UNCHANGED <<books, tags, bookTags, tx>> /\ deleting' \subseteq books
      /\ \A r \in Requests : tx[r].linked # {} /\ tx[r].book \notin deleting =>
                                 tx[r].book \notin deleting'
  BY DEF LockBook, DeleteFails, TagsInv, TablesInv
<1>2. TablesInv'
  BY <1>1 DEF TagsInv, TablesInv
<1>3. ASSUME NEW r \in Requests PROVE TxInv(tx[r])'
  BY <1>1 DEF TagsInv, TransactionsInv, TxInv
<1>4. ASSUME NEW r \in Requests, Lone(r)' PROVE OthersOn(r)' = {} /\ LoneTx(tx[r])'
  BY <1>1, <1>4 DEF TagsInv, TransactionsInv, Lone, Open, OthersOn, LoneTx, LinksOf
<1> QED BY <1>1, <1>2, <1>3, <1>4 DEF TagsInv, TransactionsInv

\* Every step keeps the invariant.
LEMMA TagsStep == TagsInv /\ [Next]_vars => TagsInv'
<1> SUFFICES ASSUME TagsInv, [Next]_vars PROVE TagsInv'
  OBVIOUS
<1>a. ASSUME NEW r \in Requests
      PROVE  /\ TxInv(tx[r]) /\ tx[r] \in Tx /\ tx[r].todo \in Seq(Tags)
             /\ Lone(r) => LoneTx(tx[r])
  <2>1. TxInv(tx[r]) /\ tx[r] \in Tx /\ (Lone(r) => LoneTx(tx[r]))
    BY DEF TagsInv, TransactionsInv
  <2> QED BY <2>1, TagListsAssumption DEF Tx
<1>1. ASSUME NEW r \in Requests, DeleteOld(r) PROVE TagsInv'
  <2> DEFINE x == tx[r]
             new == [x EXCEPT !.at = "tag", !.removed = x.seen \cap LinksOf(x.book)]
  <2>1. /\ TxInv(x) /\ x \in Tx /\ x.at = "delete" /\ Open(r)
        /\ UNCHANGED <<books, tags, bookTags, deleting>>
    BY <1>a, <1>1 DEF DeleteOld, Open
  <2>2. tx' = [tx EXCEPT ![r] = new]
    BY <1>1 DEF DeleteOld, TagsInv, TransactionsInv
  <2>3. Lone(r) => LoneTx(x)
    BY <1>a
  <2> HIDE DEF x
  <2>4. /\ new \in Tx /\ new.at = "tag" /\ new.removed = x.seen \cap LinksOf(x.book)
        /\ new.book = x.book /\ new.linked = x.linked /\ new.asked = x.asked
        /\ new.todo = x.todo /\ (new.alone <=> x.alone)
    BY <2>1 DEF Tx, Statement, LinksOf
  <2> HIDE DEF new
  <2>5. TxInv(new)
    BY <2>1, <2>4 DEF TxInv
  <2>6. Lone(r) => LoneTx(new)
    BY <2>1, <2>3, <2>4 DEF TxInv, LoneTx
  <2> QED BY <2>1, <2>2, <2>4, <2>5, <2>6, TxStep DEF x
<1>2. ASSUME NEW r \in Requests, UpsertTag(r) PROVE TagsInv'
  <2> DEFINE x == tx[r]
             new == [x EXCEPT !.at = "link", !.held = x.held \cup {Head(x.todo)}]
  <2>1. /\ TxInv(x) /\ x \in Tx /\ x.at = "tag" /\ Open(r)
        /\ UNCHANGED <<books, tags, bookTags, deleting>> /\ x.todo # <<>> /\ Head(x.todo) \in Tags
    BY <1>a, <1>2, HeadAndTail DEF UpsertTag, Open
  <2>2. tx' = [tx EXCEPT ![r] = new]
    BY <1>2 DEF UpsertTag, TagsInv, TransactionsInv
  <2>3. Lone(r) => LoneTx(x)
    BY <1>a
  <2> HIDE DEF x
  <2>4. /\ new \in Tx /\ new.at = "link" /\ new.held = x.held \cup {Head(x.todo)}
        /\ new.removed = x.removed
        /\ new.book = x.book /\ new.linked = x.linked /\ new.asked = x.asked
        /\ new.todo = x.todo /\ (new.alone <=> x.alone)
    BY <2>1 DEF Tx, Statement
  <2> HIDE DEF new
  <2>5. TxInv(new)
    BY <2>1, <2>4 DEF TxInv
  <2>6. Lone(r) => LoneTx(new)
    BY <2>1, <2>3, <2>4 DEF LoneTx
  <2> QED BY <2>1, <2>2, <2>4, <2>5, <2>6, TxStep DEF x
<1>3. ASSUME NEW r \in Requests, LinkTag(r) PROVE TagsInv'
  <2> DEFINE x == tx[r]
             t == Head(x.todo)
             more == {t} \ (LinksOf(x.book) \ x.removed)
             new == [x EXCEPT !.at = "tag", !.todo = Tail(x.todo), !.linked = x.linked \cup more]
  <2>1. /\ TxInv(x) /\ x \in Tx /\ x.at = "link" /\ Open(r) /\ x.book \in books
        /\ UNCHANGED <<books, tags, bookTags, deleting>> /\ x.todo # <<>> /\ t \in x.held
    BY <1>a, <1>3 DEF LinkTag, Open, TxInv
  <2>2. tx' = [tx EXCEPT ![r] = new]
    BY <1>3 DEF LinkTag, Kept, TagsInv, TransactionsInv
  <2>3. Lone(r) => LoneTx(x)
    BY <1>a
  <2>4. /\ t \in Tags /\ Tail(x.todo) \in Seq(Tags)
        /\ ToSet(x.todo) = {t} \cup ToSet(Tail(x.todo))
    BY <1>a, <2>1, HeadAndTail
  <2>5. more \subseteq {t} /\ (more # {} => x.book \notin deleting)
    BY <1>3 DEF LinkTag, AwaitsDelete, Kept
  <2>6. Lone(r) => more = {t}
    BY <2>1, <2>3 DEF LoneTx
  <2> HIDE DEF x, t, more
  <2>7. /\ new \in Tx /\ new.at = "tag" /\ new.linked = x.linked \cup more
        /\ new.removed = x.removed /\ new.held = x.held
        /\ new.book = x.book /\ new.asked = x.asked
        /\ new.todo = Tail(x.todo) /\ (new.alone <=> x.alone)
    BY <2>1, <2>4, <2>5 DEF Tx, Statement
  <2> HIDE DEF new
  <2>8. TxInv(new)
    BY <2>1, <2>5, <2>7 DEF TxInv
  <2>9. Lone(r) => LoneTx(new)
    BY <2>1, <2>3, <2>4, <2>6, <2>7 DEF LoneTx
  <2> QED BY <2>1, <2>2, <2>7, <2>8, <2>9, TxStep DEF x
<1>4. ASSUME NEW r \in Requests, LinkRefused(r) \/ StatementFails(r) \/ BreakDeadlock(r)
      PROVE  TagsInv'
  <2>1. Open(r)
    BY <1>4 DEF LinkRefused, StatementFails, BreakDeadlock, Deadlocked, Open, Blockers
  <2> QED BY <1>4, <2>1, RollbackStep DEF LinkRefused, StatementFails, BreakDeadlock
<1>5. CASE UNCHANGED vars
  BY <1>5 DEF vars, TagsInv, TablesInv, TransactionsInv, TxInv, Lone, LoneTx, LinksOf, OthersOn,
              Open
<1> QED BY <1>1, <1>2, <1>3, <1>4, <1>5, BeginStep, CommitStep, DeleteStep, WaitStep
        DEF Next

\* It holds to begin with.
LEMMA TagsInit == Init => TagsInv
<1> SUFFICES ASSUME Init PROVE TagsInv
  OBVIOUS
<1>1. ASSUME NEW r \in Requests
      PROVE  tx[r] \in [at : {"idle"}, book : Books, todo : {<<>>}, asked : {{}},
                        seen : {{}}, removed : {{}}, linked : {{}}, held : {{}},
                        alone : {TRUE}, reply : {"none"}]
  BY DEF Init
<1>2. ASSUME NEW r \in Requests
      PROVE  /\ tx[r] \in Tx /\ tx[r].at = "idle" /\ tx[r].removed = {} /\ tx[r].linked = {}
             /\ tx[r].held = {}
  <2>1. <<>> \in Seq(Tags)
    OBVIOUS
  <2> QED BY <1>1, <2>1 DEF Tx
<1>3. tx \in [Requests -> Tx]
  BY <1>2 DEF Init
<1> QED BY <1>2, <1>3 DEF Init, TagsInv, TablesInv, TransactionsInv, TxInv, Lone, Open

\* Types; a tag that is linked to a book has a row, and so has the book: two requests
\* that create and link the same new tag, or a deletion between a request's
\* statements, do not leave a link of nothing.
THEOREM LinksHaveRows == Spec => []TypeOK
<1>1. TagsInv => TypeOK
  BY DEF TagsInv, TablesInv, TransactionsInv, TypeOK
<1> QED BY TagsInit, TagsStep, <1>1, PTL DEF Spec

\* Only a success, or the deletion of the book, changes what readers see of a book's
\* tags, and one that overlapped no other request on the book leaves exactly the tags
\* it asked for.
THEOREM SuccessReplacesTags == Spec => TagsReplaced
<1>a. ASSUME TagsInv, NEW r \in Requests, Rollback(r), Open(r)
      PROVE  UNCHANGED bookTags /\ \A q \in Requests : ~Replied(q, "ok")
  <2>1. /\ tx'[r].reply = "error" /\ UNCHANGED bookTags
        /\ \A q \in Requests \ {r} : tx'[q] = tx[q]
    BY <1>a DEF Rollback, Closed, TagsInv, TransactionsInv, Tx
  <2>2. ASSUME NEW q \in Requests PROVE ~Replied(q, "ok")
    BY <2>1 DEF Replied, Open
  <2> QED BY <2>1, <2>2
<1>1. ASSUME TagsInv, NEW r \in Requests, Commit(r)
      PROVE  /\ \A b \in books' : LinksOf(b)' # LinksOf(b) => tx[r].book = b /\ Replied(r, "ok")
             /\ \A q \in Requests :
                   Replied(q, "ok") /\ tx[q].alone /\ tx[q].book \in books' =>
                       LinksOf(tx[q].book)' = tx[q].asked
  <2>1. /\ \A b : LinksOf(b)' = IF b = tx[r].book
                                THEN (LinksOf(b) \ tx[r].removed) \cup tx[r].linked
                                ELSE LinksOf(b)
        /\ tx'[r].at = "idle" /\ tx'[r].reply = "ok" /\ tx'[r].book = tx[r].book
        /\ \A q \in Requests \ {r} : tx'[q] = tx[q]
    BY <1>1, CommitLinks DEF TagsInv, TransactionsInv
  <2>2. Replied(r, "ok") /\ Open(r) /\ tx[r].at = "tag" /\ tx[r].todo = <<>> /\ UNCHANGED books
    BY <1>1, <2>1 DEF Replied, Open, Commit
  <2>3. ASSUME NEW q \in Requests, Replied(q, "ok"), tx[q].alone, tx[q].book \in books'
        PROVE  LinksOf(tx[q].book)' = tx[q].asked
    <3>1. q = r
      BY <2>1, <2>3 DEF Replied, Open
    <3>2. LoneTx(tx[r])
      BY <1>1, <2>2, <2>3, <3>1 DEF TagsInv, TransactionsInv, Lone
    <3>3. ToSet(<<>>) = {}
      BY DEF ToSet
    <3>4. (LinksOf(tx[r].book) \ tx[r].removed) \cup tx[r].linked = tx[r].asked
      BY <2>2, <3>2, <3>3 DEF LoneTx
    <3> QED BY <2>1, <3>1, <3>4
  <2> QED BY <2>1, <2>2, <2>3
<1>2. ASSUME TagsInv, NEW b \in Books, DeleteBook(b)
      PROVE  /\ \A c \in books' : LinksOf(c)' = LinksOf(c)
             /\ \A q \in Requests : ~Replied(q, "ok")
  <2>1. UNCHANGED tx
    BY <1>2 DEF DeleteBook
  <2> QED BY <1>2, <2>1, DeleteStep DEF Replied, Open
<1>b. ASSUME NEW b \in Books, LockBook(b) \/ DeleteFails(b)
      PROVE  UNCHANGED bookTags /\ \A q \in Requests : ~Replied(q, "ok")
  BY <1>b DEF LockBook, DeleteFails, Replied, Open
<1>3. ASSUME TagsInv, NEW r \in Requests,
             DeleteOld(r) \/ UpsertTag(r) \/ LinkTag(r)
                 \/ \E b \in Books, names \in TagLists : SetBookTags(r, b, names)
      PROVE  UNCHANGED bookTags /\ \A q \in Requests : ~Replied(q, "ok")
  <2>1. UNCHANGED bookTags
    BY <1>3 DEF DeleteOld, UpsertTag, LinkTag, SetBookTags
  <2>2. ASSUME NEW q \in Requests, Open(q) PROVE tx'[q].at # "idle"
    <3>1. tx \in [Requests -> Tx] /\ tx[q].at # "idle"
      BY <1>3, <2>2 DEF TagsInv, TransactionsInv, Open
    <3>2. CASE DeleteOld(r)
      BY <3>1, <3>2 DEF DeleteOld, Tx
    <3>3. CASE UpsertTag(r)
      BY <3>1, <3>3 DEF UpsertTag, Tx
    <3>4. CASE LinkTag(r)
      BY <3>1, <3>4 DEF LinkTag, Tx
    <3>5. ASSUME NEW b \in Books, NEW names \in TagLists, SetBookTags(r, b, names)
          PROVE  tx'[q].at # "idle"
      <4> DEFINE rivals == {o \in Requests : Open(o) /\ tx[o].book = b}
                 new == [at |-> "delete", book |-> b, todo |-> names, asked |-> ToSet(names),
                         seen |-> LinksOf(b), removed |-> {}, linked |-> {}, held |-> {},
                         alone |-> rivals = {}, reply |-> "none"]
      <4>1. tx' = [o \in Requests |-> CASE o = r -> new
                                        [] o \in rivals -> [tx[o] EXCEPT !.alone = FALSE]
                                        [] OTHER -> tx[o]]
        BY <3>5 DEF SetBookTags
      <4>2. q # r
        BY <2>2, <3>5 DEF SetBookTags
      <4>3. tx'[q] \in {tx[q], [tx[q] EXCEPT !.alone = FALSE]}
        <5> HIDE DEF rivals, new
        <5> QED BY <4>1, <4>2
      <4> QED BY <3>1, <4>3 DEF Tx
    <3> QED BY <1>3, <3>2, <3>3, <3>4, <3>5
  <2> QED BY <2>1, <2>2 DEF Replied
<1>4. ASSUME NEW r \in Requests, LinkRefused(r) \/ StatementFails(r) \/ BreakDeadlock(r)
      PROVE  Rollback(r) /\ Open(r)
  BY <1>4 DEF LinkRefused, StatementFails, BreakDeadlock, Deadlocked, Open, Blockers
<1> DEFINE Replaced ==
        /\ \A b \in books' : LinksOf(b)' # LinksOf(b) =>
              \E r \in Requests : tx[r].book = b /\ Replied(r, "ok")
        /\ \A r \in Requests :
              Replied(r, "ok") /\ tx[r].alone /\ tx[r].book \in books' =>
                  LinksOf(tx[r].book)' = tx[r].asked
<1>5. ASSUME UNCHANGED bookTags, \A q \in Requests : ~Replied(q, "ok") PROVE Replaced
  BY <1>5 DEF LinksOf
<1>6. TagsInv /\ Next => Replaced
  <2>1. SUFFICES ASSUME TagsInv, Next PROVE Replaced
    OBVIOUS
  <2>2. ASSUME NEW r \in Requests, Commit(r) PROVE Replaced
    BY <1>1, <2>1, <2>2
  <2>3. ASSUME NEW b \in Books, DeleteBook(b) PROVE Replaced
    BY <1>2, <2>1, <2>3
  <2>4. ASSUME NEW r \in Requests, LinkRefused(r) \/ StatementFails(r) \/ BreakDeadlock(r)
        PROVE  Replaced
    <3> HIDE DEF Replaced
    <3> QED BY <1>4, <1>a, <1>5, <2>1, <2>4
  <2>5. ASSUME NEW r \in Requests,
               DeleteOld(r) \/ UpsertTag(r) \/ LinkTag(r)
                   \/ \E b \in Books, names \in TagLists : SetBookTags(r, b, names)
        PROVE  Replaced
    <3> HIDE DEF Replaced
    <3> QED BY <1>3, <1>5, <2>1, <2>5
  <2>6. ASSUME NEW b \in Books, LockBook(b) \/ DeleteFails(b) PROVE Replaced
    <3> HIDE DEF Replaced
    <3> QED BY <1>b, <1>5, <2>6
  <2> HIDE DEF Replaced
  <2> QED BY <2>1, <2>2, <2>3, <2>4, <2>5, <2>6 DEF Next
<1>7. TagsInv /\ [Next]_vars => [Replaced]_vars
  <2> HIDE DEF Replaced
  <2> QED BY <1>6
<1> QED BY TagsInit, TagsStep, <1>7, PTL DEF Spec, TagsReplaced

=============================================================================
