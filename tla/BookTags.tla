------------------------------ MODULE BookTags ------------------------------
(***************************************************************************)
(* The tags (genres) of books: internal/db/tags.go and the handlers of     *)
(* internal/api/books.go.  SetBookTags is one transaction of many          *)
(* statements; requests run it concurrently in PostgreSQL at READ          *)
(* COMMITTED.  What that isolation level means for this code is modelled   *)
(* statement by statement:                                                 *)
(*   - a statement sees the rows committed when it started;                *)
(*   - a row another open transaction deleted, or a tag row it inserted    *)
(*     or updated, makes the statement wait until that transaction ends;   *)
(*   - the rows of a transaction become visible together, when it commits; *)
(*   - a cycle of waiting transactions is found and one of them is failed. *)
(* DELETE of a book's row locks it before it waits for the book's links,  *)
(* which then go all at once.                                              *)
(* A tag list is a sequence of tag names; the empty names the code skips   *)
(* are left out.                                                           *)
(***************************************************************************)
EXTENDS Naturals, Sequences, SequencesExt

CONSTANTS
    Requests,  \* PUT /api/books/{id}/tags requests that may run at once
    Books,     \* ids of book rows; an id is never used twice
    Tags,      \* tag names
    TagLists   \* the lists a request may carry

ASSUME TagListsAssumption == TagLists \subseteq Seq(Tags)

VARIABLES
    books,     \* the books rows that exist
    tags,      \* committed rows of the table tags
    bookTags,  \* committed rows of book_tags, pairs of a book and a tag
    tx,        \* each request's transaction
    deleting   \* books whose DELETE has locked the row and waits for their links

vars == <<books, tags, bookTags, tx, deleting>>

-----------------------------------------------------------------------------
(* A request is idle, or its transaction is in one of these statements:    *)
(* the DELETE of the book's old rows, the upsert of the next tag (or the   *)
(* commit, when no tag is left), the INSERT that links that tag.           *)
Statement == {"delete", "tag", "link"}

Tx == [at : {"idle"} \cup Statement, book : Books, todo : TagLists \cup Seq(Tags),
       asked : SUBSET Tags,   \* the tags of the request
       seen : SUBSET Tags,    \* what the DELETE found when it started
       removed : SUBSET Tags, \* links this transaction deleted
       linked : SUBSET Tags,  \* links it inserted
       held : SUBSET Tags,    \* tag rows it inserted or updated
       alone : BOOLEAN,       \* no other request on the book ran meanwhile
       reply : {"none", "ok", "error"}]

LinksOf(b) == {t \in Tags : <<b, t>> \in bookTags}

Open(r) == tx[r].at # "idle"

OthersOn(r) == {q \in Requests \ {r} : Open(q) /\ tx[q].book = tx[r].book}

\* The links of its book that a transaction finds beside its own.
Kept(r) == LinksOf(tx[r].book) \ tx[r].removed

\* A new link takes a share of the book's row, which its DELETE has locked.
AwaitsDelete(r) ==
    tx[r].at = "link" /\ tx[r].book \in deleting /\ Head(tx[r].todo) \notin Kept(r)

\* The DELETE of a book's row takes its links with it: those that an open transaction
\* has deleted, only when that ends.
Deleters(b) == {q \in Requests : tx[q].book = b /\ tx[q].removed # {}}

\* The transactions whose end the current statement of r waits for, itself or by way
\* of the DELETE of the book.
Blockers(r) ==
    CASE tx[r].at = "delete" -> {q \in OthersOn(r) : tx[q].removed \cap tx[r].seen # {}}
      [] tx[r].at = "tag" /\ tx[r].todo # <<>> ->
             {q \in Requests \ {r} : Head(tx[r].todo) \in tx[q].held}
      [] tx[r].at = "link" -> {q \in OthersOn(r) : Head(tx[r].todo) \in tx[q].removed}
                                  \cup (IF AwaitsDelete(r) THEN Deleters(tx[r].book) ELSE {})
      [] OTHER -> {}

\* Some of the waiting transactions wait for one another in a circle.
Deadlocked(r) ==
    \E circle \in SUBSET Requests :
        r \in circle /\ \A q \in circle : Blockers(q) \cap circle # {}

-----------------------------------------------------------------------------
Closed(r, answer) ==
    [tx[r] EXCEPT !.at = "idle", !.todo = <<>>, !.asked = {}, !.seen = {}, !.removed = {},
                  !.linked = {}, !.held = {}, !.reply = answer]

\* setBookTags: BEGIN and the start of the DELETE.  Nothing looks whether the
\* book exists.
SetBookTags(r, b, names) ==
    /\ ~Open(r)
    /\ LET rivals == {q \in Requests : Open(q) /\ tx[q].book = b} IN
       tx' = [q \in Requests |->
                 CASE q = r -> [at |-> "delete", book |-> b, todo |-> names,
                                asked |-> ToSet(names), seen |-> LinksOf(b), removed |-> {},
                                linked |-> {}, held |-> {}, alone |-> rivals = {},
                                reply |-> "none"]
                   [] q \in rivals -> [tx[q] EXCEPT !.alone = FALSE]
                   [] OTHER -> tx[q]]
    /\ UNCHANGED <<books, tags, bookTags, deleting>>

\* Mutant: the old rows are deleted outside the transaction.
DeleteAtOnce(r) ==
    /\ tx[r].at = "delete"
    /\ Blockers(r) = {}
    /\ tx' = [tx EXCEPT ![r].at = "tag"]
    /\ bookTags' = bookTags \ ({tx[r].book} \X tx[r].seen)
    /\ UNCHANGED <<books, tags, deleting>>

\* DELETE FROM book_tags: of the rows it saw, those still there go.
DeleteOld(r) ==
    /\ tx[r].at = "delete"
    /\ Blockers(r) = {}
    /\ tx' = [tx EXCEPT ![r].at = "tag", ![r].removed = tx[r].seen \cap LinksOf(tx[r].book)]
    /\ UNCHANGED <<books, tags, bookTags, deleting>>

\* INSERT INTO tags ... ON CONFLICT DO UPDATE: the tag's row is locked until
\* the transaction ends, whether it is new or not.
UpsertTag(r) ==
    /\ tx[r].at = "tag"
    /\ tx[r].todo # <<>>
    /\ Blockers(r) = {}
    /\ tx' = [tx EXCEPT ![r].at = "link", ![r].held = @ \cup {Head(tx[r].todo)}]
    /\ UNCHANGED <<books, tags, bookTags, deleting>>

\* INSERT INTO book_tags ... ON CONFLICT DO NOTHING.
LinkTag(r) ==
    /\ tx[r].at = "link"
    /\ Blockers(r) = {}
    /\ ~AwaitsDelete(r)
    /\ tx[r].book \in books
    /\ tx' = [tx EXCEPT ![r].at = "tag", ![r].todo = Tail(@),
                        ![r].linked = @ \cup ({Head(tx[r].todo)} \ Kept(r))]
    /\ UNCHANGED <<books, tags, bookTags, deleting>>

Commit(r) ==
    /\ tx[r].at = "tag"
    /\ tx[r].todo = <<>>
    /\ tags' = tags \cup tx[r].held
    /\ bookTags' = (bookTags \ ({tx[r].book} \X tx[r].removed))
                       \cup ({tx[r].book} \X tx[r].linked)
    /\ tx' = [tx EXCEPT ![r] = Closed(r, "ok")]
    /\ UNCHANGED <<books, deleting>>

\* Mutant: no deferred tx.Rollback, the open transaction keeps its locks.
Abandon(r) ==
    /\ tx' = [tx EXCEPT ![r].at = "abandoned"]
    /\ UNCHANGED <<books, tags, bookTags, deleting>>

\* An error return: the deferred tx.Rollback undoes every statement.
Rollback(r) ==
    /\ tx' = [tx EXCEPT ![r] = Closed(r, "error")]
    /\ UNCHANGED <<books, tags, bookTags, deleting>>

\* The book's row is gone: the foreign key refuses the link.
LinkRefused(r) ==
    /\ tx[r].at = "link"
    /\ tx[r].book \notin books
    /\ Rollback(r)

\* Any statement may fail: the client goes away, the connection breaks.
StatementFails(r) == Open(r) /\ Rollback(r)

\* PostgreSQL fails one transaction of a circle.
BreakDeadlock(r) == Deadlocked(r) /\ Rollback(r)

\* A scan or the watcher deletes the book's row: that waits for the transactions that
\* have linked tags to it,
LockBook(b) ==
    /\ b \in books \ deleting
    /\ \A r \in Requests : tx[r].book = b => tx[r].linked = {}
    /\ deleting' = deleting \cup {b}
    /\ UNCHANGED <<books, tags, bookTags, tx>>

\* Mutant: book_tags.book_id without ON DELETE CASCADE.
DeleteBookOnly(b) ==
    /\ b \in deleting
    /\ Deleters(b) = {}
    /\ deleting' = deleting \ {b}
    /\ books' = books \ {b}
    /\ UNCHANGED <<tags, bookTags, tx>>

\* and then its cascade for those that have removed some.
DeleteBook(b) ==
    /\ b \in deleting
    /\ Deleters(b) = {}
    /\ deleting' = deleting \ {b}
    /\ books' = books \ {b}
    /\ bookTags' = {link \in bookTags : link[1] # b}
    /\ UNCHANGED <<tags, tx>>

\* The DELETE fails, as the transaction PostgreSQL picks in a circle, say: the row stays.
DeleteFails(b) ==
    /\ b \in deleting
    /\ deleting' = deleting \ {b}
    /\ UNCHANGED <<books, tags, bookTags, tx>>

-----------------------------------------------------------------------------
Init ==
    /\ books = Books
    /\ tags = {}
    /\ bookTags = {}
    /\ deleting = {}
    /\ tx \in [Requests -> [at : {"idle"}, book : Books, todo : {<<>>}, asked : {{}},
                            seen : {{}}, removed : {{}}, linked : {{}}, held : {{}},
                            alone : {TRUE}, reply : {"none"}]]

Next ==
    \/ \E r \in Requests :
        \/ \E b \in Books, names \in TagLists : SetBookTags(r, b, names)
        \/ DeleteOld(r)
        \/ UpsertTag(r)
        \/ LinkTag(r)
        \/ Commit(r)
        \/ LinkRefused(r)
        \/ StatementFails(r)
        \/ BreakDeadlock(r)
    \/ \E b \in Books : LockBook(b) \/ DeleteBook(b) \/ DeleteFails(b)

\* The handlers and the scan run; the database serves a lock's waiters in turn, so a
\* statement that could go on again and again does go on.
RequestFairness(r) ==
    /\ SF_vars(DeleteOld(r))
    /\ SF_vars(UpsertTag(r))
    /\ SF_vars(LinkTag(r))
    /\ WF_vars(Commit(r))
    /\ WF_vars(LinkRefused(r))
    /\ WF_vars(BreakDeadlock(r))

Spec == Init /\ [][Next]_vars

FairSpec ==
    /\ Spec
    /\ \A r \in Requests : RequestFairness(r)
    /\ \A b \in Books : SF_vars(DeleteBook(b))
-----------------------------------------------------------------------------
(* Correctness.                                                            *)

\* Types, and a tag linked to a book has a row in tags and its book exists:
\* two requests that create and link the same new tag must not miss it.
TypeOK ==
    /\ books \subseteq Books
    /\ tags \subseteq Tags
    /\ bookTags \subseteq books \X tags
    /\ deleting \subseteq books
    /\ tx \in [Requests -> Tx]

Replied(r, answer) == Open(r) /\ tx'[r].at = "idle" /\ tx'[r].reply = answer

\* SetBookTags "replaces all tags for a book": what readers see of a book's
\* tags changes only when a request succeeds (or the book goes), and a request
\* that overlapped no other on its book leaves exactly the tags it asked for,
\* whatever requests failed before it.
TagsReplaced ==
    [][/\ \A b \in books' : LinksOf(b)' # LinksOf(b) =>
              \E r \in Requests : tx[r].book = b /\ Replied(r, "ok")
       /\ \A r \in Requests :
              Replied(r, "ok") /\ tx[r].alone /\ tx[r].book \in books' =>
                  LinksOf(tx[r].book)' = tx[r].asked]_vars

\* The tag rows are locked in the order each request lists them, so two
\* requests can wait for each other; still every request gets an answer.
RequestsEnd == \A r \in Requests : Open(r) ~> ~Open(r)
=============================================================================
