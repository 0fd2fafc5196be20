------------------------------ MODULE Listing -------------------------------
(***************************************************************************)
(* The paginated lists of the API: a client walks through one of them page *)
(* by page (limit and offset) while other requests insert rows, and, in    *)
(* the list of users, delete some.  Every page is a query of its own; the  *)
(* ledger also counts the rows, in a second query.                         *)
(*                                                                         *)
(* created_at is read by the process before its transaction commits, and   *)
(* rows that one request inserts share it (the entries of a trade, the     *)
(* accounts of a user).  Where the query sorts by created_at alone, the    *)
(* database may give rows with one created_at in any order, and in another *)
(* one for the next page.                                                  *)
(*                                                                         *)
(* The rows are those the caller may see: who may is left out, and so are  *)
(* the filters that select rows by what never changes (asset, type).       *)
(***************************************************************************)
EXTENDS Naturals, SequencesExt

CONSTANTS Rows,          \* ids of rows, compared as numbers
          DefaultLimit,  \* 50 in the code
          MaxLimit,      \* 100 in the code
          Asked,         \* limits the client may send
          Windows,       \* from and to of the ledger's filter
          MaxNow         \* bound on the clock

ASSUME ListingBounds ==
    /\ Rows \subseteq Nat /\ IsFiniteSet(Rows) /\ MaxNow \in Nat
    /\ MaxLimit \in Nat /\ DefaultLimit \in 1..MaxLimit
    /\ Asked \subseteq Nat
    /\ Windows \subseteq [from : Nat, to : Nat]

VARIABLES list,       \* the list the client walks through
          window,     \* its filter by time
          asked,      \* the limit the client sends, 0 for none
          now,        \* the clock
          createdAt,  \* [Rows -> Nat], 0 before the row's request has read the clock
          rows,       \* committed rows
          phase,      \* of the walk: idle, asking, counting, answered, done
          offset,     \* of the page
          items,      \* the page
          total,      \* LedgerListResponse.Total
          seen,       \* the items of the walk so far
          present,    \* rows of the list when the walk began
          joined,     \* rows that have come into the list since
          removed     \* rows that have left it since

tableVars == <<now, createdAt, rows>>
walkVars == <<phase, offset, items, total, seen, present>>
listingVars == <<list, window, asked, tableVars, walkVars, joined, removed>>

-----------------------------------------------------------------------------
(* The lists: whether the id breaks ties, whether the reply names the limit *)
(* and the total, and whether rows can leave it.                            *)

List(byId, counted, shrinks) == [byId |-> byId, counted |-> counted, shrinks |-> shrinks]

Ledger == List(TRUE, TRUE, FALSE)
Withdrawals == List(TRUE, FALSE, FALSE)
Orders == List(FALSE, FALSE, FALSE)
Trades == List(FALSE, FALSE, FALSE)
Deposits == List(FALSE, FALSE, FALSE)
Accounts == List(FALSE, FALSE, FALSE)
Users == List(FALSE, FALSE, TRUE)

Lists == {Ledger, Withdrawals, Orders, Trades, Deposits, Accounts, Users}

\* ParsePagination: a limit that is missing or out of range is replaced by the default.
ParsePagination(n) == IF n > 0 /\ n <= MaxLimit THEN n ELSE DefaultLimit

\* buildWhere: the filter by time, which only the ledger has.
InWindow(r) == createdAt[r] >= window.from /\ createdAt[r] < window.to

Listed == {r \in rows : InWindow(r)}

\* Mutant: the ledger is sorted by created_at only.
ComesBeforeByTime(r, s) == createdAt[r] > createdAt[s]

\* ORDER BY created_at DESC, with id DESC where the store says so.
ComesBefore(r, s) ==
    \/ createdAt[r] > createdAt[s]
    \/ list.byId /\ createdAt[r] = createdAt[s] /\ r > s

\* The orders in which the database may return the rows.
Sorted == {q \in SetToSeqs(Listed) : \A i, j \in DOMAIN q : ComesBefore(q[i], q[j]) => i < j}

\* Mutant: one row more than the limit.
PageLonger(q) == SubSeq(q, offset + 1, Min({Len(q), offset + ParsePagination(asked) + 1}))

\* LIMIT and OFFSET.
Page(q) == SubSeq(q, offset + 1, Min({Len(q), offset + ParsePagination(asked)}))

-----------------------------------------------------------------------------
(* Other requests *)

Tick ==
    /\ now < MaxNow
    /\ now' = now + 1
    /\ UNCHANGED <<list, window, asked, createdAt, rows, walkVars, joined, removed>>

\* timeutil.Now of a request that will insert the row.
ReadClock(r) ==
    /\ createdAt[r] = 0
    /\ createdAt' = [createdAt EXCEPT ![r] = now]
    /\ UNCHANGED <<list, window, asked, now, rows, walkVars, joined, removed>>

Insert(r) ==
    /\ createdAt[r] > 0
    /\ r \notin rows \cup removed
    /\ rows' = rows \cup {r}
    /\ joined' = IF phase # "idle" /\ InWindow(r) THEN joined \cup {r} ELSE joined
    /\ UNCHANGED <<list, window, asked, now, createdAt, walkVars, removed>>

\* DeleteUser sets deleted_at.
DeleteUser(r) ==
    /\ list.shrinks
    /\ phase # "idle"
    /\ r \in rows
    /\ rows' = rows \ {r}
    /\ removed' = removed \cup {r}
    /\ UNCHANGED <<list, window, asked, now, createdAt, walkVars, joined>>

-----------------------------------------------------------------------------
(* The walk *)

Begin ==
    /\ phase = "idle"
    /\ phase' = "asking"
    /\ present' = Listed
    /\ UNCHANGED <<list, window, asked, tableVars, offset, items, total, seen, joined, removed>>

\* The query of the store.
ListPage ==
    /\ phase = "asking"
    /\ \E q \in Sorted : items' = Page(q)
    /\ phase' = IF list.counted THEN "counting" ELSE "answered"
    /\ UNCHANGED <<list, window, asked, tableVars, offset, total, seen, present, joined, removed>>

\* Mutant: the total of the first page is kept.
CountOnce == IF offset = 0 THEN Cardinality(Listed) ELSE total

CountByUser == Cardinality(Listed)

\* respondList counts after it has listed.
CountRows ==
    /\ phase = "counting"
    /\ total' = CountByUser
    /\ phase' = "answered"
    /\ UNCHANGED <<list, window, asked, tableVars, offset, items, seen, present, joined, removed>>

\* The size of a full page as the client knows it: the reply's limit, or what it has asked for.
FullPage == IF list.counted \/ asked = 0 THEN ParsePagination(asked) ELSE asked

\* The client goes on until a page is not full.
NextPage ==
    /\ phase = "answered"
    /\ seen' = seen \o items
    /\ \/ Len(items) < FullPage /\ phase' = "done" /\ UNCHANGED offset
       \/ Len(items) >= FullPage /\ phase' = "asking" /\ offset' = offset + FullPage
    /\ UNCHANGED <<list, window, asked, tableVars, items, total, present, joined, removed>>

-----------------------------------------------------------------------------
ListingInit ==
    /\ list \in Lists
    /\ window \in IF list = Ledger THEN Windows ELSE {[from |-> 0, to |-> MaxNow + 1]}
    /\ asked \in Asked
    /\ now = 1
    /\ createdAt = [r \in Rows |-> 0]
    /\ phase = "idle" /\ offset = 0 /\ total = 0 /\ items = <<>> /\ seen = <<>>
    /\ rows = {} /\ present = {} /\ joined = {} /\ removed = {}

ListingNext ==
    \/ Tick
    \/ \E r \in Rows : ReadClock(r) \/ Insert(r) \/ DeleteUser(r)
    \/ Begin \/ ListPage \/ CountRows \/ NextPage

ListingSpec == ListingInit /\ [][ListingNext]_listingVars

-----------------------------------------------------------------------------
(* Properties *)

\* Another row of the list has the same created_at, and nothing orders the two.
Tied(r) == ~list.byId /\ \E s \in (rows \cup removed) \ {r} : createdAt[s] = createdAt[r]

\* README, GET /users: "default 50/0, max 100".  A client that asks for more gets the
\* default, and a reply that does not name the limit looks like the last page.
Misread == ~list.counted /\ asked > MaxLimit

\* A walk that has come to its end has shown every row that was in the list when it
\* began, however many rows came in meanwhile, the late ones among older rows too.
\* What can hide a row is a tie that the query leaves open, a deleted user, or a
\* limit that the client misreads.
WalkIsComplete ==
    phase = "done" /\ removed = {} /\ ~Misread =>
        \A r \in present : r \in Range(seen) \/ Tied(r)

\* A row is shown twice only if another one has come into the list during the walk
\* or a tie was left open: a ledger filtered by a past `to` repeats nothing unless
\* a transaction commits late.
RepeatsNeedInsertions ==
    \A i, j \in DOMAIN seen : i # j /\ seen[i] = seen[j] => joined # {} \/ Tied(seen[i])

\* Because respondList counts after listing and entries are never deleted, the total
\* always covers the page next to it.
TotalCoversPage ==
    phase = "answered" /\ list.counted /\ items # <<>> => offset + Len(items) <= total
=============================================================================
