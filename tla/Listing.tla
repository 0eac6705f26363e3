------------------------------ MODULE Listing ------------------------------
(***************************************************************************)
(* Paging through users: list of internal/scim/handler.go and ListUsers of *)
(* internal/store/user.go, called by an identity provider that walks the   *)
(* whole list page by page while users are created.                        *)
(*                                                                         *)
(* A page is a count and a SELECT in two statements. created_at is now(),  *)
(* the start of the creating transaction, so a row may appear among rows   *)
(* that were read long before. Users are never removed: a deactivated one  *)
(* stays listed.                                                           *)
(***************************************************************************)
EXTENDS Integers, Sequences, FiniteSets

CONSTANTS
  Ids,         \* user ids, ordered
  MaxPageSize,
  Counts,      \* what the client may give as count
  Firsts,      \* what it may give as startIndex of its first page
  Missing,     \* a parameter that is not given, or is not a number
  MaxTime      \* bound: the clock

ASSUME ListingAssumption ==
  /\ Ids \subseteq Nat /\ IsFiniteSet(Ids)
  /\ MaxPageSize \in Nat \ {0} /\ MaxTime \in Nat
  /\ Missing \notin Int /\ Counts \subseteq Int \cup {Missing}
  /\ Firsts \subseteq {n \in Int : n <= 1} \cup {Missing}

VARIABLES
  clock,
  open, rows, \* users in open transactions, and committed ones
  walk,       \* where the client is
  start,      \* startIndex of its next page
  total,      \* the totalResults of the page in progress
  got,        \* the ids it has received, in order
  base        \* the users there were when it began

listing == <<clock, open, rows, walk, start, total, got, base>>

User == [id : Ids, at : 0..MaxTime]

ListingInit ==
  /\ clock = 0 /\ open = {} /\ rows = {}
  /\ walk = "idle" /\ start = 1 /\ total = 0 /\ got = <<>> /\ base = {}

\* The primary key, which waits for open transactions.
Used == {u.id : u \in open \cup rows}

Tick ==
  /\ clock < MaxTime
  /\ clock' = clock + 1
  /\ UNCHANGED <<open, rows, walk, start, total, got, base>>

\* CreateUser begins its transaction and inserts, under a random id.
BeginCreate ==
  /\ \E i \in Ids \ Used : open' = open \cup {[id |-> i, at |-> clock]}
  /\ UNCHANGED <<clock, rows, walk, start, total, got, base>>

\* It commits ...
CommitCreate ==
  /\ \E u \in open : rows' = rows \cup {u} /\ open' = open \ {u}
  /\ UNCHANGED <<clock, walk, start, total, got, base>>

\* ... or is rolled back.
AbortCreate ==
  /\ \E u \in open : open' = open \ {u}
  /\ UNCHANGED <<clock, rows, walk, start, total, got, base>>

BeginWalk ==
  /\ walk = "idle"
  /\ walk' = "count" /\ base' = rows
  /\ UNCHANGED <<clock, open, rows, start, total, got>>

\* ListUsers: SELECT count(*).
CountUsers ==
  /\ walk = "count"
  /\ walk' = "page" /\ total' = Cardinality(rows)
  /\ UNCHANGED <<clock, open, rows, start, got, base>>

\* Mutant: ORDER BY created_at.
Tied(u, v) == u.at <= v.at

\* ORDER BY created_at, id.
InOrderOf(u, v) == u.at < v.at \/ (u.at = v.at /\ u.id <= v.id)

\* The orders in which a query may return the rows.
Orders(R) ==
  {s \in [1..Cardinality(R) -> R] :
     \A i, j \in 1..Cardinality(R) : i < j => s[i] # s[j] /\ InOrderOf(s[i], s[j])}

Least(a, b) == IF a <= b THEN a ELSE b

\* pageParams: both parameters are floored rather than refused.
StartIndex(n) == IF n # Missing /\ n > 1 THEN n ELSE 1

Limit(n) ==
  Least(MaxPageSize, IF n = Missing THEN MaxPageSize ELSE IF n < 0 THEN 0 ELSE n)

\* What the client gives as startIndex: before the first row, whatever stands for
\* one.
Given == IF start = 1 THEN Firsts ELSE {start}

\* LIMIT and OFFSET. The client goes on after what it got until a page is empty,
\* or stops where totalResults says that there is no more. It may change the count
\* from page to page; if it asks for none, it knows that none says nothing.
Page ==
  /\ walk = "page"
  /\ \E s \in Orders(rows), c \in Counts, n \in Given :
       LET offset == StartIndex(n) - 1
           page   == SubSeq(s, offset + 1, Least(offset + Limit(c), Len(s)))
           last   == page = <<>> /\ Limit(c) > 0
       IN  /\ got' = got \o [i \in 1..Len(page) |-> page[i].id]
           /\ start' = start + Len(page)
           /\ \/ last /\ walk' = "done"
              \/ ~last /\ walk' = "count"
              \/ ~last /\ start' > total /\ walk' = "stopped"
  /\ UNCHANGED <<clock, open, rows, total, base>>

ListingNext ==
  \/ Tick \/ BeginCreate \/ CommitCreate \/ AbortCreate
  \/ BeginWalk \/ CountUsers \/ Page

ListingSpec == ListingInit /\ [][ListingNext]_listing
-----------------------------------------------------------------------------
(* Properties. *)

\* A user that was there when a client began its walk is in some page of it,
\* whatever is created meanwhile and wherever the new rows sort: rows only move
\* towards later pages. And if nothing was committed during the walk, it is the
\* whole table, once, in order, whatever page sizes the client asked for, none and
\* negative ones included, and however it names the first page. "paging
\* would otherwise skip or repeat rows" (user.go:212): this needs the tie-break
\* by id, since every page is a query of its own. The first part is about a
\* client that goes on to an empty page; one that stops at totalResults may miss
\* a user, since a row can land between the count and the SELECT (user.go:208).
NoneSkipped ==
  /\ walk = "done" => \A u \in base : \E n \in 1..Len(got) : got[n] = u.id
  /\ walk \in {"done", "stopped"} /\ rows = base =>
       \E s \in Orders(rows) : got = [n \in 1..Len(s) |-> s[n].id]
=============================================================================
