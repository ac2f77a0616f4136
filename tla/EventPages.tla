----------------------------- MODULE EventPages -----------------------------
(***************************************************************************)
(* The event log, read page by page: GET /events (api/events.py) returns   *)
(* the newest events first and, as the cursor of the next page, the id of  *)
(* the last event on this one, while further events are committed.  Events *)
(* are never changed or deleted (models/event.py).                         *)
(*                                                                         *)
(* Filters of the request are constant over the pages and left out.        *)
(***************************************************************************)
EXTENDS Naturals, Sequences, FiniteSets

CONSTANTS
    Limit,          \* the page size
    MaxRows,        \* bound: events
    MaxTime         \* bound: ticks of the database's clock

ASSUME PagesAssumption == Limit \in Nat \ {0} /\ MaxRows \in Nat /\ MaxTime \in Nat

VARIABLES
    rows,           \* the timestamp of each event, in the order of their commits
    now,            \* the clock
    cursor,         \* the cursor for the next page; 0 for the first page
    pages,          \* the pages read so far, each a set of events
    more,           \* has_more of the last page
    there           \* events committed when the first page was asked for

vars == <<rows, now, cursor, pages, more, there>>

Events == DOMAIN rows

Init ==
    /\ rows = <<>> /\ now = 0
    /\ cursor = 0 /\ pages = <<>> /\ more = TRUE /\ there = {}

-----------------------------------------------------------------------------
Tick ==
    /\ now < MaxTime
    /\ now' = now + 1
    /\ UNCHANGED <<rows, cursor, pages, more, there>>

\* The timestamp is the start of the inserting transaction, so events may be
\* committed after younger ones.
Insert(timestamp) ==
    /\ Len(rows) < MaxRows
    /\ rows' = Append(rows, timestamp)
    /\ UNCHANGED <<now, cursor, pages, more, there>>

\* Mutant: the cursor's own timestamp is included.
NotAfter(e, c) == c = 0 \/ rows[e] <= rows[c]

\* The WHERE clause: no cursor, or strictly older than the event it names.
Older(e, c) == c = 0 \/ rows[e] < rows[c]

\* LIMIT n after ORDER BY timestamp DESC: the order of equal timestamps is open.
Newest(n, candidates) ==
    {chosen \in SUBSET candidates :
        /\ Cardinality(chosen) <= n
        /\ candidates # chosen => Cardinality(chosen) = n
        /\ \A e \in chosen, f \in candidates \ chosen : rows[e] >= rows[f]}

IsOldest(e, set) == e \in set /\ \A f \in set : rows[f] >= rows[e]

\* Mutant: the row fetched beyond the page becomes the cursor.
NextCursorBeyond(page, fetched) == fetched \ page

\* next_cursor: the last event of the page.
NextCursor(page, fetched) == {e \in page : IsOldest(e, page)}

\* list_events: one row more than the page shows tells whether there are more.
ListEvents(fetched, page) ==
    /\ more
    /\ fetched \in Newest(Limit + 1, {e \in Events : Older(e, cursor)})
    /\ page \in Newest(Limit, fetched)
    /\ pages' = Append(pages, page)
    /\ \/ Cardinality(fetched) > Limit /\ more' = TRUE /\ cursor' \in NextCursor(page, fetched)
       \/ Cardinality(fetched) <= Limit /\ more' = FALSE /\ cursor' = 0
    /\ there' = IF pages = <<>> THEN Events ELSE there
    /\ UNCHANGED <<rows, now>>

\* The client starts over with the newest events.
StartOver ==
    /\ pages # <<>>
    /\ cursor' = 0 /\ pages' = <<>> /\ more' = TRUE /\ there' = {}
    /\ UNCHANGED <<rows, now>>

Next ==
    \/ Tick \/ StartOver
    \/ \E timestamp \in 0..now : Insert(timestamp)
    \/ \E fetched \in SUBSET Events : \E page \in SUBSET fetched : ListEvents(fetched, page)

Spec == Init /\ [][Next]_vars

-----------------------------------------------------------------------------
TypeOK ==
    /\ rows \in Seq(Nat)
    /\ now \in Nat
    /\ cursor \in {0} \union Events
    /\ pages \in Seq(SUBSET Events)
    /\ more \in BOOLEAN
    /\ there \subseteq Events

Read == UNION {pages[i] : i \in DOMAIN pages}

\* No event is on two pages, whatever is committed between the requests.
NoEventTwice ==
    \A i, j \in DOMAIN pages : i # j => pages[i] \cap pages[j] = {}

\* The client that has read to the last page has seen every event there was
\* when it began, but for events with the timestamp of the last one of a page
\* (events.py:55 compares timestamps alone).
OnlyTiesSkipped ==
    ~more => \A e \in there \ Read :
                \E i \in DOMAIN pages : \E f \in pages[i] : IsOldest(f, pages[i]) /\ rows[f] = rows[e]
=============================================================================
