-------------------------- MODULE EventPagesProofs --------------------------
(***************************************************************************)
(* Proofs about the pages of the event log, for every page size, number of *)
(* events and interleaving of commits: no event is on two pages, and only  *)
(* events tied with the last one of a page can be missed.                  *)
(***************************************************************************)
EXTENDS EventPages, FiniteSetTheorems, TLAPS

\* Everything read so far is at least as young as the cursor.
CursorIsOldest ==
    cursor # 0 => /\ more
                  /\ \A i \in DOMAIN pages : \A e \in pages[i] : rows[e] >= rows[cursor]

\* A traversal begins without a cursor, and goes on with one.
FirstPage ==
    /\ more /\ cursor = 0 => pages = <<>> /\ there = {}
    /\ pages = <<>> => cursor = 0

\* e has the timestamp of the last event of a page.
Tied(e) ==
    \E i \in DOMAIN pages : \E f \in pages[i] : IsOldest(f, pages[i]) /\ rows[f] = rows[e]

\* What is not read yet is older than the cursor, or tied.
UnreadIsOlder ==
    \A e \in there \ Read : Tied(e) \/ (more /\ Older(e, cursor))

\* The inductive invariant.
IInv == TypeOK /\ CursorIsOldest /\ FirstPage /\ NoEventTwice /\ UnreadIsOlder

-----------------------------------------------------------------------------
\* Adding an event changes no timestamp that is already there.
LEMMA InsertKeepsRows ==
    ASSUME TypeOK, NEW t \in 0..now, Insert(t)
    PROVE  /\ rows' \in Seq(Nat)
           /\ Events \subseteq Events'
           /\ \A e \in Events : rows'[e] = rows[e]
<1>1. t \in Nat
  BY DEF TypeOK
<1>2. QED
  BY <1>1 DEF Insert, TypeOK, Events

\* A page holds what was fetched if no more than a page was fetched, and
\* fetched is everything there is then.
LEMMA LastPageIsWhole ==
    ASSUME TypeOK, PagesAssumption,
           NEW fetched, NEW page,
           fetched \in Newest(Limit + 1, {e \in Events : Older(e, cursor)}),
           page \in Newest(Limit, fetched),
           Cardinality(fetched) <= Limit
    PROVE  page = {e \in Events : Older(e, cursor)}
<1> DEFINE All == {e \in Events : Older(e, cursor)}
<1>1. IsFiniteSet(Events)
  <2>1. Events = 1..Len(rows) /\ Len(rows) \in Nat
    BY DEF TypeOK, Events
  <2>2. QED
    BY <2>1, FS_Interval
<1>2. fetched \subseteq All /\ page \subseteq fetched
  BY DEF Newest
<1>3. IsFiniteSet(fetched)
  BY <1>1, <1>2, FS_Subset
<1>4. Cardinality(fetched) \in Nat /\ Limit \in Nat
  BY <1>3, FS_CardinalityType DEF PagesAssumption
<1>5. fetched = All
  <2>1. All # fetched => Cardinality(fetched) = Limit + 1
    BY DEF Newest
  <2>2. QED
    BY <2>1, <1>4
<1>6. page = fetched
  <2>1. SUFFICES ASSUME page # fetched PROVE FALSE
    OBVIOUS
  <2>2. Cardinality(page) = Limit
    BY <2>1 DEF Newest
  <2>3. Cardinality(page) <= Cardinality(fetched) /\ Cardinality(page) # Cardinality(fetched)
    BY <1>2, <1>3, <2>1, FS_Subset
  <2>4. QED
    BY <2>2, <2>3, <1>4
<1>7. QED
  BY <1>5, <1>6

\* What a page leaves out of what it is chosen from is no younger than any of it.
LEMMA PageIsNewest ==
    ASSUME TypeOK,
           NEW fetched, NEW page,
           fetched \in Newest(Limit + 1, {e \in Events : Older(e, cursor)}),
           page \in Newest(Limit, fetched)
    PROVE  /\ page \subseteq {e \in Events : Older(e, cursor)}
           /\ \A e \in Events \ page : Older(e, cursor) =>
                \A f \in page : rows[f] >= rows[e]
<1>1. fetched \subseteq {e \in Events : Older(e, cursor)} /\ page \subseteq fetched
  BY DEF Newest
<1>2. ASSUME NEW e \in Events \ page, Older(e, cursor), NEW f \in page
      PROVE  rows[f] >= rows[e]
  <2>1. CASE e \in fetched
    BY <1>2, <2>1 DEF Newest
  <2>2. CASE e \notin fetched
    BY <1>1, <1>2, <2>2 DEF Newest
  <2>3. QED
    BY <2>1, <2>2
<1>3. QED
  BY <1>1, <1>2

-----------------------------------------------------------------------------
LEMMA InitIInv == Init => IInv
  BY DEF Init, IInv, TypeOK, Events, CursorIsOldest, FirstPage, NoEventTwice, UnreadIsOlder, Read

LEMMA InsertIInv ==
    ASSUME IInv, NEW t \in 0..now, Insert(t)
    PROVE  IInv'
<1>1. /\ rows' \in Seq(Nat) /\ Events \subseteq Events'
      /\ \A e \in Events : rows'[e] = rows[e]
  BY InsertKeepsRows DEF IInv
<1>2. UNCHANGED <<now, cursor, pages, more, there>>
  BY DEF Insert
<1>3. TypeOK'
  BY <1>1, <1>2 DEF IInv, TypeOK
<1>4. \A i \in DOMAIN pages : pages[i] \subseteq Events
  BY DEF IInv, TypeOK
<1>5. CursorIsOldest'
  BY <1>1, <1>2, <1>4 DEF IInv, TypeOK, CursorIsOldest
<1>6. FirstPage' /\ NoEventTwice'
  BY <1>2 DEF IInv, FirstPage, NoEventTwice
<1>7. UnreadIsOlder'
  <2>1. SUFFICES ASSUME NEW e \in there \ Read
                 PROVE  (Tied(e) \/ (more /\ Older(e, cursor)))'
    BY <1>2 DEF UnreadIsOlder, Read
  <2>2. e \in Events
    BY DEF IInv, TypeOK
  <2>3. CASE Tied(e)
    <3>1. PICK i \in DOMAIN pages : \E f \in pages[i] : IsOldest(f, pages[i]) /\ rows[f] = rows[e]
      BY <2>3 DEF Tied
    <3>2. PICK f \in pages[i] : IsOldest(f, pages[i]) /\ rows[f] = rows[e]
      BY <3>1
    <3>3. IsOldest(f, pages[i])' /\ rows'[f] = rows'[e]
      BY <1>1, <1>2, <1>4, <2>2, <3>2 DEF IsOldest
    <3>4. QED
      BY <1>2, <3>3 DEF Tied
  <2>4. CASE more /\ Older(e, cursor)
    BY <1>1, <1>2, <2>2, <2>4 DEF Older, IInv, TypeOK
  <2>5. QED
    BY <2>3, <2>4 DEF IInv, UnreadIsOlder
<1>8. QED
  BY <1>3, <1>5, <1>6, <1>7 DEF IInv

LEMMA ListEventsIInv ==
    ASSUME PagesAssumption, IInv, NEW fetched, NEW page, ListEvents(fetched, page)
    PROVE  IInv'
<1> DEFINE n == Len(pages)
<1>1. /\ more /\ UNCHANGED <<rows, now>> /\ pages' = Append(pages, page)
      /\ fetched \in Newest(Limit + 1, {e \in Events : Older(e, cursor)})
      /\ page \in Newest(Limit, fetched)
      /\ there' = IF pages = <<>> THEN Events ELSE there
  BY DEF ListEvents
<1>2. /\ page \subseteq {e \in Events : Older(e, cursor)}
      /\ \A e \in Events \ page : Older(e, cursor) => \A f \in page : rows[f] >= rows[e]
  BY <1>1, PageIsNewest DEF IInv
<1>3. /\ pages \in Seq(SUBSET Events) /\ n \in Nat
      /\ DOMAIN pages = 1..n /\ DOMAIN pages' = 1..(n + 1)
      /\ pages'[n + 1] = page /\ \A i \in 1..n : pages'[i] = pages[i]
  BY <1>1, <1>2 DEF IInv, TypeOK
<1>4. /\ rows \in Seq(Nat) /\ cursor \in {0} \union Events
      /\ \A e \in Events : rows[e] \in Nat /\ e # 0
  BY DEF IInv, TypeOK, Events
<1>5. \/ more' = TRUE /\ cursor' \in NextCursor(page, fetched)
      \/ Cardinality(fetched) <= Limit /\ more' = FALSE /\ cursor' = 0
  BY DEF ListEvents
<1>6. TypeOK'
  <2>1. pages' \in Seq(SUBSET Events)
    BY <1>1, <1>2, <1>3
  <2>2. cursor' \in {0} \union Events /\ more' \in BOOLEAN
    BY <1>2, <1>5 DEF NextCursor
  <2>3. there' \subseteq Events
    BY <1>1 DEF IInv, TypeOK
  <2>4. QED
    BY <1>1, <2>1, <2>2, <2>3 DEF IInv, TypeOK, Events
\* Earlier pages are at least as young as the old cursor, this one is older.
<1>7. \A i \in 1..n : \A e \in pages[i], f \in page : rows[e] > rows[f]
  <2>1. SUFFICES ASSUME NEW i \in 1..n, NEW e \in pages[i], NEW f \in page
                 PROVE  rows[e] > rows[f]
    OBVIOUS
  <2>2. cursor # 0
    BY <1>1, <1>3 DEF IInv, FirstPage
  <2>3. rows[e] >= rows[cursor] /\ rows[f] < rows[cursor]
    BY <1>2, <1>3, <2>2 DEF IInv, CursorIsOldest, Older
  <2>4. e \in Events /\ f \in Events /\ cursor \in Events
    BY <1>2, <1>3, <1>4, <2>2
  <2>5. QED
    BY <1>4, <2>3, <2>4
<1>8. CursorIsOldest'
  <2>1. CASE more' = TRUE /\ cursor' \in NextCursor(page, fetched)
    <3>1. cursor' \in page /\ \A f \in page : rows[f] >= rows[cursor']
      BY <2>1 DEF NextCursor, IsOldest
    <3>2. ASSUME NEW i \in 1..n, NEW e \in pages[i] PROVE rows[e] >= rows[cursor']
      <4>1. rows[e] > rows[cursor'] /\ e \in Events /\ cursor' \in Events
        BY <1>2, <1>3, <1>7, <3>1
      <4>2. QED
        BY <1>4, <4>1
    <3>3. QED
      BY <1>1, <1>3, <2>1, <3>1, <3>2 DEF CursorIsOldest
  <2>2. CASE cursor' = 0
    BY <2>2 DEF CursorIsOldest
  <2>3. QED
    BY <1>5, <2>1, <2>2
<1>9. FirstPage'
  BY <1>2, <1>3, <1>4, <1>5 DEF FirstPage, NextCursor
<1>10. NoEventTwice'
  <2>1. SUFFICES ASSUME NEW i \in 1..(n + 1), NEW j \in 1..(n + 1), i # j, NEW e,
                        e \in pages'[i] \cap pages'[j]
                 PROVE  FALSE
    BY <1>3 DEF NoEventTwice
  <2>2. CASE i \in 1..n /\ j \in 1..n
    BY <1>3, <2>1, <2>2 DEF IInv, NoEventTwice
  <2>3. CASE i \in 1..n /\ j = n + 1
    BY <1>2, <1>3, <1>4, <1>7, <2>1, <2>3
  <2>4. CASE i = n + 1 /\ j \in 1..n
    BY <1>2, <1>3, <1>4, <1>7, <2>1, <2>4
  <2>5. QED
    BY <1>3, <2>1, <2>2, <2>3, <2>4
<1>11. UnreadIsOlder'
  <2>1. SUFFICES ASSUME NEW e \in there', e \notin Read'
                 PROVE  Tied(e)' \/ (more' /\ Older(e, cursor)')
    BY DEF UnreadIsOlder
  <2>2. e \in Events
    BY <1>1 DEF IInv, TypeOK
  <2>3. e \notin page /\ e \notin Read
    BY <1>3, <2>1 DEF Read
  <2>4. Tied(e) \/ Older(e, cursor)
    <3>1. CASE pages = <<>>
      <4>1. cursor = 0
        BY <3>1 DEF IInv, FirstPage
      <4>2. QED
        BY <4>1 DEF Older
    <3>2. CASE pages # <<>>
      BY <1>1, <2>1, <2>3, <3>2 DEF IInv, UnreadIsOlder
    <3>3. QED
      BY <3>1, <3>2
  <2>5. CASE Tied(e)
    <3>1. PICK i \in DOMAIN pages : \E f \in pages[i] : IsOldest(f, pages[i]) /\ rows[f] = rows[e]
      BY <2>5 DEF Tied
    <3>2. i \in DOMAIN pages' /\ pages'[i] = pages[i]
      BY <1>3
    <3>3. QED
      BY <1>1, <3>1, <3>2 DEF Tied, IsOldest
  <2>6. CASE Older(e, cursor) /\ more' = TRUE /\ cursor' \in NextCursor(page, fetched)
    <3>1. PICK c \in page : c = cursor' /\ IsOldest(c, page)
      BY <2>6 DEF NextCursor
    <3>2. rows[c] >= rows[e]
      BY <1>2, <2>2, <2>3, <2>6
    <3>3. CASE rows[c] = rows[e]
      <4>1. n + 1 \in DOMAIN pages' /\ c \in pages'[n + 1] /\ rows'[c] = rows'[e]
        BY <1>1, <1>3, <3>3
      <4>2. \A f \in pages'[n + 1] : rows'[f] >= rows'[c]
        BY <1>1, <1>3, <3>1 DEF IsOldest
      <4>3. QED
        BY <4>1, <4>2 DEF Tied, IsOldest
    <3>4. CASE rows[c] # rows[e]
      <4>1. rows[e] < rows[c]
        BY <1>2, <1>4, <2>2, <3>2, <3>4
      <4>2. QED
        BY <1>1, <2>6, <3>1, <4>1 DEF Older
    <3>5. QED
      BY <3>3, <3>4
  <2>7. CASE Older(e, cursor) /\ Cardinality(fetched) <= Limit
    BY <1>1, <2>2, <2>3, <2>7, LastPageIsWhole DEF IInv
  <2>8. QED
    BY <1>5, <2>4, <2>5, <2>6, <2>7
<1>12. QED
  BY <1>6, <1>8, <1>9, <1>10, <1>11 DEF IInv

\* Every step preserves the invariant.
LEMMA NextIInv == PagesAssumption /\ IInv /\ [Next]_vars => IInv'
<1> SUFFICES ASSUME PagesAssumption, IInv, [Next]_vars PROVE IInv'
  OBVIOUS
<1> USE DEF IInv
<1>1. CASE Tick
  BY <1>1 DEF Tick, TypeOK, Events, CursorIsOldest, FirstPage, NoEventTwice, UnreadIsOlder, Read,
              Tied, IsOldest, Older
<1>2. CASE StartOver
  BY <1>2 DEF StartOver, TypeOK, Events, CursorIsOldest, FirstPage, NoEventTwice, UnreadIsOlder, Read
<1>3. CASE \E t \in 0..now : Insert(t)
  BY <1>3, InsertIInv
<1>4. CASE \E fetched \in SUBSET Events : \E page \in SUBSET fetched : ListEvents(fetched, page)
  BY <1>4, ListEventsIInv
<1>5. CASE UNCHANGED vars
  BY <1>5 DEF vars, TypeOK, Events, CursorIsOldest, FirstPage, NoEventTwice, UnreadIsOlder, Read,
              Tied, IsOldest, Older
<1>6. QED
  BY <1>1, <1>2, <1>3, <1>4, <1>5 DEF Next

\* The inductive invariant holds throughout: what a client has not read is
\* older than its cursor, or tied with the last event of a page.
THEOREM IInvInvariant == Spec => []IInv
<1>1. Init => IInv
  BY InitIInv
<1>2. IInv /\ [Next]_vars => IInv'
  BY NextIInv, PagesAssumption
<1>3. QED
  BY <1>1, <1>2, PTL DEF Spec

\* Type correctness of the paged log.
THEOREM TypeCorrect == Spec => []TypeOK
  BY IInvInvariant, PTL DEF IInv

\* No event is shown twice while paging, whatever is committed meanwhile.
THEOREM PagesAreDisjoint == Spec => []NoEventTwice
  BY IInvInvariant, PTL DEF IInv

\* Paging to the end misses only events tied with the last one of a page.
THEOREM NothingElseSkipped == Spec => []OnlyTiesSkipped
<1>1. IInv => OnlyTiesSkipped
  BY DEF IInv, UnreadIsOlder, Tied, OnlyTiesSkipped
<1>2. QED
  BY <1>1, IInvInvariant, PTL
=============================================================================
