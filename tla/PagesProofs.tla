---------------------------- MODULE PagesProofs ----------------------------
(***************************************************************************)
(* Machine-checked proofs about Pages, for any rows, keys, limits, batches *)
(* and writes, and any lists of live items that the feeds send.            *)
(***************************************************************************)
EXTENDS Pages, FiniteSetTheorems, TLAPS

-----------------------------------------------------------------------------
(* The inductive invariant *)

\* The place of an entry ends in what the cursor names of the row
Tied(e) == e.place[2] = IF query.route = "artist_tracks" THEN TrackGuid[e.row] ELSE e.row

\* The entries of a request and of the pages so far
EntriesAreTied ==
    /\ \A i \in DOMAIN given : Tied(given[i])
    /\ \A i \in DOMAIN walk.kept : Tied(walk.kept[i])
    /\ \A i \in DOMAIN walk.todo : Tied(walk.todo[i])

\* p is at or before q
Upto(p, q) == p = q \/ Precedes(p, q)

\* A sequence in strict order
Rising(s) == \A i, j \in DOMAIN s : i < j => Precedes(s[i].place, s[j].place)

\* The rows given so far are not after the cursor
GivenIsBehind ==
    walk.step # "done" =>
        /\ walk.at = None => given = <<>>
        /\ walk.at # None => \A i \in DOMAIN given : Upto(given[i].place, walk.at)

\* Each route is at one of its own steps, and keeps what its steps gather
StepsOfRoute ==
    /\ walk.step = "rows" => query.route \in Named
    /\ walk.step = "tracks" => query.route = "search"
    /\ walk.step = "records" => query.route = "copies"
    /\ walk.step \in {"request", "rows"} /\ query.route # "filtered" => walk.kept = <<>>
    /\ query.route # "filtered" => walk.todo = <<>> /\ ~walk.end

\* A search keeps hits that stand after the cursor, one more than a page at most
KeptHits ==
    walk.step = "tracks" =>
        /\ Rising(walk.kept)
        /\ \A i \in DOMAIN walk.kept : After(walk.kept[i].place, walk.at)

\* Each GUID with copies is summed up once
RecordsAreOnce ==
    walk.step = "records" => Len(walk.kept) + Cardinality(walk.only) <= Cardinality(Rows)

\* A filtered request has examined what is up to its position, in order: the rows
\* kept come after the rows given, the rows to examine after the position
ScanIsOrdered ==
    query.route = "filtered" /\ walk.step # "done" =>
        /\ Rising(walk.kept) /\ Rising(walk.todo)
        /\ Len(walk.kept) <= query.limit
        /\ \A i \in DOMAIN given, j \in DOMAIN walk.kept :
             Precedes(given[i].place, walk.kept[j].place)
        /\ walk.kept # <<>> => walk.at # None
        /\ \A i \in DOMAIN walk.kept : Upto(walk.kept[i].place, walk.at)
        /\ \A i \in DOMAIN walk.todo : After(walk.todo[i].place, walk.at)

\* A stable row is there, matches, and has its place for itself
StableRows ==
    \A x \in stable : x \in Rows /\ Matches(table, now, x) /\ Alone(table, x)

Found(x) == \E i \in DOMAIN given : given[i].row = x
InKept(x) == \E i \in DOMAIN walk.kept : walk.kept[i] = Entry(x)
InTodo(x) == \E i \in DOMAIN walk.todo : walk.todo[i] = Entry(x)
Ahead(x) == After(Place(table, x), walk.at)

\* The hits of a search are a full page and one more, all before x
Crowded(x) ==
    /\ Len(walk.kept) = query.limit + 1
    /\ \A i \in DOMAIN walk.kept : Precedes(walk.kept[i].place, Place(table, x))

\* A stable row that was not given is still to come: it stands after the cursor,
\* and what the request has read so far has it or leaves it for the next page
StillDue(x) ==
    IF query.route = "filtered"
    THEN \/ InKept(x) \/ InTodo(x)
         \/ /\ Ahead(x) /\ ~walk.end
            /\ \A i \in DOMAIN walk.todo : Precedes(walk.todo[i].place, Place(table, x))
    ELSE /\ Ahead(x)
         /\ walk.step = "rows" => x \in walk.only
         /\ walk.step = "records" => x \in walk.only \/ InKept(x)
         /\ walk.step = "tracks" /\ x \in FeedHits => InKept(x) \/ Crowded(x)

NothingLost ==
    \A x \in stable : Found(x) \/ (walk.step # "done" /\ StillDue(x))

\* No row of the live list is one that the selection bans
LiveRowsAllowed ==
    query.route = "live" => \A x \in Rows : table[x] # None => ~IsBanned(table[x])

PagesIInv ==
    /\ TypeOK /\ EntriesAreTied /\ PagesGoForward /\ GivenIsBehind /\ StepsOfRoute
    /\ KeptHits /\ RecordsAreOnce /\ ScanIsOrdered /\ StableRows /\ NothingLost
    /\ LiveRowsAllowed

-----------------------------------------------------------------------------
(* The order of a route *)

\* Two numbers, the first of which may be missing on the route by date
LEMMA PlaceParts ==
    ASSUME NEW p \in Places
    PROVE  /\ p = <<p[1], p[2]>> /\ p[2] \in Nat /\ p[1] \in Nat \cup {None}
           /\ query.route # "by_date" => p[1] \in Nat
BY DEF Places

\* No place precedes itself
LEMMA Irreflexive ==
    ASSUME NEW p \in Places
    PROVE  ~Precedes(p, p)
<1>1. CASE query.route = "by_date"
  BY <1>1, PlaceParts, NoneAssumption DEF Precedes, NewerDate, Ascending
<1>2. CASE query.route # "by_date"
  BY <1>2, PlaceParts DEF Precedes, Less
<1> QED BY <1>1, <1>2

\* What precedes a place that precedes a third precedes the third
LEMMA Transitive ==
    ASSUME NEW p \in Places, NEW q \in Places, NEW r \in Places,
           Precedes(p, q), Precedes(q, r)
    PROVE  Precedes(p, r)
<1>1. CASE query.route = "by_date"
  <2>1. NewerDate(p, q) /\ NewerDate(q, r)
    BY <1>1 DEF Precedes, Ascending
  <2>2. NewerDate(p, r)
    BY <2>1, PlaceParts, NoneAssumption DEF NewerDate
  <2> QED BY <1>1, <2>2 DEF Precedes, Ascending
<1>2. CASE query.route \in Ascending
  <2>1. Less(p, q) /\ Less(q, r) /\ query.route # "by_date"
    BY <1>2 DEF Precedes, Ascending
  <2>2. Less(p, r)
    BY <2>1, PlaceParts DEF Less
  <2> QED BY <1>2, <2>2 DEF Precedes, Ascending
<1>3. CASE query.route # "by_date" /\ query.route \notin Ascending
  <2>1. Less(q, p) /\ Less(r, q)
    BY <1>3 DEF Precedes
  <2>2. Less(r, p)
    BY <1>3, <2>1, PlaceParts DEF Less
  <2> QED BY <1>3, <2>2 DEF Precedes
<1> QED BY <1>1, <1>2, <1>3

\* Of two places one precedes the other
LEMMA Total ==
    ASSUME NEW p \in Places, NEW q \in Places
    PROVE  p = q \/ Precedes(p, q) \/ Precedes(q, p)
<1>1. CASE query.route = "by_date"
  <2>1. p = q \/ NewerDate(p, q) \/ NewerDate(q, p)
    BY PlaceParts, NoneAssumption DEF NewerDate
  <2> QED BY <1>1, <2>1 DEF Precedes, Ascending
<1>2. CASE query.route # "by_date"
  <2>1. p = q \/ Less(p, q) \/ Less(q, p)
    BY <1>2, PlaceParts DEF Less
  <2> QED BY <1>2, <2>1 DEF Precedes
<1> QED BY <1>1, <1>2

\* The rows that a cursor lets through are those that its place precedes: the
\* WHERE clause by date, too, agrees with the order of the statement
LEMMA FollowsParts ==
    ASSUME NEW p \in Places, NEW c \in Places
    PROVE  Follows(p, c) <=> Precedes(c, p)
<1>1. CASE query.route = "by_date"
  <2>1. AfterDate(p, c) <=> NewerDate(c, p)
    BY PlaceParts, NoneAssumption DEF AfterDate, NewerDate
  <2> QED BY <1>1, <2>1 DEF Follows, Precedes, Ascending
<1>2. CASE query.route # "by_date"
  BY <1>2 DEF Follows
<1> QED BY <1>1, <1>2

\* No place is the missing cursor
LEMMA PlaceIsGiven ==
    ASSUME NEW p \in Places
    PROVE  p # None
<1>1. p \in (Nat \cup {None}) \X Nat
  BY DEF Places
<1> QED BY <1>1, NoneAssumption

\* What comes after a place after the cursor comes after the cursor
LEMMA AfterParts ==
    ASSUME NEW p \in Places, NEW c \in Places
    PROVE  After(p, c) <=> Precedes(c, p)
BY PlaceIsGiven, FollowsParts DEF After

\* At or before, and then before
LEMMA UptoParts ==
    ASSUME NEW p \in Places, NEW q \in Places
    PROVE  /\ \A r \in Places : Upto(p, q) /\ Precedes(q, r) => Precedes(p, r)
           /\ \A r \in Places : Precedes(p, q) /\ Upto(q, r) => Precedes(p, r)
           /\ Upto(p, q) <=> ~Precedes(q, p)
<1>1. \A r \in Places : Upto(p, q) /\ Precedes(q, r) => Precedes(p, r)
  BY Transitive DEF Upto
<1>2. \A r \in Places : Precedes(p, q) /\ Upto(q, r) => Precedes(p, r)
  BY Transitive DEF Upto
<1>3. Upto(p, q) => ~Precedes(q, p)
  BY Transitive, Irreflexive DEF Upto
<1>4. ~Precedes(q, p) => Upto(p, q)
  BY Total DEF Upto
<1> QED BY <1>1, <1>2, <1>3, <1>4

-----------------------------------------------------------------------------
(* Sequences of entries *)

\* A page goes forward: no entry comes twice, none after one that it precedes
Forward(s) ==
    \A i, j \in DOMAIN s : i < j => s[i] # s[j] /\ ~Precedes(s[j].place, s[i].place)

\* An order of finitely many entries holds each of them once
LEMMA OrdersParts ==
    ASSUME NEW es, IsFiniteSet(es), NEW s \in Orders(es)
    PROVE  /\ s \in Seq(es) /\ Len(s) = Cardinality(es) /\ Len(s) \in Nat
           /\ \A e \in es : \E i \in 1..Len(s) : s[i] = e
           /\ \A i, j \in 1..Len(s) : s[i] = s[j] => i = j
           /\ \A i, j \in 1..Len(s) : i < j => ~Precedes(s[j].place, s[i].place)
<1> DEFINE N == Cardinality(es)
<1>1. N \in Nat
  BY FS_CardinalityType
<1>2. s \in Bijection(1..N, es) /\ \A i, j \in DOMAIN s : i < j => ~Precedes(s[j].place, s[i].place)
  BY DEF Orders
<1>3. /\ s \in [1..N -> es] /\ \A x \in es : \E i \in 1..N : s[i] = x
      /\ \A i, j \in 1..N : s[i] = s[j] => i = j
  BY <1>2 DEF Bijection, Surjection, Injection, IsInjective
<1> HIDE DEF N
<1>4. s \in Seq(es) /\ Len(s) = N
  BY <1>1, <1>3
<1> QED BY <1>1, <1>2, <1>3, <1>4 DEF N

\* The first entries of a sequence
LEMMA FirstParts ==
    ASSUME NEW S, NEW s \in Seq(S), NEW n \in Nat
    PROVE  /\ First(s, n) \in Seq(S) /\ Len(First(s, n)) \in Nat
           /\ Len(First(s, n)) = IF Len(s) < n THEN Len(s) ELSE n
           /\ DOMAIN First(s, n) = 1..Len(First(s, n))
           /\ \A i \in 1..Len(First(s, n)) : First(s, n)[i] = s[i] /\ i \in 1..Len(s)
<1> DEFINE m == IF Len(s) < n THEN Len(s) ELSE n
<1>1. m \in Nat /\ m <= Len(s) /\ Len(s) \in Nat
  OBVIOUS
<1>2. First(s, n) = SubSeq(s, 1, m)
  BY DEF First
<1> HIDE DEF m
<1>3. SubSeq(s, 1, m) \in Seq(S) /\ Len(SubSeq(s, 1, m)) = m
  BY <1>1
<1>4. \A i \in 1..m : SubSeq(s, 1, m)[i] = s[i] /\ i \in 1..Len(s)
  BY <1>1
<1> QED BY <1>1, <1>2, <1>3, <1>4 DEF m

\* Except for the tracks of an artist, a place belongs to one row
LEMMA PlaceNamesRow ==
    ASSUME query.route # "artist_tracks", NEW e \in Entries, NEW f \in Entries,
           Tied(e), Tied(f), e.place = f.place
    PROVE  e = f
<1>1. e.row = f.row
  BY DEF Tied
<1> QED BY <1>1 DEF Entries

\* There an order is strict
LEMMA OrderRises ==
    ASSUME query.route # "artist_tracks", NEW es \in SUBSET Entries, IsFiniteSet(es),
           \A e \in es : Tied(e), NEW s \in Orders(es)
    PROVE  Rising(s)
<1>0. s \in Seq(es) /\ DOMAIN s = 1..Len(s)
  BY OrdersParts
<1> SUFFICES ASSUME NEW i \in 1..Len(s), NEW j \in 1..Len(s), i < j
             PROVE  Precedes(s[i].place, s[j].place)
  BY <1>0 DEF Rising
<1>1. s[i] \in es /\ s[j] \in es
  BY <1>0
<1>2. s[i] # s[j] /\ ~Precedes(s[j].place, s[i].place)
  <2>1. Len(s) \in Nat /\ i # j
    BY OrdersParts
  <2> QED BY <2>1, OrdersParts
<1>3. s[i].place # s[j].place
  BY <1>1, <1>2, PlaceNamesRow
<1>4. s[i].place \in Places /\ s[j].place \in Places
  BY <1>1 DEF Entries
<1> QED BY <1>2, <1>3, <1>4, Total

\* The beginning of what rises rises
LEMMA FirstRises ==
    ASSUME NEW s \in Seq(Entries), NEW n \in Nat, Rising(s)
    PROVE  Rising(First(s, n))
BY FirstParts DEF Rising

\* A page after what was given goes forward with it
LEMMA ForwardAppend ==
    ASSUME NEW s \in Seq(Entries), NEW t \in Seq(Entries), Forward(s), Forward(t),
           \A i \in DOMAIN s, j \in DOMAIN t : Precedes(s[i].place, t[j].place)
    PROVE  Forward(s \o t)
<1>0. /\ Len(s) \in Nat /\ Len(t) \in Nat /\ DOMAIN s = 1..Len(s) /\ DOMAIN t = 1..Len(t)
      /\ s \o t \in Seq(Entries) /\ DOMAIN (s \o t) = 1..(Len(s) + Len(t))
  OBVIOUS
<1> SUFFICES ASSUME NEW i \in 1..(Len(s) + Len(t)), NEW j \in 1..(Len(s) + Len(t)), i < j
             PROVE  (s \o t)[i] # (s \o t)[j] /\ ~Precedes((s \o t)[j].place, (s \o t)[i].place)
  BY <1>0 DEF Forward
<1>1. CASE j <= Len(s)
  <2>1. (s \o t)[i] = s[i] /\ (s \o t)[j] = s[j] /\ i \in DOMAIN s /\ j \in DOMAIN s
    BY <1>0, <1>1
  <2> QED BY <2>1 DEF Forward
<1>2. CASE i > Len(s)
  <2> DEFINE k == i - Len(s)  l == j - Len(s)
  <2>1. (s \o t)[i] = t[k] /\ (s \o t)[j] = t[l] /\ k \in DOMAIN t /\ l \in DOMAIN t /\ k < l
    BY <1>0, <1>2
  <2> HIDE DEF k, l
  <2> QED BY <2>1 DEF Forward
<1>3. CASE i <= Len(s) /\ j > Len(s)
  <2> DEFINE l == j - Len(s)
  <2>1. (s \o t)[i] = s[i] /\ (s \o t)[j] = t[l] /\ i \in DOMAIN s /\ l \in DOMAIN t
    BY <1>0, <1>3
  <2> HIDE DEF l
  <2>2. s[i] \in Entries /\ t[l] \in Entries
    BY <1>0, <2>1
  <2>3. s[i].place \in Places /\ t[l].place \in Places
    BY <2>2 DEF Entries
  <2>4. Precedes(s[i].place, t[l].place)
    BY <2>1
  <2>5. s[i].place # t[l].place /\ ~Precedes(t[l].place, s[i].place)
    BY <2>3, <2>4, Irreflexive, Transitive
  <2> QED BY <2>1, <2>5
<1> QED BY <1>0, <1>1, <1>2, <1>3

\* What rises goes forward
LEMMA RisingForward ==
    ASSUME NEW s \in Seq(Entries), Rising(s)
    PROVE  Forward(s)
<1> SUFFICES ASSUME NEW i \in DOMAIN s, NEW j \in DOMAIN s, i < j
             PROVE  s[i] # s[j] /\ ~Precedes(s[j].place, s[i].place)
  BY DEF Forward
<1>1. s[i] \in Entries /\ s[j] \in Entries
  OBVIOUS
<1>2. s[i].place \in Places /\ s[j].place \in Places
  BY <1>1 DEF Entries
<1>3. Precedes(s[i].place, s[j].place)
  BY DEF Rising
<1> QED BY <1>2, <1>3, Irreflexive, Transitive

-----------------------------------------------------------------------------
(* A page *)

\* The place that a page with more rows ends at
EndOf(rows) == First(rows, query.limit)[Len(First(rows, query.limit))].place

\* A page is the first entries in order; with more of them, the others stand at or
\* after the place where it ends
LEMMA PageParts ==
    ASSUME query.limit \in Nat \ {0}, NEW es \in SUBSET Entries, IsFiniteSet(es),
           NEW rows \in Orders(es), NEW page, page = First(rows, query.limit)
    PROVE  /\ page \in Seq(Entries) /\ Forward(page) /\ DOMAIN page = 1..Len(page)
           /\ \A i \in DOMAIN page : page[i] \in es
           /\ Len(rows) <= query.limit => \A e \in es : \E i \in DOMAIN page : page[i] = e
           /\ Len(rows) > query.limit =>
                /\ page # <<>> /\ EndOf(rows) \in Places /\ \E e \in es : e.place = EndOf(rows)
                /\ \A i \in DOMAIN page : Upto(page[i].place, EndOf(rows))
                /\ \A e \in es : (\E i \in DOMAIN page : page[i] = e) \/ Upto(EndOf(rows), e.place)
<1> DEFINE n == query.limit
<1>1. /\ rows \in Seq(es) /\ Len(rows) \in Nat /\ n \in Nat \ {0}
      /\ \A e \in es : \E i \in 1..Len(rows) : rows[i] = e
      /\ \A i, j \in 1..Len(rows) : rows[i] = rows[j] => i = j
      /\ \A i, j \in 1..Len(rows) : i < j => ~Precedes(rows[j].place, rows[i].place)
  BY OrdersParts
<1> HIDE DEF n
<1>2. /\ page \in Seq(es) /\ Len(page) = (IF Len(rows) < n THEN Len(rows) ELSE n)
      /\ DOMAIN page = 1..Len(page)
      /\ \A i \in 1..Len(page) : page[i] = rows[i] /\ i \in 1..Len(rows)
  <2>1. page = First(rows, n)
    BY DEF n
  <2>2. rows \in Seq(es) /\ n \in Nat
    BY <1>1
  <2>3. /\ First(rows, n) \in Seq(es) /\ DOMAIN First(rows, n) = 1..Len(First(rows, n))
        /\ Len(First(rows, n)) = IF Len(rows) < n THEN Len(rows) ELSE n
        /\ \A i \in 1..Len(First(rows, n)) : First(rows, n)[i] = rows[i] /\ i \in 1..Len(rows)
    BY <2>2, FirstParts
  <2> QED BY <2>1, <2>3
<1>3. page \in Seq(Entries) /\ \A i \in DOMAIN page : page[i] \in es
  BY <1>2
<1>4. Forward(page)
  <2> SUFFICES ASSUME NEW i \in DOMAIN page, NEW j \in DOMAIN page, i < j
               PROVE  page[i] # page[j] /\ ~Precedes(page[j].place, page[i].place)
    BY DEF Forward
  <2>1. page[i] = rows[i] /\ page[j] = rows[j] /\ i \in 1..Len(rows) /\ j \in 1..Len(rows) /\ i # j
    <3>1. i \in 1..Len(page) /\ j \in 1..Len(page)
      BY <1>2
    <3>2. i \in 1..Len(rows) /\ j \in 1..Len(rows) /\ page[i] = rows[i] /\ page[j] = rows[j]
      BY <1>2, <3>1
    <3> QED BY <1>1, <3>2
  <2> QED BY <1>1, <2>1
<1>5. ASSUME Len(rows) <= n, NEW e \in es PROVE \E i \in DOMAIN page : page[i] = e
  <2>1. PICK i \in 1..Len(rows) : rows[i] = e
    BY <1>1
  <2>2. i \in 1..Len(page)
    BY <1>1, <1>2, <1>5, <2>1
  <2> QED BY <1>2, <2>1, <2>2
<1>6. ASSUME Len(rows) > n
      PROVE  /\ page # <<>> /\ EndOf(rows) \in Places /\ \E e \in es : e.place = EndOf(rows)
             /\ \A i \in DOMAIN page : Upto(page[i].place, EndOf(rows))
             /\ \A e \in es : (\E i \in DOMAIN page : page[i] = e) \/ Upto(EndOf(rows), e.place)
  <2>1. Len(page) = n /\ n \in 1..Len(rows) /\ n \in 1..Len(page) /\ page # <<>>
    BY <1>1, <1>2, <1>6
  <2>2. EndOf(rows) = rows[n].place
    BY <1>2, <2>1 DEF EndOf, n
  <2>3. \A i \in 1..Len(rows) : rows[i] \in es /\ rows[i].place \in Places
    BY <1>1 DEF Entries
  <2>4. ASSUME NEW i \in DOMAIN page PROVE Upto(page[i].place, rows[n].place)
    <3>0. i \in 1..n /\ i \in 1..Len(page)
      BY <1>2, <2>1
    <3>1. i \in 1..Len(rows) /\ page[i] = rows[i]
      BY <1>2, <3>0
    <3>2. CASE i = n
      BY <3>1, <3>2 DEF Upto
    <3>3. CASE i < n
      <4>1. ~Precedes(rows[n].place, rows[i].place)
        BY <1>1, <2>1, <3>1, <3>3
      <4>2. rows[i].place \in Places /\ rows[n].place \in Places
        BY <2>1, <2>3, <3>1
      <4> QED BY <3>1, <4>1, <4>2, UptoParts
    <3> QED BY <1>1, <3>0, <3>2, <3>3
  <2>5. ASSUME NEW e \in es
        PROVE  (\E i \in DOMAIN page : page[i] = e) \/ Upto(rows[n].place, e.place)
    <3>1. PICK i \in 1..Len(rows) : rows[i] = e
      BY <1>1
    <3>2. CASE i <= n
      <4>1. i \in DOMAIN page
        BY <1>1, <1>2, <2>1, <3>1, <3>2
      <4> QED BY <1>2, <3>1, <4>1
    <3>3. CASE i > n
      BY <1>1, <2>1, <2>3, <3>1, <3>3, UptoParts
    <3> QED BY <1>1, <3>1, <3>2, <3>3
  <2> QED BY <2>1, <2>2, <2>3, <2>4, <2>5
<1> QED BY <1>2, <1>3, <1>4, <1>5, <1>6 DEF n

\* When more entries than a page holds stand before p, the page ends before p
LEMMA CrowdParts ==
    ASSUME query.limit \in Nat \ {0}, NEW es \in SUBSET Entries, IsFiniteSet(es),
           NEW rows \in Orders(es), NEW p \in Places,
           NEW K \in SUBSET es, Cardinality(K) > query.limit, \A k \in K : Precedes(k.place, p)
    PROVE  Len(rows) > query.limit /\ Precedes(EndOf(rows), p)
<1> DEFINE n == query.limit
<1>1. /\ rows \in Seq(es) /\ Len(rows) \in Nat /\ n \in Nat \ {0} /\ Len(rows) = Cardinality(es)
      /\ \A e \in es : \E i \in 1..Len(rows) : rows[i] = e
      /\ \A i, j \in 1..Len(rows) : i < j => ~Precedes(rows[j].place, rows[i].place)
  BY OrdersParts
<1>2. IsFiniteSet(K) /\ Cardinality(K) <= Cardinality(es) /\ Cardinality(K) \in Nat
  BY FS_Subset, FS_CardinalityType
<1>3. Len(rows) > n
  BY <1>1, <1>2
<1>4. \E k \in K : \A i \in 1..n : rows[i] # k
  <2> SUFFICES ASSUME \A k \in K : \E i \in 1..n : rows[i] = k PROVE FALSE
    OBVIOUS
  <2> DEFINE I == {rows[i] : i \in 1..n}
             f == [i \in 1..n |-> rows[i]]
  <2>1. f \in Surjection(1..n, I)
    BY DEF Surjection
  <2> HIDE DEF f
  <2>2. IsFiniteSet(I) /\ Cardinality(I) <= n
    <3>0. n \in Nat /\ 1 \in Int /\ n \in Int
      BY <1>1
    <3> HIDE DEF I, n
    <3>1. ExistsSurjection(1..n, I)
      BY <2>1 DEF ExistsSurjection
    <3>2. IsFiniteSet(1..n)
      BY <3>0, FS_Interval
    <3>3. IsFiniteSet(I)
      BY <2>1, <3>2, FS_Surjection
    <3>4. Cardinality(I) <= n
      BY <3>0, <3>1, FS_SurjCardinalityBound
    <3> QED BY <3>3, <3>4
  <2>3. K \subseteq I
    OBVIOUS
  <2> HIDE DEF I
  <2>4. Cardinality(K) <= Cardinality(I) /\ Cardinality(I) \in Nat
    BY <2>2, <2>3, FS_Subset, FS_CardinalityType
  <2> QED BY <1>1, <1>2, <2>2, <2>4
<1> HIDE DEF n
<1>5. PICK k \in K : \A i \in 1..n : rows[i] # k
  BY <1>4
<1>6. PICK j \in 1..Len(rows) : rows[j] = k
  BY <1>1
<1>7. j > n /\ n \in 1..Len(rows)
  BY <1>1, <1>3, <1>5, <1>6
<1>8. ~Precedes(k.place, rows[n].place)
  BY <1>1, <1>6, <1>7
<1>9. k.place \in Places /\ rows[n].place \in Places
  <2>1. k \in es /\ rows[n] \in es
    BY <1>1, <1>7
  <2> QED BY <2>1 DEF Entries
<1>10. Precedes(rows[n].place, p)
  BY <1>8, <1>9, UptoParts
<1>11. EndOf(rows) = rows[n].place
  <2>1. Len(First(rows, n)) = n /\ First(rows, n)[n] = rows[n]
    BY <1>1, <1>3, FirstParts
  <2> QED BY <2>1 DEF EndOf, n
<1> QED BY <1>3, <1>10, <1>11 DEF n

\* The entry of a row that is there
LEMMA EntryParts ==
    ASSUME TypeOK, NEW x \in Rows, table[x] # None
    PROVE  /\ Place(table, x) \in Places /\ Entry(x) \in Entries /\ Tied(Entry(x))
           /\ Entry(x).row = x /\ Entry(x).place = Place(table, x)
<1>0. Rows \subseteq Nat /\ Dates \subseteq Nat /\ TrackGuid[x] \in Nat /\ LiveFeed[x] \in Nat
  BY PagesAssumption, OffersAssumption
<1>1. query.route # "live" => table[x] \in Row /\ (table[x].key = None => query.route \in Undated)
  BY DEF TypeOK, RouteRow
<1>2. query.route # "live" => table[x].key \in Nat \cup {None}
  BY <1>0, <1>1 DEF Row
<1>3. query.route # "live" => SortKey(table[x]) \in Nat
  BY <1>2 DEF SortKey
<1>4. /\ Place(table, x) \in Places
      /\ Place(table, x)[2] = IF query.route = "artist_tracks" THEN TrackGuid[x] ELSE x
  <2>1. CASE query.route = "live"
    BY <1>0, <2>1 DEF Place, Places
  <2>2. CASE query.route = "artist_tracks"
    BY <1>0, <1>3, <2>2 DEF Place, Places
  <2>3. CASE query.route = "by_date"
    BY <1>0, <1>2, <2>3 DEF Place, Places
  <2>4. CASE query.route \notin {"live", "artist_tracks", "by_date"}
    BY <1>0, <1>3, <2>4 DEF Place, Places
  <2> QED BY <2>1, <2>2, <2>3, <2>4
<1> QED BY <1>4 DEF Entry, Entries, Tied

\* The rows that a statement selects
LEMMA SelectParts ==
    ASSUME TypeOK, NEW S \in SUBSET Rows, NEW at, NEW es, es = Select(S, at)
    PROVE  /\ es \in SUBSET Entries /\ IsFiniteSet(es)
           /\ \A e \in es : /\ Tied(e) /\ After(e.place, at)
                            /\ e.row \in S /\ table[e.row] # None /\ e = Entry(e.row)
           /\ \A x \in S : table[x] # None /\ After(Place(table, x), at) => Entry(x) \in es
<1> DEFINE T == {y \in S : table[y] # None /\ After(Place(table, y), at)}
<1>1. es = {Entry(x) : x \in T}
  BY DEF Select
<1>2. IsFiniteSet(T)
  BY PagesAssumption, FS_Subset
<1>3. IsFiniteSet({Entry(x) : x \in T})
  <2> DEFINE I == {Entry(x) : x \in T}
             f == [x \in T |-> Entry(x)]
  <2>1. f \in Surjection(T, I)
    BY DEF Surjection
  <2> HIDE DEF f, I, T
  <2>2. IsFiniteSet(I)
    BY <1>2, <2>1, FS_Surjection DEF ExistsSurjection
  <2> QED BY <2>2 DEF I
<1>4. \A x \in T : /\ Entry(x) \in Entries /\ Tied(Entry(x)) /\ After(Entry(x).place, at)
                   /\ Entry(x).row \in S /\ table[Entry(x).row] # None
                   /\ Entry(x) = Entry(Entry(x).row)
  BY EntryParts
<1> HIDE DEF T
<1>5. \A e \in es : \E x \in T : e = Entry(x)
  BY <1>1
<1>6. \A x \in S : table[x] # None /\ After(Place(table, x), at) => Entry(x) \in es
  BY <1>1 DEF T
<1> QED BY <1>1, <1>3, <1>4, <1>5, <1>6

-----------------------------------------------------------------------------
(* Answers *)

\* The limit of a walk is at least one
LEMMA LimitParts ==
    ASSUME TypeOK
    PROVE  query.limit \in Nat \ {0} /\ query.route \in Routes
<1>1. PICK n \in Limits : query.limit = CappedLimit(n)
  BY DEF TypeOK, Queries
<1>2. n \in Nat /\ LimitMax \in Nat \ {0}
  BY PagesAssumption
<1>3. query.limit \in Nat \ {0}
  BY <1>1, <1>2 DEF CappedLimit
<1> QED BY <1>3 DEF TypeOK, Queries

\* A new request, and the end of the walk
LEMMA RequestParts ==
    ASSUME NEW c \in Places \cup {None}
    PROVE  /\ Request(c) \in [step : Steps, at : Places \cup {None}, only : SUBSET Rows,
                              todo : Seq(Entries), kept : Seq(Entries), seen : 0..(ScanMax - 1),
                              end : BOOLEAN]
           /\ Request(c).step = "request" /\ Request(c).at = c /\ Request(c).todo = <<>>
           /\ Request(c).kept = <<>> /\ Request(c).only = {} /\ ~Request(c).end
           /\ Done \in [step : Steps, at : Places \cup {None}, only : SUBSET Rows,
                        todo : Seq(Entries), kept : Seq(Entries), seen : 0..(ScanMax - 1),
                        end : BOOLEAN]
           /\ Done.step = "done" /\ Done.todo = <<>> /\ Done.kept = <<>> /\ ~Done.end
<1>1. <<>> \in Seq(Entries) /\ {} \in SUBSET Rows /\ FALSE \in BOOLEAN /\ 0 \in 0..(ScanMax - 1)
  BY PagesAssumption
<1>2. "request" \in Steps /\ "done" \in Steps
  BY DEF Steps
<1> QED BY <1>1, <1>2 DEF Request, Done

\* What an answer gives, and where the walk goes on
LEMMA AnswerStep ==
    ASSUME TypeOK, EntriesAreTied, PagesGoForward, GivenIsBehind, walk.step # "done",
           NEW es \in SUBSET Entries, IsFiniteSet(es),
           \A e \in es : Tied(e) /\ After(e.place, walk.at),
           NEW rows \in Orders(es), Answer(rows)
    PROVE  /\ given' \in Seq(Entries) /\ Forward(given')
           /\ \A i \in DOMAIN given' : Tied(given'[i])
           /\ \A x \in Rows : Found(x) => \E i \in DOMAIN given' : given'[i].row = x
           /\ \/ /\ walk' = Done /\ Len(rows) <= query.limit
                 /\ \A e \in es : \E i \in DOMAIN given' : given'[i] = e
              \/ /\ walk' = Request(EndOf(rows)) /\ EndOf(rows) \in Places
                 /\ Len(rows) > query.limit
                 /\ \A i \in DOMAIN given' : Upto(given'[i].place, EndOf(rows))
                 /\ \A e \in es : \/ \E i \in DOMAIN given' : given'[i] = e
                                  \/ Upto(EndOf(rows), e.place)
<1> DEFINE page == First(rows, query.limit)
<1>0. query.limit \in Nat \ {0} /\ given \in Seq(Entries) /\ walk.at \in Places \cup {None}
  BY LimitParts DEF TypeOK
<1>1. given' = given \o page
  BY DEF Answer
<1>2. walk' = IF Len(rows) > query.limit
              THEN Request(IF page = <<>> THEN None ELSE EndOf(rows)) ELSE Done
  BY DEF Answer, EndOf
<1>3. /\ page \in Seq(Entries) /\ Forward(page) /\ DOMAIN page = 1..Len(page)
      /\ \A i \in DOMAIN page : page[i] \in es
      /\ Len(rows) <= query.limit => \A e \in es : \E i \in DOMAIN page : page[i] = e
      /\ Len(rows) > query.limit =>
           /\ page # <<>> /\ EndOf(rows) \in Places /\ \E e \in es : e.place = EndOf(rows)
           /\ \A i \in DOMAIN page : Upto(page[i].place, EndOf(rows))
           /\ \A e \in es : (\E i \in DOMAIN page : page[i] = e) \/ Upto(EndOf(rows), e.place)
  BY <1>0, PageParts
<1> HIDE DEF page
<1>4. Len(rows) \in Nat
  BY OrdersParts
<1>5. /\ Len(given) \in Nat /\ Len(page) \in Nat /\ DOMAIN given = 1..Len(given)
      /\ given' \in Seq(Entries) /\ DOMAIN given' = 1..(Len(given) + Len(page))
      /\ \A i \in DOMAIN given : i \in DOMAIN given' /\ given'[i] = given[i]
      /\ \A i \in DOMAIN page : Len(given) + i \in DOMAIN given' /\ given'[Len(given) + i] = page[i]
      /\ \A i \in DOMAIN given' :
            \/ i \in DOMAIN given /\ given'[i] = given[i]
            \/ \E j \in DOMAIN page : given'[i] = page[j]
  <2>1. Len(given) \in Nat /\ Len(page) \in Nat /\ DOMAIN given = 1..Len(given)
    BY <1>0, <1>3
  <2>2. given' \in Seq(Entries) /\ DOMAIN given' = 1..(Len(given) + Len(page))
    BY <1>0, <1>1, <1>3
  <2>3. \A i \in DOMAIN given : i \in DOMAIN given' /\ given'[i] = given[i]
    BY <1>0, <1>1, <1>3, <2>1, <2>2
  <2>4. \A i \in DOMAIN page : Len(given) + i \in DOMAIN given' /\ given'[Len(given) + i] = page[i]
    BY <1>0, <1>1, <1>3, <2>1, <2>2
  <2>5. ASSUME NEW i \in DOMAIN given', i \notin DOMAIN given
        PROVE  \E j \in DOMAIN page : given'[i] = page[j]
    <3>1. i - Len(given) \in DOMAIN page /\ Len(given) + (i - Len(given)) = i
      BY <1>3, <2>1, <2>2, <2>5
    <3> QED BY <2>4, <3>1
  <2> QED BY <2>1, <2>2, <2>3, <2>4, <2>5
<1>6. \A i \in DOMAIN given, j \in DOMAIN page : Precedes(given[i].place, page[j].place)
  <2> SUFFICES ASSUME NEW i \in DOMAIN given, NEW j \in DOMAIN page
               PROVE  Precedes(given[i].place, page[j].place)
    OBVIOUS
  <2>1. walk.at # None
    BY <1>5 DEF GivenIsBehind
  <2>2. Upto(given[i].place, walk.at) /\ walk.at \in Places
    BY <1>0, <2>1 DEF GivenIsBehind
  <2>3. page[j] \in es /\ given[i] \in Entries
    BY <1>0, <1>3
  <2>4. page[j].place \in Places /\ given[i].place \in Places
    BY <2>3 DEF Entries
  <2>5. Precedes(walk.at, page[j].place)
    BY <2>2, <2>3, <2>4, AfterParts
  <2> QED BY <2>2, <2>4, <2>5, UptoParts
<1>7. Forward(given')
  <2>1. Forward(given)
    BY DEF Forward, PagesGoForward
  <2>2. Forward(given \o page)
    BY <1>0, <1>3, <1>6, <2>1, ForwardAppend
  <2> QED BY <1>1, <2>2
<1>8. \A i \in DOMAIN given' : Tied(given'[i])
  BY <1>3, <1>5 DEF EntriesAreTied
<1>9. \A x \in Rows : Found(x) => \E i \in DOMAIN given' : given'[i].row = x
  BY <1>5 DEF Found
<1>10. CASE Len(rows) <= query.limit
  <2>1. walk' = Done
    BY <1>0, <1>2, <1>4, <1>10
  <2>2. \A e \in es : \E i \in DOMAIN given' : given'[i] = e
    BY <1>3, <1>5, <1>10
  <2> QED BY <1>5, <1>7, <1>8, <1>9, <1>10, <2>1, <2>2
<1>11. CASE Len(rows) > query.limit
  <2>1. walk' = Request(EndOf(rows))
    BY <1>2, <1>3, <1>11
  <2>2. \A e \in es : (\E i \in DOMAIN given' : given'[i] = e) \/ Upto(EndOf(rows), e.place)
    BY <1>3, <1>5, <1>11
  <2>3. ASSUME NEW i \in DOMAIN given' PROVE Upto(given'[i].place, EndOf(rows))
    <3>1. CASE \E j \in DOMAIN page : given'[i] = page[j]
      BY <1>3, <1>11, <3>1
    <3>2. CASE i \in DOMAIN given /\ given'[i] = given[i]
      <4>1. PICK j \in DOMAIN page : TRUE
        BY <1>3, <1>11
      <4>2. page[j] \in Entries /\ given[i] \in Entries
        BY <1>0, <1>3, <3>2
      <4>3. page[j].place \in Places /\ given[i].place \in Places
        BY <4>2 DEF Entries
      <4>4. Precedes(given[i].place, page[j].place) /\ Upto(page[j].place, EndOf(rows))
        BY <1>3, <1>6, <1>11, <3>2
      <4> QED BY <1>3, <1>11, <3>2, <4>3, <4>4, UptoParts DEF Upto
    <3> QED BY <1>5, <3>1, <3>2
  <2> QED BY <1>3, <1>5, <1>7, <1>8, <1>9, <1>11, <2>1, <2>2, <2>3
<1> QED BY <1>0, <1>4, <1>10, <1>11

\* Reads leave the tables, and with them the stable rows, as they are
LEMMA ReadsKeep ==
    ASSUME PagesIInv, Reads
    PROVE  /\ StableRows' /\ LiveRowsAllowed'
           /\ query' = query /\ table' = table /\ stable' = stable /\ now' = now
           /\ Places' = Places /\ Entries' = Entries
           /\ \A x \in Rows : Place(table, x)' = Place(table, x) /\ Entry(x)' = Entry(x)
           /\ \A p, q : Precedes(p, q)' <=> Precedes(p, q)
           /\ \A p, q : After(p, q)' <=> After(p, q)
           /\ \A e : Tied(e)' <=> Tied(e)
           /\ \A s : Forward(s)' <=> Forward(s)
<1>1. query' = query /\ table' = table /\ stable' = stable /\ now' = now
  BY DEF Reads
<1>2. Places' = Places /\ Entries' = Entries
  BY <1>1 DEF Places, Entries
<1>3. \A p, q : Precedes(p, q)' <=> Precedes(p, q)
  BY <1>1 DEF Precedes
<1>4. \A p, q : After(p, q)' <=> After(p, q)
  BY <1>1, <1>3 DEF After, Follows
<1>5. \A x \in Rows : Place(table, x)' = Place(table, x)
  BY <1>1 DEF Place
<1>6. \A x \in Rows : Entry(x)' = Entry(x)
  BY <1>5 DEF Entry
<1>7. StableRows'
  BY <1>1 DEF PagesIInv, StableRows, Matches, Alone, Place
<1>8. LiveRowsAllowed'
  BY <1>1 DEF PagesIInv, LiveRowsAllowed
<1>9. \A e : Tied(e)' <=> Tied(e)
  BY <1>1 DEF Tied
<1>10. \A s : Forward(s)' <=> Forward(s)
  BY <1>3 DEF Forward
<1> QED BY <1>1, <1>2, <1>3, <1>4, <1>5, <1>6, <1>7, <1>8, <1>9, <1>10

\* What a stable row is
LEMMA StableParts ==
    ASSUME PagesIInv, NEW x \in stable
    PROVE  /\ x \in Rows /\ table[x] # None /\ Matches(table, now, x)
           /\ Place(table, x) \in Places /\ Entry(x) \in Entries /\ Tied(Entry(x))
           /\ Entry(x).row = x /\ Entry(x).place = Place(table, x)
           /\ \A y \in Rows \ {x} : table[y] # None => Place(table, y) # Place(table, x)
<1>1. x \in Rows /\ Matches(table, now, x) /\ Alone(table, x) /\ TypeOK
  BY DEF PagesIInv, StableRows
<1>2. table[x] # None
  BY <1>1 DEF Matches
<1> QED BY <1>1, <1>2, EntryParts DEF Alone

\* The tables of a step that only reads
LEMMA ReadTypes ==
    ASSUME PagesIInv, Reads, given' \in Seq(Entries),
           walk' \in [step : Steps, at : Places \cup {None}, only : SUBSET Rows,
                      todo : Seq(Entries), kept : Seq(Entries), seen : 0..(ScanMax - 1),
                      end : BOOLEAN],
           Len(walk'.todo) <= Batch,
           Len(walk'.kept) <=
               (IF query.route = "copies" THEN Cardinality(Rows) ELSE query.limit + 1)
    PROVE  TypeOK'
<1>1. query' = query /\ table' = table /\ stable' = stable /\ now' = now /\ writes' = writes
  BY DEF Reads
<1>2. Places' = Places /\ Entries' = Entries
  BY ReadsKeep
<1>3. RouteRow' = RouteRow
  BY <1>1 DEF RouteRow
<1>4. table' \in [Rows -> (IF query'.route = "live" THEN LiveItem ELSE RouteRow') \cup {None}]
  BY <1>1, <1>3 DEF PagesIInv, TypeOK
<1> QED BY <1>1, <1>2, <1>4 DEF PagesIInv, TypeOK

\* Each stable row is given, or among the rows to answer with a place of its own,
\* or crowded out by more of them than a page holds
Covered(x, es) ==
    \/ Found(x)
    \/ Entry(x) \in es /\ \A e \in es : e # Entry(x) => e.place # Place(table, x)
    \/ \E K \in SUBSET es : /\ Cardinality(K) > query.limit
                            /\ \A k \in K : Precedes(k.place, Place(table, x))

\* An answer of a route without a filter keeps the invariant
LEMMA AnswerKeeps ==
    ASSUME PagesIInv, walk.step # "done", query.route # "filtered",
           NEW es \in SUBSET Entries, IsFiniteSet(es),
           \A e \in es : Tied(e) /\ After(e.place, walk.at),
           \A x \in stable : Covered(x, es),
           NEW rows \in Orders(es), Answer(rows), Reads
    PROVE  PagesIInv'
<1>0. query.limit \in Nat \ {0} /\ Batch \in Nat
  BY LimitParts, PagesAssumption DEF PagesIInv
<1> DEFINE c == EndOf(rows)
<1>1. /\ given' \in Seq(Entries) /\ Forward(given')
      /\ \A i \in DOMAIN given' : Tied(given'[i])
      /\ \A x \in Rows : Found(x) => \E i \in DOMAIN given' : given'[i].row = x
      /\ \/ /\ walk' = Done /\ Len(rows) <= query.limit
            /\ \A e \in es : \E i \in DOMAIN given' : given'[i] = e
         \/ /\ walk' = Request(c) /\ c \in Places /\ Len(rows) > query.limit
            /\ \A i \in DOMAIN given' : Upto(given'[i].place, c)
            /\ \A e \in es : (\E i \in DOMAIN given' : given'[i] = e) \/ Upto(c, e.place)
  BY AnswerStep DEF PagesIInv
<1> HIDE DEF c
<1>2. /\ walk' \in [step : Steps, at : Places \cup {None}, only : SUBSET Rows,
                    todo : Seq(Entries), kept : Seq(Entries), seen : 0..(ScanMax - 1),
                    end : BOOLEAN]
      /\ walk'.todo = <<>> /\ walk'.kept = <<>> /\ ~walk'.end /\ walk'.step \in {"request", "done"}
      /\ walk'.step # "done" => walk' = Request(c) /\ walk'.at = c /\ c \in Places
  <2>1. CASE walk' = Done
    <3>1. None \in Places \cup {None}
      OBVIOUS
    <3> QED BY <2>1, <3>1, RequestParts
  <2>2. CASE walk' = Request(c) /\ c \in Places
    <3>1. c \in Places \cup {None}
      BY <2>2
    <3> QED BY <2>2, <3>1, RequestParts
  <2> QED BY <1>1, <2>1, <2>2
<1>3. TypeOK'
  <2>1. Len(<<>>) = 0 /\ Cardinality(Rows) \in Nat
    BY PagesAssumption, FS_CardinalityType
  <2> QED BY <1>0, <1>1, <1>2, <2>1, ReadTypes
<1>4. EntriesAreTied'
  <2>1. DOMAIN walk'.kept = {} /\ DOMAIN walk'.todo = {}
    BY <1>2
  <2> QED BY <1>1, <2>1, ReadsKeep DEF EntriesAreTied
<1>5. PagesGoForward'
  BY <1>1, ReadsKeep DEF Forward, PagesGoForward
<1>6. GivenIsBehind'
  <2> SUFFICES ASSUME walk'.step # "done" PROVE GivenIsBehind'
    BY DEF GivenIsBehind
  <2>1. walk' = Request(c) /\ walk'.at = c /\ c \in Places /\ walk' # Done
    BY <1>2, RequestParts
  <2>2. c # None /\ \A i \in DOMAIN given' : Upto(given'[i].place, c)
    BY <1>1, <2>1, PlaceIsGiven
  <2> QED BY <2>1, <2>2, ReadsKeep DEF GivenIsBehind, Upto
<1>7. StepsOfRoute' /\ KeptHits' /\ RecordsAreOnce' /\ ScanIsOrdered'
  BY <1>2, ReadsKeep DEF StepsOfRoute, KeptHits, RecordsAreOnce, ScanIsOrdered
<1>8. NothingLost'
  <2> SUFFICES ASSUME NEW x \in stable
               PROVE  \/ \E i \in DOMAIN given' : given'[i].row = x
                      \/ walk'.step # "done" /\ After(Place(table, x), walk'.at)
    BY <1>2, ReadsKeep, StableParts DEF NothingLost, Found, StillDue, Ahead
  <2>0. /\ x \in Rows /\ Place(table, x) \in Places /\ Entry(x) \in Entries
        /\ Entry(x).row = x /\ Entry(x).place = Place(table, x)
    BY StableParts
  <2>1. CASE Found(x)
    BY <1>1, <2>0, <2>1
  <2>2. CASE Entry(x) \in es /\ \A e \in es : e # Entry(x) => e.place # Place(table, x)
    <3>1. CASE \E i \in DOMAIN given' : given'[i] = Entry(x)
      BY <2>0, <3>1
    <3>2. CASE ~\E i \in DOMAIN given' : given'[i] = Entry(x)
      <4>1. /\ walk' = Request(c) /\ c \in Places
            /\ Upto(c, Place(table, x)) /\ Len(rows) > query.limit
        BY <1>1, <2>0, <2>2, <3>2
      <4>2. \E e \in es : e.place = c /\ \E i \in DOMAIN given' : given'[i] = e
        <5> DEFINE page == First(rows, query.limit)
        <5>1. /\ page \in Seq(Entries) /\ DOMAIN page = 1..Len(page) /\ page # <<>>
              /\ \A i \in DOMAIN page : page[i] \in es
          BY <1>0, <4>1, PageParts
        <5>2. given' = given \o page /\ c = page[Len(page)].place /\ given \in Seq(Entries)
          BY DEF Answer, c, EndOf, PagesIInv, TypeOK
        <5> HIDE DEF page
        <5>3. Len(page) \in DOMAIN page /\ Len(given) + Len(page) \in DOMAIN given'
              /\ given'[Len(given) + Len(page)] = page[Len(page)]
          BY <5>1, <5>2
        <5> QED BY <5>1, <5>2, <5>3
      <4>3. c # Place(table, x)
        BY <2>2, <3>2, <4>2
      <4>4. Precedes(c, Place(table, x))
        BY <4>1, <4>3 DEF Upto
      <4>5. walk'.step # "done" /\ walk'.at = c
        BY <4>1, RequestParts
      <4> QED BY <2>0, <4>1, <4>4, <4>5, AfterParts
    <3> QED BY <3>1, <3>2
  <2>3. CASE \E K \in SUBSET es : /\ Cardinality(K) > query.limit
                                  /\ \A k \in K : Precedes(k.place, Place(table, x))
    <3>1. Len(rows) > query.limit /\ Precedes(c, Place(table, x))
      BY <1>0, <2>0, <2>3, CrowdParts DEF c
    <3>2. Len(rows) \in Nat
      BY OrdersParts
    <3>3. walk' = Request(c) /\ c \in Places
      BY <1>0, <1>1, <3>1, <3>2
    <3>4. walk'.step # "done" /\ walk'.at = c
      BY <3>3, RequestParts
    <3> QED BY <2>0, <3>1, <3>3, <3>4, AfterParts
  <2> QED BY <2>1, <2>2, <2>3 DEF Covered
<1> QED BY <1>3, <1>4, <1>5, <1>6, <1>7, <1>8, ReadsKeep DEF PagesIInv

-----------------------------------------------------------------------------
(* Routes that read the page in one statement, and routes by GUIDs *)

\* The rows of the tables that a statement selects cover the stable rows among them
LEMMA SelectCovers ==
    ASSUME PagesIInv, NEW S \in SUBSET Rows, NEW x \in stable, x \in S, Ahead(x)
    PROVE  Covered(x, Select(S, walk.at))
<1> DEFINE es == Select(S, walk.at)
<1>1. /\ x \in Rows /\ table[x] # None /\ Entry(x).place = Place(table, x)
      /\ \A y \in Rows \ {x} : table[y] # None => Place(table, y) # Place(table, x)
  BY StableParts
<1>2. TypeOK
  BY DEF PagesIInv
<1>3. /\ \A e \in es : e.row \in S /\ table[e.row] # None /\ e = Entry(e.row)
      /\ Entry(x) \in es
  BY <1>1, <1>2, SelectParts DEF Ahead
<1>4. ASSUME NEW e \in es, e # Entry(x) PROVE e.place # Place(table, x)
  <2>1. e.row # x /\ e.row \in Rows /\ table[e.row] # None /\ e = Entry(e.row)
    BY <1>3, <1>4
  <2>2. e.place = Place(table, e.row)
    BY <1>2, <2>1, EntryParts
  <2> QED BY <1>1, <2>1, <2>2
<1> QED BY <1>3, <1>4 DEF Covered

\* A page over the rows of S keeps the invariant when the stable rows that are
\* still due are in S
LEMMA SelectedPage ==
    ASSUME PagesIInv, walk.step # "done", query.route # "filtered", NEW S \in SUBSET Rows,
           \A x \in stable : Found(x) \/ (x \in S /\ Ahead(x)),
           NEW rows \in Orders(Select(S, walk.at)), Answer(rows), Reads
    PROVE  PagesIInv'
<1> DEFINE es == Select(S, walk.at)
<1>1. es \in SUBSET Entries /\ IsFiniteSet(es) /\ \A e \in es : Tied(e) /\ After(e.place, walk.at)
  BY SelectParts DEF PagesIInv
<1>2. \A x \in stable : Covered(x, es)
  <2> SUFFICES ASSUME NEW x \in stable PROVE Covered(x, es)
    OBVIOUS
  <2>1. CASE Found(x)
    BY <2>1 DEF Covered
  <2>2. CASE x \in S /\ Ahead(x)
    BY <2>2, SelectCovers
  <2> QED BY <2>1, <2>2
<1> HIDE DEF es
<1>3. rows \in Orders(es)
  BY DEF es
<1> QED BY <1>1, <1>2, <1>3, AnswerKeeps

\* RecentPage, GuidChangesPage, ArtistTracksPage, ByDatePage, LivePage
LEMMA OneReadStep ==
    ASSUME PagesIInv, NEW route \in Plain, OneRead(route)
    PROVE  PagesIInv'
<1> DEFINE S == {x \in Rows : Matches(table, now, x)}
<1>1. /\ query.route = route /\ walk.step = "request" /\ Reads
      /\ \E rows \in Orders(Select(S, walk.at)) : Answer(rows)
  BY DEF OneRead, At
<1>2. walk.step # "done" /\ query.route # "filtered"
  BY <1>1 DEF Plain
<1>3. \A x \in stable : Found(x) \/ (x \in S /\ Ahead(x))
  BY <1>2, StableParts DEF PagesIInv, NothingLost, StillDue
<1>4. S \in SUBSET Rows
  OBVIOUS
<1> HIDE DEF S
<1> QED BY <1>1, <1>2, <1>3, <1>4, SelectedPage

\* NamedPage
LEMMA NamedPageStep ==
    ASSUME PagesIInv, NamedPage
    PROVE  PagesIInv'
<1>1. /\ query.route \in Named /\ walk.step = "rows" /\ Reads
      /\ \E rows \in Orders(Select(walk.only, walk.at)) : Answer(rows)
  BY DEF NamedPage
<1>2. walk.step # "done" /\ query.route # "filtered"
  BY <1>1 DEF Named
<1>3. \A x \in stable : Found(x) \/ (x \in walk.only /\ Ahead(x))
  BY <1>1, <1>2 DEF PagesIInv, NothingLost, StillDue
<1>4. walk.only \in SUBSET Rows
  BY DEF PagesIInv, TypeOK
<1> QED BY <1>1, <1>2, <1>3, <1>4, SelectedPage

\* A step within a request of a route without a filter: it gives nothing and
\* keeps the cursor
LEMMA WithinRequest ==
    ASSUME PagesIInv, query.route # "filtered", walk.step # "done", Reads, given' = given,
           NEW w, walk' = w,
           w \in [step : Steps, at : Places \cup {None}, only : SUBSET Rows,
                  todo : Seq(Entries), kept : Seq(Entries), seen : 0..(ScanMax - 1),
                  end : BOOLEAN],
           w.step # "done", w.at = walk.at, w.todo = walk.todo, w.end = walk.end,
           Len(w.kept) <= (IF query.route = "copies" THEN Cardinality(Rows) ELSE query.limit + 1),
           \A i \in DOMAIN w.kept : Tied(w.kept[i]),
           StepsOfRoute', KeptHits', RecordsAreOnce',
           \A x \in stable : Found(x) \/ StillDue(x)'
    PROVE  PagesIInv'
<1>1. TypeOK'
  BY ReadTypes DEF PagesIInv, TypeOK
<1>2. EntriesAreTied'
  <2>1. walk.todo = walk'.todo
    OBVIOUS
  <2> QED BY <2>1, ReadsKeep DEF PagesIInv, EntriesAreTied
<1>3. PagesGoForward'
  BY ReadsKeep DEF PagesIInv, PagesGoForward
<1>4. GivenIsBehind'
  BY ReadsKeep DEF PagesIInv, GivenIsBehind, Upto
<1>5. ScanIsOrdered'
  BY ReadsKeep DEF ScanIsOrdered
<1>6. NothingLost'
  BY ReadsKeep DEF NothingLost, Found
<1> QED BY <1>1, <1>2, <1>3, <1>4, <1>5, <1>6, ReadsKeep DEF PagesIInv

\* NamedOnly
LEMMA NamedOnlyStep ==
    ASSUME PagesIInv, NamedOnly
    PROVE  PagesIInv'
<1> DEFINE S == {x \in Rows : Matches(table, now, x)}
           w == [walk EXCEPT !.step = "rows", !.only = S]
<1>1. /\ query.route \in Named /\ walk.step = "request" /\ Reads /\ given' = given
      /\ walk' = w
  BY DEF NamedOnly
<1>2. walk.step # "done" /\ query.route # "filtered" /\ query.route # "copies"
  BY <1>1 DEF Named
<1>3. /\ walk \in [step : Steps, at : Places \cup {None}, only : SUBSET Rows,
                   todo : Seq(Entries), kept : Seq(Entries), seen : 0..(ScanMax - 1),
                   end : BOOLEAN]
      /\ Len(walk.kept) <= query.limit + 1
  BY <1>2 DEF PagesIInv, TypeOK
<1>4. S \in SUBSET Rows /\ "rows" \in Steps
  BY DEF Steps
<1>5. \A x \in stable : x \in S
  BY StableParts
<1> HIDE DEF S
<1>6. /\ w \in [step : Steps, at : Places \cup {None}, only : SUBSET Rows,
                todo : Seq(Entries), kept : Seq(Entries), seen : 0..(ScanMax - 1),
                end : BOOLEAN]
      /\ w.step = "rows" /\ w.only = S /\ w.at = walk.at /\ w.todo = walk.todo
      /\ w.kept = walk.kept /\ w.end = walk.end
  BY <1>3, <1>4
<1> HIDE DEF w
<1>7. StepsOfRoute' /\ KeptHits' /\ RecordsAreOnce'
  BY <1>1, <1>2, <1>6, ReadsKeep DEF PagesIInv, StepsOfRoute, KeptHits, RecordsAreOnce
<1>8. \A x \in stable : Found(x) \/ StillDue(x)'
  <2> SUFFICES ASSUME NEW x \in stable, ~Found(x) PROVE StillDue(x)'
    OBVIOUS
  <2>1. Ahead(x) /\ x \in Rows
    BY <1>2, StableParts DEF PagesIInv, NothingLost, StillDue
  <2>2. Ahead(x)'
    BY <1>1, <1>6, <2>1, ReadsKeep DEF Ahead
  <2> QED BY <1>1, <1>2, <1>5, <1>6, <2>2, ReadsKeep DEF StillDue
<1>9. \A i \in DOMAIN w.kept : Tied(w.kept[i])
  BY <1>6 DEF PagesIInv, EntriesAreTied
<1> QED BY <1>1, <1>2, <1>3, <1>6, <1>7, <1>8, <1>9, WithinRequest

-----------------------------------------------------------------------------
(* Search *)

\* The entries of a sequence are finitely many, and as many as its length when it
\* rises
LEMMA RangeParts ==
    ASSUME NEW s \in Seq(Entries)
    PROVE  /\ Range(s) \in SUBSET Entries /\ IsFiniteSet(Range(s))
           /\ \A i \in DOMAIN s : s[i] \in Range(s)
           /\ \A e \in Range(s) : \E i \in DOMAIN s : e = s[i]
           /\ Rising(s) => Cardinality(Range(s)) = Len(s)
<1>0. Range(s) = {s[i] : i \in DOMAIN s} /\ DOMAIN s = 1..Len(s) /\ Len(s) \in Nat
  BY DEF Range
<1>1. s \in Surjection(1..Len(s), Range(s))
  BY <1>0 DEF Surjection
<1>2. IsFiniteSet(1..Len(s)) /\ Cardinality(1..Len(s)) = Len(s)
  <2>1. 1 \in Int /\ Len(s) \in Int
    BY <1>0
  <2>2. IsFiniteSet(1..Len(s)) /\ Cardinality(1..Len(s)) = IF 1 > Len(s) THEN 0 ELSE Len(s) - 1 + 1
    BY <2>1, FS_Interval
  <2> QED BY <1>0, <2>2
<1>3. IsFiniteSet(Range(s))
  BY <1>1, <1>2, FS_Surjection
<1>4. ASSUME Rising(s) PROVE Cardinality(Range(s)) = Len(s)
  <2>1. ASSUME NEW i \in 1..Len(s), NEW j \in 1..Len(s), s[i] = s[j], i < j PROVE FALSE
    <3>1. s[i] \in Entries /\ Precedes(s[i].place, s[i].place)
      BY <1>0, <1>4, <2>1 DEF Rising
    <3>2. s[i].place \in Places
      BY <3>1 DEF Entries
    <3> QED BY <3>1, <3>2, Irreflexive
  <2>2. \A i, j \in 1..Len(s) : s[i] = s[j] => i = j
    <3> SUFFICES ASSUME NEW i \in 1..Len(s), NEW j \in 1..Len(s), s[i] = s[j] PROVE i = j
      OBVIOUS
    <3>1. i < j \/ j < i \/ i = j
      BY <1>0
    <3> QED BY <2>1, <3>1
  <2>3. s \in Injection(1..Len(s), Range(s))
    BY <1>0, <1>1, <2>2 DEF Surjection, Injection, IsInjective
  <2> QED BY <1>1, <1>2, <2>3, FS_Surjection
<1> QED BY <1>0, <1>3, <1>4

\* The first hits of a kind: a stable hit of it is among them, or they are one
\* more than a page and all before it
LEMMA HitsParts ==
    ASSUME PagesIInv, query.route = "search", NEW S \in SUBSET Rows,
           NEW rows \in Orders(Select(S, walk.at)), NEW hits, hits = First(rows, query.limit + 1)
    PROVE  /\ hits \in Seq(Entries) /\ Rising(hits) /\ Len(hits) <= query.limit + 1
           /\ \A i \in DOMAIN hits : Tied(hits[i]) /\ After(hits[i].place, walk.at)
           /\ \A x \in stable : x \in S /\ Ahead(x) =>
                \/ \E i \in DOMAIN hits : hits[i] = Entry(x)
                \/ /\ Len(hits) = query.limit + 1
                   /\ \A i \in DOMAIN hits : Precedes(hits[i].place, Place(table, x))
<1> DEFINE es == Select(S, walk.at)
           n == query.limit + 1
<1>0. n \in Nat
  BY LimitParts DEF PagesIInv
<1>1. /\ es \in SUBSET Entries /\ IsFiniteSet(es)
      /\ \A e \in es : Tied(e) /\ After(e.place, walk.at)
      /\ \A x \in S : table[x] # None /\ Ahead(x) => Entry(x) \in es
  BY SelectParts DEF PagesIInv, Ahead
<1> HIDE DEF es
<1>2. rows \in Orders(es)
  BY DEF es
<1>3. /\ rows \in Seq(es) /\ Len(rows) \in Nat
      /\ \A e \in es : \E i \in 1..Len(rows) : rows[i] = e
  BY <1>1, <1>2, OrdersParts
<1>4. Rising(rows) /\ rows \in Seq(Entries) /\ DOMAIN rows = 1..Len(rows)
  BY <1>1, <1>2, <1>3, OrderRises
<1> HIDE DEF n
<1>5. hits = First(rows, n)
  BY DEF n
<1>6. /\ First(rows, n) \in Seq(es) /\ DOMAIN First(rows, n) = 1..Len(First(rows, n))
      /\ Len(First(rows, n)) = IF Len(rows) < n THEN Len(rows) ELSE n
      /\ \A i \in 1..Len(First(rows, n)) : First(rows, n)[i] = rows[i] /\ i \in 1..Len(rows)
  BY <1>0, <1>3, FirstParts
<1>7. /\ hits \in Seq(es) /\ DOMAIN hits = 1..Len(hits)
      /\ Len(hits) = (IF Len(rows) < n THEN Len(rows) ELSE n)
      /\ \A i \in 1..Len(hits) : hits[i] = rows[i] /\ i \in 1..Len(rows)
  BY <1>5, <1>6
<1>8. hits \in Seq(Entries) /\ Rising(hits) /\ Len(hits) <= n
  BY <1>0, <1>1, <1>3, <1>4, <1>5, <1>7, FirstRises
<1>9. \A i \in DOMAIN hits : Tied(hits[i]) /\ After(hits[i].place, walk.at)
  BY <1>1, <1>7
<1>10. ASSUME NEW x \in stable, x \in S, Ahead(x)
       PROVE  \/ \E i \in DOMAIN hits : hits[i] = Entry(x)
              \/ Len(hits) = n /\ \A i \in DOMAIN hits : Precedes(hits[i].place, Place(table, x))
  <2>1. table[x] # None /\ Entry(x).place = Place(table, x)
    BY <1>10, StableParts
  <2>2. PICK j \in 1..Len(rows) : rows[j] = Entry(x)
    BY <1>1, <1>3, <1>10, <2>1
  <2>3. CASE j <= Len(hits)
    <3>1. j \in 1..Len(hits)
      BY <1>0, <1>3, <1>7, <2>2, <2>3
    <3> QED BY <1>7, <2>2, <3>1
  <2>4. CASE j > Len(hits)
    <3>1. Len(hits) = n
      BY <1>0, <1>3, <1>7, <2>2, <2>4
    <3>2. ASSUME NEW i \in DOMAIN hits PROVE Precedes(hits[i].place, Place(table, x))
      <4>1. i \in 1..Len(hits)
        BY <1>7
      <4>2. hits[i] = rows[i] /\ i \in 1..Len(rows)
        BY <1>7, <4>1
      <4>3. i < j
        BY <1>0, <1>3, <2>2, <2>4, <3>1, <4>1
      <4> QED BY <1>4, <2>1, <2>2, <4>2, <4>3 DEF Rising
    <3> QED BY <3>1, <3>2
  <2>5. Len(hits) \in Nat /\ j \in Nat
    BY <1>0, <1>3, <1>7, <2>2
  <2> QED BY <2>3, <2>4, <2>5
<1> QED BY <1>8, <1>9, <1>10 DEF n

\* SearchFeeds
LEMMA SearchFeedsStep ==
    ASSUME PagesIInv, SearchFeeds
    PROVE  PagesIInv'
<1> DEFINE S == {x \in FeedHits : Matches(table, now, x)}
<1>1. /\ query.route = "search" /\ walk.step = "request" /\ Reads /\ given' = given
      /\ \E rows \in Orders(Select(S, walk.at)) :
           walk' = [walk EXCEPT !.step = "tracks", !.kept = First(rows, query.limit + 1)]
  BY DEF SearchFeeds, At
<1>2. S \in SUBSET Rows /\ \A x \in stable : x \in FeedHits => x \in S
  BY PagesAssumption, StableParts
<1> HIDE DEF S
<1>3. PICK rows \in Orders(Select(S, walk.at)) :
           walk' = [walk EXCEPT !.step = "tracks", !.kept = First(rows, query.limit + 1)]
  BY <1>1
<1>a. PICK hits : hits = First(rows, query.limit + 1)
  OBVIOUS
<1> DEFINE w == [walk EXCEPT !.step = "tracks", !.kept = hits]
<1>4. /\ hits \in Seq(Entries) /\ Rising(hits) /\ Len(hits) <= query.limit + 1
      /\ \A i \in DOMAIN hits : Tied(hits[i]) /\ After(hits[i].place, walk.at)
      /\ \A x \in stable : x \in S /\ Ahead(x) =>
           \/ \E i \in DOMAIN hits : hits[i] = Entry(x)
           \/ /\ Len(hits) = query.limit + 1
              /\ \A i \in DOMAIN hits : Precedes(hits[i].place, Place(table, x))
  BY <1>1, <1>2, <1>a, HitsParts
<1>5. walk' = w
  BY <1>3, <1>a
<1>6. walk \in [step : Steps, at : Places \cup {None}, only : SUBSET Rows,
                todo : Seq(Entries), kept : Seq(Entries), seen : 0..(ScanMax - 1),
                end : BOOLEAN]
  BY DEF PagesIInv, TypeOK
<1>7. /\ w \in [step : Steps, at : Places \cup {None}, only : SUBSET Rows,
                todo : Seq(Entries), kept : Seq(Entries), seen : 0..(ScanMax - 1),
                end : BOOLEAN]
      /\ w.step = "tracks" /\ w.at = walk.at /\ w.todo = walk.todo
      /\ w.kept = hits /\ w.end = walk.end
  <2>1. "tracks" \in Steps
    BY DEF Steps
  <2> QED BY <1>4, <1>6, <2>1
<1> HIDE DEF w
<1>8. KeptHits'
  <2>1. Rising(hits)'
    BY <1>1, <1>4, ReadsKeep DEF Rising
  <2>2. \A i \in DOMAIN hits : After(hits[i].place, walk.at)'
    BY <1>1, <1>4, <1>5, <1>7, ReadsKeep
  <2> QED BY <1>5, <1>7, <2>1, <2>2 DEF KeptHits, Rising
<1>9. StepsOfRoute' /\ RecordsAreOnce'
  BY <1>1, <1>5, <1>7, ReadsKeep DEF PagesIInv, StepsOfRoute, RecordsAreOnce
<1>10. \A x \in stable : Found(x) \/ StillDue(x)'
  <2> SUFFICES ASSUME NEW x \in stable, ~Found(x) PROVE StillDue(x)'
    OBVIOUS
  <2>1. Ahead(x) /\ x \in Rows
    BY <1>1, StableParts DEF PagesIInv, NothingLost, StillDue
  <2>2. Ahead(x)'
    BY <1>1, <1>5, <1>7, <2>1, ReadsKeep DEF Ahead
  <2>3. ASSUME x \in FeedHits PROVE InKept(x)' \/ Crowded(x)'
    <3>1. CASE \E i \in DOMAIN hits : hits[i] = Entry(x)
      BY <1>1, <1>5, <1>7, <2>1, <3>1, ReadsKeep DEF InKept
    <3>2. CASE /\ Len(hits) = query.limit + 1
               /\ \A i \in DOMAIN hits : Precedes(hits[i].place, Place(table, x))
      BY <1>1, <1>5, <1>7, <2>1, <3>2, ReadsKeep DEF Crowded
    <3> QED BY <1>2, <1>4, <2>1, <2>3, <3>1, <3>2
  <2> QED BY <1>1, <1>5, <1>7, <2>2, <2>3, ReadsKeep DEF StillDue
<1> QED BY <1>1, <1>4, <1>5, <1>7, <1>8, <1>9, <1>10, WithinRequest

\* SearchPage
LEMMA SearchPageStep ==
    ASSUME PagesIInv, SearchPage
    PROVE  PagesIInv'
<1> DEFINE S == {x \in Rows \ FeedHits : Matches(table, now, x)}
<1>1. /\ query.route = "search" /\ walk.step = "tracks" /\ Reads
      /\ \E rows \in Orders(Select(S, walk.at)) :
           \E merged \in Orders(Range(walk.kept) \cup Range(First(rows, query.limit + 1))) :
               Answer(merged)
  BY DEF SearchPage, At
<1>2. S \in SUBSET Rows /\ \A x \in stable : x \notin FeedHits => x \in S
  BY StableParts
<1> HIDE DEF S
<1>3. PICK rows \in Orders(Select(S, walk.at)) :
           \E merged \in Orders(Range(walk.kept) \cup Range(First(rows, query.limit + 1))) :
               Answer(merged)
  BY <1>1
<1> DEFINE hits == First(rows, query.limit + 1)
           es == Range(walk.kept) \cup Range(hits)
<1>4. /\ hits \in Seq(Entries) /\ Rising(hits) /\ Len(hits) <= query.limit + 1
      /\ \A i \in DOMAIN hits : Tied(hits[i]) /\ After(hits[i].place, walk.at)
      /\ \A x \in stable : x \in S /\ Ahead(x) =>
           \/ \E i \in DOMAIN hits : hits[i] = Entry(x)
           \/ /\ Len(hits) = query.limit + 1
              /\ \A i \in DOMAIN hits : Precedes(hits[i].place, Place(table, x))
  BY <1>1, <1>2, HitsParts
<1> HIDE DEF hits
<1>5. PICK merged \in Orders(es) : Answer(merged)
  BY <1>3 DEF hits
<1>6. /\ walk.kept \in Seq(Entries) /\ Rising(walk.kept)
      /\ \A i \in DOMAIN walk.kept : Tied(walk.kept[i]) /\ After(walk.kept[i].place, walk.at)
  BY <1>1 DEF PagesIInv, TypeOK, KeptHits, EntriesAreTied
<1>7. /\ Range(hits) \in SUBSET Entries /\ IsFiniteSet(Range(hits))
      /\ \A i \in DOMAIN hits : hits[i] \in Range(hits)
      /\ \A e \in Range(hits) : \E i \in DOMAIN hits : e = hits[i]
      /\ Cardinality(Range(hits)) = Len(hits)
  BY <1>4, RangeParts
<1>8. /\ Range(walk.kept) \in SUBSET Entries /\ IsFiniteSet(Range(walk.kept))
      /\ \A i \in DOMAIN walk.kept : walk.kept[i] \in Range(walk.kept)
      /\ \A e \in Range(walk.kept) : \E i \in DOMAIN walk.kept : e = walk.kept[i]
      /\ Cardinality(Range(walk.kept)) = Len(walk.kept)
  BY <1>6, RangeParts
<1>9. es \in SUBSET Entries /\ IsFiniteSet(es)
  BY <1>7, <1>8, FS_Union
<1>10. \A e \in es : Tied(e) /\ After(e.place, walk.at)
  BY <1>4, <1>6, <1>7, <1>8
<1>11. query.limit \in Nat
  BY LimitParts DEF PagesIInv
<1>12. ASSUME NEW x \in stable PROVE Covered(x, es)
  <2>0. Entry(x) \in Entries /\ Tied(Entry(x)) /\ Entry(x).place = Place(table, x)
    BY StableParts
  <2>1. \A e \in es : e # Entry(x) => e.place # Place(table, x)
    BY <1>1, <1>9, <1>10, <2>0, PlaceNamesRow
  <2>2. CASE Found(x)
    BY <2>2 DEF Covered
  <2>3. CASE InKept(x)
    <3>1. Entry(x) \in es
      BY <1>8, <2>3 DEF InKept
    <3> QED BY <2>1, <3>1 DEF Covered
  <2>4. CASE Crowded(x)
    <3>1. Range(walk.kept) \in SUBSET es
      OBVIOUS
    <3>2. Cardinality(Range(walk.kept)) > query.limit
      BY <1>8, <1>11, <2>4 DEF Crowded
    <3>3. \A k \in Range(walk.kept) : Precedes(k.place, Place(table, x))
      BY <1>8, <2>4 DEF Crowded
    <3> HIDE DEF es
    <3> QED BY <3>1, <3>2, <3>3 DEF Covered
  <2>5. CASE x \notin FeedHits /\ Ahead(x)
    <3>1. CASE \E i \in DOMAIN hits : hits[i] = Entry(x)
      <4>1. Entry(x) \in es
        BY <1>7, <3>1
      <4> QED BY <2>1, <4>1 DEF Covered
    <3>2. CASE /\ Len(hits) = query.limit + 1
               /\ \A i \in DOMAIN hits : Precedes(hits[i].place, Place(table, x))
      <4>1. Range(hits) \in SUBSET es
        OBVIOUS
      <4>2. Cardinality(Range(hits)) > query.limit
        BY <1>7, <1>11, <3>2
      <4>3. \A k \in Range(hits) : Precedes(k.place, Place(table, x))
        BY <1>7, <3>2
      <4> HIDE DEF es
      <4> QED BY <4>1, <4>2, <4>3 DEF Covered
    <3> QED BY <1>2, <1>4, <2>5, <3>1, <3>2
  <2> QED BY <1>1, <2>2, <2>3, <2>4, <2>5 DEF PagesIInv, NothingLost, StillDue
<1> HIDE DEF es
<1> QED BY <1>1, <1>5, <1>9, <1>10, <1>12, AnswerKeeps

-----------------------------------------------------------------------------
(* Copies *)

\* CopiesGuids
LEMMA CopiesGuidsStep ==
    ASSUME PagesIInv, CopiesGuids
    PROVE  PagesIInv'
<1> DEFINE S == {x \in Rows : table[x] # None}
           w == [walk EXCEPT !.step = "records", !.only = S]
<1>1. /\ query.route = "copies" /\ walk.step = "request" /\ Reads /\ given' = given
      /\ walk' = w
  BY DEF CopiesGuids, At
<1>2. /\ S \in SUBSET Rows /\ \A x \in stable : x \in S
      /\ Cardinality(S) <= Cardinality(Rows) /\ Cardinality(S) \in Nat /\ "records" \in Steps
      /\ Cardinality(Rows) \in Nat
  <2>1. S \in SUBSET Rows /\ \A x \in stable : x \in S
    BY StableParts
  <2>2. IsFiniteSet(Rows)
    BY PagesAssumption
  <2> HIDE DEF S
  <2>3. Cardinality(S) <= Cardinality(Rows) /\ Cardinality(S) \in Nat /\ Cardinality(Rows) \in Nat
    BY <2>1, <2>2, FS_Subset, FS_CardinalityType
  <2> QED BY <2>1, <2>3 DEF Steps
<1> HIDE DEF S
<1>3. /\ walk \in [step : Steps, at : Places \cup {None}, only : SUBSET Rows,
                   todo : Seq(Entries), kept : Seq(Entries), seen : 0..(ScanMax - 1),
                   end : BOOLEAN]
      /\ walk.kept = <<>>
  BY <1>1 DEF PagesIInv, TypeOK, StepsOfRoute
<1>4. /\ w \in [step : Steps, at : Places \cup {None}, only : SUBSET Rows,
                todo : Seq(Entries), kept : Seq(Entries), seen : 0..(ScanMax - 1),
                end : BOOLEAN]
      /\ w.step = "records" /\ w.only = S /\ w.at = walk.at /\ w.todo = walk.todo
      /\ w.kept = <<>> /\ w.end = walk.end
  BY <1>2, <1>3
<1> HIDE DEF w
<1>5. Len(w.kept) = 0 /\ DOMAIN w.kept = {}
  BY <1>4
<1>6. StepsOfRoute' /\ KeptHits'
  BY <1>1, <1>4, ReadsKeep DEF PagesIInv, StepsOfRoute, KeptHits
<1>7. RecordsAreOnce'
  <2>1. walk'.kept = w.kept /\ walk'.only = S
    BY <1>1, <1>4
  <2>2. Len(w.kept) + Cardinality(S) <= Cardinality(Rows)
    BY <1>2, <1>5
  <2>3. Len(walk'.kept) + Cardinality(walk'.only) <= Cardinality(Rows)
    BY <2>1, <2>2
  <2> QED BY <2>3 DEF RecordsAreOnce
<1>8. \A x \in stable : Found(x) \/ StillDue(x)'
  <2> SUFFICES ASSUME NEW x \in stable, ~Found(x) PROVE StillDue(x)'
    OBVIOUS
  <2>1. Ahead(x) /\ x \in Rows
    BY <1>1, StableParts DEF PagesIInv, NothingLost, StillDue
  <2>2. Ahead(x)'
    BY <1>1, <1>4, <2>1, ReadsKeep DEF Ahead
  <2> QED BY <1>1, <1>2, <1>4, <2>2, ReadsKeep DEF StillDue
<1>9. Len(w.kept) <= (IF query.route = "copies" THEN Cardinality(Rows) ELSE query.limit + 1)
  BY <1>1, <1>2, <1>5
<1>10. \A i \in DOMAIN w.kept : Tied(w.kept[i])
  BY <1>5
<1> QED BY <1>1, <1>4, <1>6, <1>7, <1>8, <1>9, <1>10, WithinRequest

\* CopiesRecord
LEMMA CopiesRecordStep ==
    ASSUME PagesIInv, NEW y \in Rows, CopiesRecord(y)
    PROVE  PagesIInv'
<1>1. /\ query.route = "copies" /\ walk.step = "records" /\ Reads /\ given' = given
      /\ y \in walk.only
      /\ walk' = [walk EXCEPT !.only = @ \ {y},
                     !.kept = IF Matches(table, now, y) THEN Append(@, Entry(y)) ELSE @]
  BY DEF CopiesRecord, At
<1>a. PICK k : k = IF Matches(table, now, y) THEN Append(walk.kept, Entry(y)) ELSE walk.kept
  OBVIOUS
<1> DEFINE w == [walk EXCEPT !.only = walk.only \ {y}, !.kept = k]
<1>2. walk' = w
  BY <1>1, <1>a
<1>3. /\ walk \in [step : Steps, at : Places \cup {None}, only : SUBSET Rows,
                   todo : Seq(Entries), kept : Seq(Entries), seen : 0..(ScanMax - 1),
                   end : BOOLEAN]
      /\ Len(walk.kept) \in Nat
      /\ Len(walk.kept) + Cardinality(walk.only) <= Cardinality(Rows)
      /\ \A i \in DOMAIN walk.kept : Tied(walk.kept[i])
  BY <1>1 DEF PagesIInv, TypeOK, RecordsAreOnce, EntriesAreTied
<1>4. /\ k \in Seq(Entries) /\ Len(k) \in Nat /\ Len(k) <= Len(walk.kept) + 1
      /\ \A i \in DOMAIN k : Tied(k[i])
      /\ \A i \in DOMAIN walk.kept : i \in DOMAIN k /\ k[i] = walk.kept[i]
      /\ Matches(table, now, y) => \E i \in DOMAIN k : k[i] = Entry(y)
  <2>0. walk.kept \in Seq(Entries) /\ DOMAIN walk.kept = 1..Len(walk.kept)
    BY <1>3
  <2>1. CASE Matches(table, now, y)
    <3>1. table[y] # None
      BY <2>1 DEF Matches
    <3>2. Entry(y) \in Entries /\ Tied(Entry(y))
      BY <3>1, EntryParts DEF PagesIInv
    <3>3. k = Append(walk.kept, Entry(y))
      BY <1>a, <2>1
    <3>4. /\ k \in Seq(Entries) /\ Len(k) = Len(walk.kept) + 1 /\ DOMAIN k = 1..(Len(walk.kept) + 1)
          /\ k[Len(walk.kept) + 1] = Entry(y)
          /\ \A i \in 1..Len(walk.kept) : k[i] = walk.kept[i]
      BY <1>3, <2>0, <3>2, <3>3
    <3>5. \A i \in DOMAIN k : i \in 1..Len(walk.kept) \/ i = Len(walk.kept) + 1
      BY <1>3, <3>4
    <3>6. \A i \in DOMAIN k : Tied(k[i])
      BY <1>3, <2>0, <3>2, <3>4, <3>5
    <3>7. Len(walk.kept) + 1 \in DOMAIN k /\ \A i \in 1..Len(walk.kept) : i \in DOMAIN k
      BY <1>3, <3>4
    <3> QED BY <1>3, <2>0, <3>4, <3>6, <3>7
  <2>2. CASE ~Matches(table, now, y)
    BY <1>3, <1>a, <2>0, <2>2
  <2> QED BY <2>1, <2>2
<1>5. /\ w \in [step : Steps, at : Places \cup {None}, only : SUBSET Rows,
                todo : Seq(Entries), kept : Seq(Entries), seen : 0..(ScanMax - 1),
                end : BOOLEAN]
      /\ w.step = "records" /\ w.only = walk.only \ {y} /\ w.at = walk.at /\ w.todo = walk.todo
      /\ w.kept = k /\ w.end = walk.end
  BY <1>1, <1>3, <1>4
<1> HIDE DEF w
<1>6. Len(k) + Cardinality(walk.only \ {y}) <= Cardinality(Rows) /\ Len(k) <= Cardinality(Rows)
  <2>1. IsFiniteSet(walk.only) /\ Cardinality(Rows) \in Nat
    BY <1>3, PagesAssumption, FS_Subset, FS_CardinalityType
  <2>2. Cardinality(walk.only \ {y}) = Cardinality(walk.only) - 1
    BY <1>1, <2>1, FS_RemoveElement
  <2>3. Cardinality(walk.only) \in Nat /\ Cardinality(walk.only \ {y}) \in Nat
    <3>1. IsFiniteSet(walk.only \ {y})
      BY <2>1, FS_RemoveElement
    <3> QED BY <2>1, <3>1, FS_CardinalityType
  <2> QED BY <1>3, <1>4, <2>1, <2>2, <2>3
<1>7. StepsOfRoute' /\ KeptHits'
  BY <1>1, <1>2, <1>5, ReadsKeep DEF PagesIInv, StepsOfRoute, KeptHits
<1>8. RecordsAreOnce'
  BY <1>2, <1>5, <1>6 DEF RecordsAreOnce
<1>9. \A x \in stable : Found(x) \/ StillDue(x)'
  <2> SUFFICES ASSUME NEW x \in stable, ~Found(x) PROVE StillDue(x)'
    OBVIOUS
  <2>1. Ahead(x) /\ x \in Rows /\ (x \in walk.only \/ InKept(x)) /\ Matches(table, now, x)
    BY <1>1, StableParts DEF PagesIInv, NothingLost, StillDue
  <2>2. Ahead(x)'
    BY <1>1, <1>2, <1>5, <2>1, ReadsKeep DEF Ahead
  <2>3. x \in walk.only \ {y} \/ \E i \in DOMAIN k : k[i] = Entry(x)
    BY <1>4, <2>1 DEF InKept
  <2>4. x \in walk'.only \/ InKept(x)'
    BY <1>1, <1>2, <1>5, <2>1, <2>3, ReadsKeep DEF InKept
  <2> QED BY <1>1, <1>2, <1>5, <2>2, <2>4, ReadsKeep DEF StillDue
<1> QED BY <1>1, <1>2, <1>4, <1>5, <1>6, <1>7, <1>8, <1>9, WithinRequest

\* CopiesPage
LEMMA CopiesPageStep ==
    ASSUME PagesIInv, CopiesPage
    PROVE  PagesIInv'
<1> DEFINE es == {e \in Range(walk.kept) : After(e.place, walk.at)}
<1>1. /\ query.route = "copies" /\ walk.step = "records" /\ Reads /\ walk.only = {}
      /\ \E rows \in Orders(es) : Answer(rows)
  BY DEF CopiesPage, At
<1>2. walk.kept \in Seq(Entries) /\ \A i \in DOMAIN walk.kept : Tied(walk.kept[i])
  BY DEF PagesIInv, TypeOK, EntriesAreTied
<1>3. /\ Range(walk.kept) \in SUBSET Entries /\ IsFiniteSet(Range(walk.kept))
      /\ \A i \in DOMAIN walk.kept : walk.kept[i] \in Range(walk.kept)
      /\ \A e \in Range(walk.kept) : \E i \in DOMAIN walk.kept : e = walk.kept[i]
  BY <1>2, RangeParts
<1>4. es \in SUBSET Entries /\ IsFiniteSet(es)
  BY <1>3, FS_Subset
<1>5. \A e \in es : Tied(e) /\ After(e.place, walk.at)
  BY <1>2, <1>3
<1>6. ASSUME NEW x \in stable PROVE Covered(x, es)
  <2>0. Entry(x) \in Entries /\ Tied(Entry(x)) /\ Entry(x).place = Place(table, x)
    BY StableParts
  <2>1. \A e \in es : e # Entry(x) => e.place # Place(table, x)
    BY <1>1, <1>4, <1>5, <2>0, PlaceNamesRow
  <2>2. CASE Found(x)
    BY <2>2 DEF Covered
  <2>3. CASE Ahead(x) /\ InKept(x)
    <3>1. Entry(x) \in es
      BY <1>3, <2>0, <2>3 DEF InKept, Ahead
    <3> QED BY <2>1, <3>1 DEF Covered
  <2> QED BY <1>1, <2>2, <2>3 DEF PagesIInv, NothingLost, StillDue
<1> HIDE DEF es
<1> QED BY <1>1, <1>4, <1>5, <1>6, AnswerKeeps

-----------------------------------------------------------------------------
(* The filtered route *)

\* The requests that a walk may be in
Walks == [step : Steps, at : Places \cup {None}, only : SUBSET Rows, todo : Seq(Entries),
          kept : Seq(Entries), seen : 0..(ScanMax - 1), end : BOOLEAN]

\* What the invariant says of a filtered request under way
LEMMA ScanParts ==
    ASSUME PagesIInv, query.route = "filtered", walk.step = "request"
    PROVE  /\ walk \in Walks /\ given \in Seq(Entries)
           /\ query.limit \in Nat \ {0} /\ Batch \in Nat \ {0} /\ ScanMax \in Nat \ {0}
           /\ Len(walk.todo) <= Batch /\ Len(walk.kept) <= query.limit
           /\ \A i \in DOMAIN given : Tied(given[i])
           /\ \A i \in DOMAIN walk.kept : Tied(walk.kept[i])
           /\ \A i \in DOMAIN walk.todo : Tied(walk.todo[i])
           /\ Forward(given)
           /\ walk.at = None => given = <<>>
           /\ walk.at # None => \A i \in DOMAIN given : Upto(given[i].place, walk.at)
           /\ Rising(walk.kept) /\ Rising(walk.todo)
           /\ \A i \in DOMAIN given, j \in DOMAIN walk.kept :
                Precedes(given[i].place, walk.kept[j].place)
           /\ walk.kept # <<>> => walk.at # None
           /\ \A i \in DOMAIN walk.kept : Upto(walk.kept[i].place, walk.at)
           /\ \A i \in DOMAIN walk.todo : After(walk.todo[i].place, walk.at)
           /\ \A x \in stable : Found(x) \/ StillDue(x)
<1>1. /\ walk \in Walks /\ given \in Seq(Entries) /\ Len(walk.todo) <= Batch
      /\ query.limit \in Nat \ {0} /\ Batch \in Nat \ {0} /\ ScanMax \in Nat \ {0}
  BY LimitParts, PagesAssumption DEF PagesIInv, TypeOK, Walks
<1>2. /\ \A i \in DOMAIN given : Tied(given[i])
      /\ \A i \in DOMAIN walk.kept : Tied(walk.kept[i])
      /\ \A i \in DOMAIN walk.todo : Tied(walk.todo[i])
      /\ Forward(given)
  BY DEF PagesIInv, EntriesAreTied, PagesGoForward, Forward
<1>3. /\ walk.at = None => given = <<>>
      /\ walk.at # None => \A i \in DOMAIN given : Upto(given[i].place, walk.at)
  BY DEF PagesIInv, GivenIsBehind
<1>4. /\ Rising(walk.kept) /\ Rising(walk.todo) /\ Len(walk.kept) <= query.limit
      /\ \A i \in DOMAIN given, j \in DOMAIN walk.kept :
           Precedes(given[i].place, walk.kept[j].place)
      /\ walk.kept # <<>> => walk.at # None
      /\ \A i \in DOMAIN walk.kept : Upto(walk.kept[i].place, walk.at)
      /\ \A i \in DOMAIN walk.todo : After(walk.todo[i].place, walk.at)
  BY DEF PagesIInv, ScanIsOrdered
<1>5. \A x \in stable : Found(x) \/ StillDue(x)
  BY DEF PagesIInv, NothingLost
<1> QED BY <1>1, <1>2, <1>3, <1>4, <1>5

\* A step of a filtered request keeps the invariant when the next request w and
\* the rows g given by then are in order and leave no stable row behind
LEMMA ScanKeeps ==
    ASSUME PagesIInv, query.route = "filtered", Reads,
           NEW w \in Walks, walk' = w, NEW g \in Seq(Entries), given' = g,
           w.step \in {"request", "done"},
           Len(w.todo) <= Batch, Len(w.kept) <= query.limit,
           \A i \in DOMAIN g : Tied(g[i]),
           \A i \in DOMAIN w.kept : Tied(w.kept[i]),
           \A i \in DOMAIN w.todo : Tied(w.todo[i]),
           Forward(g),
           w.step # "done" =>
             /\ w.at = None => g = <<>>
             /\ w.at # None => \A i \in DOMAIN g : Upto(g[i].place, w.at)
             /\ Rising(w.kept) /\ Rising(w.todo)
             /\ \A i \in DOMAIN g, j \in DOMAIN w.kept : Precedes(g[i].place, w.kept[j].place)
             /\ w.kept # <<>> => w.at # None
             /\ \A i \in DOMAIN w.kept : Upto(w.kept[i].place, w.at)
             /\ \A i \in DOMAIN w.todo : After(w.todo[i].place, w.at),
           \A x \in stable :
             \/ \E i \in DOMAIN g : g[i].row = x
             \/ /\ w.step # "done"
                /\ \/ \E i \in DOMAIN w.kept : w.kept[i] = Entry(x)
                   \/ \E i \in DOMAIN w.todo : w.todo[i] = Entry(x)
                   \/ /\ After(Place(table, x), w.at) /\ ~w.end
                      /\ \A i \in DOMAIN w.todo : Precedes(w.todo[i].place, Place(table, x))
    PROVE  PagesIInv'
<1>0. query.limit \in Nat \ {0}
  BY LimitParts DEF PagesIInv
<1>1. TypeOK'
  <2>1. Len(w.kept) \in Nat
    BY DEF Walks
  <2>2. Len(w.kept) <= (IF query.route = "copies" THEN Cardinality(Rows) ELSE query.limit + 1)
    BY <1>0, <2>1
  <2> QED BY <2>2, ReadTypes DEF Walks
<1>2. EntriesAreTied'
  BY ReadsKeep DEF EntriesAreTied
<1>3. PagesGoForward'
  BY ReadsKeep DEF PagesGoForward, Forward
<1>4. GivenIsBehind'
  BY ReadsKeep DEF GivenIsBehind, Upto
<1>5. StepsOfRoute' /\ KeptHits' /\ RecordsAreOnce'
  BY ReadsKeep DEF StepsOfRoute, KeptHits, RecordsAreOnce
<1>6. ScanIsOrdered'
  BY ReadsKeep DEF ScanIsOrdered, Upto, Rising
<1>7. NothingLost'
  <2> SUFFICES ASSUME NEW x \in stable PROVE Found(x)' \/ (w.step # "done" /\ StillDue(x)')
    BY ReadsKeep DEF NothingLost
  <2>1. x \in Rows
    BY StableParts
  <2>2. Entry(x)' = Entry(x) /\ Place(table, x)' = Place(table, x)
    BY <2>1, ReadsKeep
  <2> QED BY <2>2, ReadsKeep DEF Found, StillDue, InKept, InTodo, Ahead
<1> QED BY <1>1, <1>2, <1>3, <1>4, <1>5, <1>6, <1>7, ReadsKeep DEF PagesIInv

\* A page of rows kept, in order and after what was given, joins the rows given
LEMMA PageIsGiven ==
    ASSUME PagesIInv, query.route = "filtered", walk.step = "request",
           NEW page \in Seq(Entries), Rising(page), \A i \in DOMAIN page : Tied(page[i]),
           \A i \in DOMAIN given, j \in DOMAIN page : Precedes(given[i].place, page[j].place)
    PROVE  /\ given \o page \in Seq(Entries) /\ Forward(given \o page)
           /\ \A i \in DOMAIN (given \o page) : Tied((given \o page)[i])
           /\ \A x : Found(x) => \E i \in DOMAIN (given \o page) : (given \o page)[i].row = x
           /\ \A i \in DOMAIN page :
                \E j \in DOMAIN (given \o page) : (given \o page)[j] = page[i]
           /\ \A i \in DOMAIN (given \o page) :
                \/ \E j \in DOMAIN given : (given \o page)[i] = given[j]
                \/ \E j \in DOMAIN page : (given \o page)[i] = page[j]
<1>1. given \in Seq(Entries) /\ Forward(given) /\ \A i \in DOMAIN given : Tied(given[i])
  BY ScanParts
<1>2. PICK g : g = given \o page
  OBVIOUS
<1>3. /\ Len(given) \in Nat /\ Len(page) \in Nat /\ DOMAIN given = 1..Len(given)
      /\ DOMAIN page = 1..Len(page) /\ g \in Seq(Entries)
      /\ DOMAIN g = 1..(Len(given) + Len(page))
  BY <1>1, <1>2
<1>4. \A i \in DOMAIN given : i \in DOMAIN g /\ g[i] = given[i]
  BY <1>1, <1>2, <1>3
<1>5. \A i \in DOMAIN page : Len(given) + i \in DOMAIN g /\ g[Len(given) + i] = page[i]
  BY <1>1, <1>2, <1>3
<1>6. ASSUME NEW i \in DOMAIN g
      PROVE  (\E j \in DOMAIN given : g[i] = given[j]) \/ (\E j \in DOMAIN page : g[i] = page[j])
  <2>1. CASE i \in DOMAIN given
    BY <1>4, <2>1
  <2>2. CASE i \notin DOMAIN given
    <3>1. i - Len(given) \in DOMAIN page /\ Len(given) + (i - Len(given)) = i
      BY <1>3, <2>2
    <3> QED BY <1>5, <3>1
  <2> QED BY <2>1, <2>2
<1>7. Forward(g)
  BY <1>1, <1>2, ForwardAppend, RisingForward
<1>8. \A i \in DOMAIN g : Tied(g[i])
  BY <1>1, <1>6
<1>9. \A x : Found(x) => \E i \in DOMAIN g : g[i].row = x
  BY <1>4 DEF Found
<1>10. \A i \in DOMAIN page : \E j \in DOMAIN g : g[j] = page[i]
  BY <1>5
<1> QED BY <1>2, <1>3, <1>6, <1>7, <1>8, <1>9, <1>10

\* FilterBatch
LEMMA FilterBatchStep ==
    ASSUME PagesIInv, FilterBatch
    PROVE  PagesIInv'
<1>1. /\ query.route = "filtered" /\ walk.step = "request" /\ walk.todo = <<>> /\ ~walk.end
      /\ Reads /\ given' = given
  BY DEF FilterBatch, At
<1>2. PICK rows \in Orders(Select(Rows, walk.at)) :
        walk' = [walk EXCEPT !.todo = First(rows, Batch), !.end = Len(rows) < Batch]
  BY DEF FilterBatch
<1>3. PICK es : es = Select(Rows, walk.at)
  OBVIOUS
<1>4. PICK t : t = First(rows, Batch)
  OBVIOUS
<1>5. PICK b \in BOOLEAN : b = (Len(rows) < Batch)
  <2>1. (Len(rows) < Batch) \in BOOLEAN
    OBVIOUS
  <2> QED BY <2>1, Zenon
<1>6. /\ walk \in Walks /\ given \in Seq(Entries) /\ Batch \in Nat \ {0}
      /\ walk.kept \in Seq(Entries) /\ Len(walk.kept) <= query.limit
  BY <1>1, ScanParts DEF Walks
<1>7. /\ es \in SUBSET Entries /\ IsFiniteSet(es)
      /\ \A e \in es : Tied(e) /\ After(e.place, walk.at)
      /\ \A x \in Rows : table[x] # None /\ After(Place(table, x), walk.at) => Entry(x) \in es
  BY <1>3, SelectParts DEF PagesIInv
<1>8. /\ rows \in Seq(es) /\ Len(rows) \in Nat
      /\ \A e \in es : \E i \in 1..Len(rows) : rows[i] = e
  BY <1>2, <1>3, <1>7, OrdersParts
<1>9. rows \in Seq(Entries) /\ \A i \in 1..Len(rows) : rows[i] \in es
  BY <1>7, <1>8
<1>10. Rising(rows)
  BY <1>1, <1>2, <1>3, <1>7, OrderRises
<1>11. /\ t \in Seq(Entries) /\ Len(t) \in Nat
       /\ Len(t) = (IF Len(rows) < Batch THEN Len(rows) ELSE Batch)
       /\ DOMAIN t = 1..Len(t) /\ \A i \in 1..Len(t) : t[i] = rows[i] /\ i \in 1..Len(rows)
  <2>1. Batch \in Nat /\ rows \in Seq(Entries)
    BY <1>6, <1>9
  <2> QED BY <1>4, <2>1, FirstParts
<1>12. Rising(t) /\ Len(t) <= Batch
  <2>1. Rising(t)
    BY <1>4, <1>6, <1>9, <1>10, FirstRises
  <2> QED BY <1>6, <1>8, <1>11, <2>1
<1>13. \A i \in DOMAIN t : Tied(t[i]) /\ After(t[i].place, walk.at)
  BY <1>7, <1>9, <1>11
<1>14. PICK w : w = [walk EXCEPT !.todo = t, !.end = b]
  OBVIOUS
<1>15. walk' = w
  BY <1>2, <1>4, <1>5, <1>14
<1>16. /\ w \in Walks /\ w.todo = t /\ w.end = b /\ w.kept = walk.kept /\ w.at = walk.at
       /\ w.step = "request"
  <2>1. b \in BOOLEAN /\ t \in Seq(Entries)
    BY <1>5, <1>11
  <2> QED BY <1>1, <1>6, <1>14, <2>1 DEF Walks
<1>17. ASSUME NEW x \in stable, ~Found(x)
       PROVE  \/ \E i \in DOMAIN walk.kept : walk.kept[i] = Entry(x)
              \/ \E i \in DOMAIN t : t[i] = Entry(x)
              \/ /\ After(Place(table, x), walk.at) /\ ~b
                 /\ \A i \in DOMAIN t : Precedes(t[i].place, Place(table, x))
  <2>1. StillDue(x)
    BY <1>1, <1>17, ScanParts
  <2>2. InKept(x) \/ Ahead(x)
    BY <1>1, <2>1 DEF StillDue, InTodo
  <2>3. CASE InKept(x)
    BY <2>3 DEF InKept
  <2>4. CASE Ahead(x)
    <3>1. x \in Rows /\ table[x] # None /\ Entry(x).place = Place(table, x)
      BY StableParts
    <3>2. Entry(x) \in es
      BY <1>7, <2>4, <3>1 DEF Ahead
    <3>3. PICK i \in 1..Len(rows) : rows[i] = Entry(x)
      BY <1>8, <3>2
    <3>4. CASE i \in DOMAIN t
      BY <1>11, <3>3, <3>4
    <3>5. CASE i \notin DOMAIN t
      <4>0. ~(Len(rows) < Batch) /\ \A j \in DOMAIN t : j < i /\ j \in 1..Len(rows)
        BY <1>6, <1>8, <1>11, <3>3, <3>5
      <4>1. ~b /\ \A j \in DOMAIN t : j < i /\ j \in 1..Len(rows)
        BY <1>5, <4>0, Zenon
      <4>2. DOMAIN rows = 1..Len(rows)
        BY <1>9
      <4>3. \A j \in DOMAIN t : Precedes(t[j].place, Place(table, x))
        BY <1>10, <1>11, <3>1, <3>3, <4>1, <4>2 DEF Rising
      <4> QED BY <2>4, <4>1, <4>3 DEF Ahead
    <3> QED BY <3>4, <3>5
  <2> QED BY <2>2, <2>3, <2>4
<1>18. \A x \in stable : Found(x) => \E i \in DOMAIN given : given[i].row = x
  BY DEF Found
<1> QED
  <2>1. /\ \A i \in DOMAIN given : Tied(given[i])
        /\ \A i \in DOMAIN walk.kept : Tied(walk.kept[i])
        /\ Forward(given)
        /\ walk.at = None => given = <<>>
        /\ walk.at # None => \A i \in DOMAIN given : Upto(given[i].place, walk.at)
        /\ Rising(walk.kept)
        /\ \A i \in DOMAIN given, j \in DOMAIN walk.kept :
             Precedes(given[i].place, walk.kept[j].place)
        /\ walk.kept # <<>> => walk.at # None
        /\ \A i \in DOMAIN walk.kept : Upto(walk.kept[i].place, walk.at)
    BY <1>1, ScanParts
  <2> QED BY <1>1, <1>6, <1>12, <1>13, <1>15, <1>16, <1>17, <1>18, <2>1, ScanKeeps

\* FilterEnd
LEMMA FilterEndStep ==
    ASSUME PagesIInv, FilterEnd
    PROVE  PagesIInv'
<1>1. /\ query.route = "filtered" /\ walk.step = "request" /\ walk.todo = <<>> /\ walk.end
      /\ Reads /\ given' = given \o walk.kept /\ walk' = Done
  BY DEF FilterEnd, At
<1>2. /\ walk \in Walks /\ walk.kept \in Seq(Entries) /\ Batch \in Nat
      /\ query.limit \in Nat \ {0} /\ Rising(walk.kept)
      /\ \A i \in DOMAIN walk.kept : Tied(walk.kept[i])
      /\ \A i \in DOMAIN given, j \in DOMAIN walk.kept :
           Precedes(given[i].place, walk.kept[j].place)
  BY <1>1, ScanParts DEF Walks
<1>3. PICK g : g = given \o walk.kept
  OBVIOUS
<1>4. /\ g \in Seq(Entries) /\ Forward(g) /\ \A i \in DOMAIN g : Tied(g[i])
      /\ \A x : Found(x) => \E i \in DOMAIN g : g[i].row = x
      /\ \A i \in DOMAIN walk.kept : \E j \in DOMAIN g : g[j] = walk.kept[i]
  BY <1>1, <1>2, <1>3, PageIsGiven
<1>5. /\ Done \in Walks /\ Done.step = "done" /\ Done.todo = <<>> /\ Done.kept = <<>>
  <2>1. None \in Places \cup {None}
    OBVIOUS
  <2> QED BY <2>1, RequestParts DEF Walks
<1>6. ASSUME NEW x \in stable PROVE \E i \in DOMAIN g : g[i].row = x
  <2>1. Found(x) \/ InKept(x)
    BY <1>1, ScanParts DEF StillDue, InTodo
  <2>2. Entry(x).row = x
    BY StableParts
  <2> QED BY <1>4, <2>1, <2>2 DEF InKept
<1>7. Len(<<>>) = 0 /\ DOMAIN <<>> = {}
  OBVIOUS
<1>8. PICK w : w = Done
  OBVIOUS
<1>9. /\ w \in Walks /\ w.step = "done" /\ Len(w.todo) <= Batch /\ Len(w.kept) <= query.limit
      /\ DOMAIN w.kept = {} /\ DOMAIN w.todo = {}
  BY <1>2, <1>5, <1>7, <1>8
<1>10. walk' = w /\ given' = g
  BY <1>1, <1>3, <1>8
<1> QED BY <1>1, <1>4, <1>6, <1>9, <1>10, ScanKeeps

\* The rows kept with e, when the filter keeps it
KeptWith(e) == IF KeepsFacts(e.row) THEN Append(walk.kept, e) ELSE walk.kept

\* The rows kept once the first row of the batch is examined: in order, after the
\* rows given, up to that row, and with it when it is stable
LEMMA ExaminedRow ==
    ASSUME PagesIInv, query.route = "filtered", walk.step = "request", walk.todo # <<>>,
           NEW e, e = Head(walk.todo),
           NEW k, k = KeptWith(e)
    PROVE  /\ e \in Entries /\ Tied(e) /\ e.place \in Places /\ e = walk.todo[1]
           /\ k \in Seq(Entries) /\ Len(k) \in Nat /\ DOMAIN k = 1..Len(k) /\ Rising(k)
           /\ Len(k) <= query.limit + 1
           /\ \A i \in DOMAIN walk.kept : i \in DOMAIN k /\ k[i] = walk.kept[i]
           /\ \A i \in DOMAIN k : i \in DOMAIN walk.kept \/ (i = Len(k) /\ k[i] = e)
           /\ \A i \in DOMAIN k : Tied(k[i]) /\ Upto(k[i].place, e.place)
           /\ \A i \in DOMAIN given, j \in DOMAIN k : Precedes(given[i].place, k[j].place)
           /\ \A i \in DOMAIN given : Upto(given[i].place, e.place)
           /\ \A i \in DOMAIN walk.kept : Precedes(walk.kept[i].place, e.place)
           /\ \A x \in stable : Entry(x) = e => \E i \in DOMAIN k : k[i] = e
<1>1. /\ walk.kept \in Seq(Entries) /\ walk.todo \in Seq(Entries) /\ given \in Seq(Entries)
      /\ walk.at \in Places \cup {None} /\ query.limit \in Nat \ {0}
  BY ScanParts DEF Walks
<1>2. 1 \in DOMAIN walk.todo /\ e = walk.todo[1] /\ e \in Entries
  BY <1>1
<1>3. Tied(e) /\ After(e.place, walk.at) /\ e.place \in Places
  BY <1>2, ScanParts DEF Entries
<1>4. walk.at # None => Precedes(walk.at, e.place)
  BY <1>1, <1>3, AfterParts
<1>5. ASSUME NEW i \in DOMAIN walk.kept PROVE Precedes(walk.kept[i].place, e.place)
  <2>1. walk.kept[i] \in Entries /\ walk.kept # <<>>
    BY <1>1
  <2>2. walk.kept[i].place \in Places /\ walk.at # None
    BY <2>1, ScanParts DEF Entries
  <2>3. Upto(walk.kept[i].place, walk.at)
    BY ScanParts
  <2> QED BY <1>1, <1>3, <1>4, <2>2, <2>3, UptoParts
<1>6. ASSUME NEW i \in DOMAIN given PROVE Precedes(given[i].place, e.place)
  <2>1. given[i] \in Entries /\ given # <<>>
    BY <1>1
  <2>2. given[i].place \in Places /\ walk.at # None
    BY <2>1, ScanParts DEF Entries
  <2>3. Upto(given[i].place, walk.at)
    BY <2>2, ScanParts
  <2> QED BY <1>1, <1>3, <1>4, <2>2, <2>3, UptoParts
<1>7. /\ Rising(walk.kept) /\ Len(walk.kept) <= query.limit
      /\ \A i \in DOMAIN walk.kept : Tied(walk.kept[i])
      /\ \A i \in DOMAIN given, j \in DOMAIN walk.kept :
           Precedes(given[i].place, walk.kept[j].place)
  BY ScanParts
<1>8. Len(walk.kept) \in Nat /\ DOMAIN walk.kept = 1..Len(walk.kept)
  BY <1>1
<1>9. /\ k \in Seq(Entries) /\ Len(k) \in Nat /\ DOMAIN k = 1..Len(k) /\ Len(k) <= query.limit + 1
      /\ \A i \in DOMAIN walk.kept : i \in DOMAIN k /\ k[i] = walk.kept[i]
      /\ \A i \in DOMAIN k : i \in DOMAIN walk.kept \/ (i = Len(k) /\ k[i] = e)
      /\ KeepsFacts(e.row) => \E i \in DOMAIN k : k[i] = e
  <2>1. CASE KeepsFacts(e.row)
    <3>1. k = Append(walk.kept, e)
      BY <2>1 DEF KeptWith
    <3>2. /\ k \in Seq(Entries) /\ Len(k) = Len(walk.kept) + 1 /\ DOMAIN k = 1..(Len(walk.kept) + 1)
          /\ k[Len(walk.kept) + 1] = e /\ \A i \in 1..Len(walk.kept) : k[i] = walk.kept[i]
      BY <1>1, <1>2, <1>8, <3>1
    <3>3. \A i \in DOMAIN k : i \in 1..Len(walk.kept) \/ i = Len(walk.kept) + 1
      BY <1>8, <3>2
    <3>4. Len(walk.kept) + 1 \in DOMAIN k /\ \A i \in 1..Len(walk.kept) : i \in DOMAIN k
      BY <1>8, <3>2
    <3>5. Len(k) \in Nat /\ Len(k) <= query.limit + 1
      BY <1>1, <1>7, <1>8, <3>2
    <3> QED BY <1>8, <3>2, <3>3, <3>4, <3>5
  <2>2. CASE ~KeepsFacts(e.row)
    <3>1. k = walk.kept
      BY <2>2 DEF KeptWith
    <3> QED BY <1>1, <1>7, <1>8, <2>2, <3>1
  <2> QED BY <2>1, <2>2
<1>10. \A i \in DOMAIN k : Tied(k[i]) /\ Upto(k[i].place, e.place)
  BY <1>3, <1>5, <1>7, <1>9 DEF Upto
<1>11. \A i \in DOMAIN given, j \in DOMAIN k : Precedes(given[i].place, k[j].place)
  BY <1>6, <1>7, <1>9
<1>12. Rising(k)
  <2> SUFFICES ASSUME NEW i \in DOMAIN k, NEW j \in DOMAIN k, i < j
               PROVE  Precedes(k[i].place, k[j].place)
    BY DEF Rising
  <2>1. i # Len(k)
    BY <1>9
  <2>2. i \in DOMAIN walk.kept /\ k[i] = walk.kept[i]
    BY <1>9, <2>1
  <2>3. CASE j \in DOMAIN walk.kept
    BY <1>7, <1>9, <2>2, <2>3 DEF Rising
  <2>4. CASE k[j] = e
    BY <1>5, <2>2, <2>4
  <2> QED BY <1>9, <2>3, <2>4
<1>13. ASSUME NEW x \in stable, Entry(x) = e PROVE KeepsFacts(e.row)
  <2>1. e.row = x /\ table[x] # None /\ Matches(table, now, x)
    BY <1>13, StableParts
  <2> QED BY <2>1 DEF Matches, KeepsFacts
<1> QED BY <1>2, <1>3, <1>5, <1>6, <1>9, <1>10, <1>11, <1>12, <1>13 DEF Upto

\* FilterRow within the scan: the row is examined and the next one comes
LEMMA FilterGoesOn ==
    ASSUME PagesIInv, query.route = "filtered", walk.step = "request", walk.todo # <<>>,
           NEW e, e = Head(walk.todo),
           NEW k, k = KeptWith(e),
           Len(k) <= query.limit, walk.seen + 1 < ScanMax, Reads, given' = given,
           walk' = [walk EXCEPT !.at = e.place, !.todo = Tail(@), !.kept = k,
                                !.seen = walk.seen + 1]
    PROVE  PagesIInv'
<1>1. /\ walk \in Walks /\ walk.todo \in Seq(Entries) /\ given \in Seq(Entries)
      /\ walk.seen \in Nat /\ ScanMax \in Nat /\ Len(walk.todo) <= Batch /\ Batch \in Nat
      /\ \A i \in DOMAIN given : Tied(given[i])
      /\ \A i \in DOMAIN walk.todo : Tied(walk.todo[i])
      /\ Forward(given) /\ Rising(walk.todo)
  BY ScanParts DEF Walks
<1>2. /\ e \in Entries /\ e.place \in Places /\ e = walk.todo[1]
      /\ k \in Seq(Entries) /\ Rising(k)
      /\ \A i \in DOMAIN walk.kept : i \in DOMAIN k /\ k[i] = walk.kept[i]
      /\ \A i \in DOMAIN k : Tied(k[i]) /\ Upto(k[i].place, e.place)
      /\ \A i \in DOMAIN given, j \in DOMAIN k : Precedes(given[i].place, k[j].place)
      /\ \A i \in DOMAIN given : Upto(given[i].place, e.place)
      /\ \A x \in stable : Entry(x) = e => \E i \in DOMAIN k : k[i] = e
  BY ExaminedRow
<1>3. PICK t : t = Tail(walk.todo)
  OBVIOUS
<1>4. /\ t \in Seq(Entries) /\ Len(t) = Len(walk.todo) - 1 /\ DOMAIN t = 1..(Len(walk.todo) - 1)
      /\ Len(walk.todo) \in Nat /\ DOMAIN walk.todo = 1..Len(walk.todo)
      /\ \A i \in DOMAIN t : t[i] = walk.todo[i + 1] /\ i + 1 \in DOMAIN walk.todo
  BY <1>1, <1>3
<1>5. /\ Rising(t) /\ Len(t) <= Batch /\ \A i \in DOMAIN t : Tied(t[i])
      /\ \A i \in DOMAIN t : Precedes(e.place, t[i].place)
  <2>1. \A i, j \in DOMAIN t : i < j => i + 1 < j + 1
    BY <1>4
  <2>2. Rising(t)
    BY <1>1, <1>4, <2>1 DEF Rising
  <2>3. \A i \in DOMAIN t : 1 < i + 1 /\ 1 \in DOMAIN walk.todo
    BY <1>4
  <2>4. \A i \in DOMAIN t : Precedes(e.place, t[i].place)
    BY <1>1, <1>2, <1>4, <2>3 DEF Rising
  <2> QED BY <1>1, <1>4, <2>2, <2>4
<1>6. PICK n : n = walk.seen + 1
  OBVIOUS
<1>7. n \in 0..(ScanMax - 1)
  BY <1>1, <1>6
<1>8. PICK w : w = [walk EXCEPT !.at = e.place, !.todo = t, !.kept = k, !.seen = n]
  OBVIOUS
<1>9. walk' = w
  BY <1>3, <1>6, <1>8
<1>10. /\ w \in Walks /\ w.step = "request" /\ w.at = e.place /\ w.todo = t /\ w.kept = k
       /\ w.end = walk.end
  BY <1>1, <1>2, <1>4, <1>7, <1>8 DEF Walks
<1>11. e.place # None /\ \A i \in DOMAIN t : After(t[i].place, e.place)
  <2>1. \A i \in DOMAIN t : t[i] \in Entries
    BY <1>4
  <2>2. \A i \in DOMAIN t : t[i].place \in Places
    BY <2>1 DEF Entries
  <2> QED BY <1>2, <1>5, <2>2, AfterParts, PlaceIsGiven
<1>12. ASSUME NEW x \in stable, ~Found(x)
       PROVE  \/ \E i \in DOMAIN k : k[i] = Entry(x)
              \/ \E i \in DOMAIN t : t[i] = Entry(x)
              \/ /\ After(Place(table, x), e.place) /\ ~walk.end
                 /\ \A i \in DOMAIN t : Precedes(t[i].place, Place(table, x))
  <2>1. StillDue(x) /\ Place(table, x) \in Places
    BY <1>12, ScanParts, StableParts
  <2>2. CASE InKept(x)
    BY <1>2, <2>2 DEF InKept
  <2>3. CASE InTodo(x)
    <3>1. PICK i \in DOMAIN walk.todo : walk.todo[i] = Entry(x)
      BY <2>3 DEF InTodo
    <3>2. CASE i = 1
      BY <1>2, <3>1, <3>2
    <3>3. CASE i # 1
      <4>1. i - 1 \in DOMAIN t /\ (i - 1) + 1 = i
        BY <1>4, <3>3
      <4> QED BY <1>4, <3>1, <4>1
    <3> QED BY <3>2, <3>3
  <2>4. CASE /\ Ahead(x) /\ ~walk.end
             /\ \A i \in DOMAIN walk.todo : Precedes(walk.todo[i].place, Place(table, x))
    <3>1. 1 \in DOMAIN walk.todo
      BY <1>1
    <3>2. Precedes(e.place, Place(table, x))
      BY <1>2, <2>4, <3>1
    <3> QED BY <1>2, <1>4, <2>1, <2>4, <3>2, AfterParts
  <2> QED BY <2>1, <2>2, <2>3, <2>4 DEF StillDue
<1>13. \A x \in stable : Found(x) => \E i \in DOMAIN given : given[i].row = x
  BY DEF Found
<1> QED BY <1>1, <1>2, <1>5, <1>9, <1>10, <1>11, <1>12, <1>13, ScanKeeps

\* FilterRow at the end of a page: what is kept is given up to the limit, and the
\* next request begins at a place c at or after the rows given and before the
\* stable rows that are still due
LEMMA FilterGives ==
    ASSUME PagesIInv, query.route = "filtered", walk.step = "request",
           NEW page \in Seq(Entries), Rising(page), \A i \in DOMAIN page : Tied(page[i]),
           \A i \in DOMAIN given, j \in DOMAIN page : Precedes(given[i].place, page[j].place),
           NEW c \in Places,
           \A i \in DOMAIN given : Upto(given[i].place, c),
           \A i \in DOMAIN page : Upto(page[i].place, c),
           \A x \in stable : \/ Found(x) \/ \E i \in DOMAIN page : page[i] = Entry(x)
                             \/ Precedes(c, Place(table, x)),
           Reads, given' = given \o page, walk' = Request(c)
    PROVE  PagesIInv'
<1>1. PICK g : g = given \o page
  OBVIOUS
<1>2. /\ g \in Seq(Entries) /\ Forward(g) /\ \A i \in DOMAIN g : Tied(g[i])
      /\ \A x : Found(x) => \E i \in DOMAIN g : g[i].row = x
      /\ \A i \in DOMAIN page : \E j \in DOMAIN g : g[j] = page[i]
      /\ \A i \in DOMAIN g : \/ \E j \in DOMAIN given : g[i] = given[j]
                             \/ \E j \in DOMAIN page : g[i] = page[j]
  BY <1>1, PageIsGiven
<1>3. PICK w : w = Request(c)
  OBVIOUS
<1>4. Batch \in Nat /\ query.limit \in Nat /\ Len(<<>>) = 0
  BY ScanParts
<1>5. /\ w \in Walks /\ w.step = "request" /\ w.at = c /\ w.todo = <<>> /\ w.kept = <<>> /\ ~w.end
  BY <1>3, RequestParts DEF Walks
<1>6. /\ Len(w.todo) <= Batch /\ Len(w.kept) <= query.limit
      /\ DOMAIN w.kept = {} /\ DOMAIN w.todo = {} /\ Rising(w.kept) /\ Rising(w.todo)
  BY <1>4, <1>5 DEF Rising
<1>7. c # None /\ \A i \in DOMAIN g : Upto(g[i].place, c)
  BY <1>2, PlaceIsGiven
<1>8. ASSUME NEW x \in stable
      PROVE  (\E i \in DOMAIN g : g[i].row = x) \/ After(Place(table, x), c)
  <2>1. Entry(x).row = x /\ Place(table, x) \in Places
    BY StableParts
  <2>2. Precedes(c, Place(table, x)) => After(Place(table, x), c)
    BY <2>1, AfterParts
  <2> QED BY <1>2, <2>1, <2>2
<1>9. walk' = w /\ given' = g
  BY <1>1, <1>3
<1> QED BY <1>2, <1>5, <1>6, <1>7, <1>8, <1>9, ScanKeeps

\* FilterRow
LEMMA FilterRowStep ==
    ASSUME PagesIInv, FilterRow
    PROVE  PagesIInv'
<1>1. PICK e : e = Head(walk.todo)
  OBVIOUS
<1>2. PICK k : k = KeptWith(e)
  OBVIOUS
<1>3. PICK page : page = First(k, query.limit)
  OBVIOUS
<1>4. /\ query.route = "filtered" /\ walk.step = "request" /\ walk.todo # <<>> /\ Reads
      /\ IF Len(k) > query.limit \/ ScanIsFull(walk.seen + 1)
         THEN /\ given' = given \o page
              /\ walk' = Request(IF Len(k) > query.limit THEN FullCursor(page, e.place)
                                 ELSE e.place)
         ELSE /\ walk' = [walk EXCEPT !.at = e.place, !.todo = Tail(@), !.kept = k,
                                      !.seen = walk.seen + 1]
              /\ given' = given
  BY <1>1, <1>2, <1>3 DEF FilterRow, At, KeptWith
<1>5. /\ e \in Entries /\ e.place \in Places /\ e = walk.todo[1]
      /\ k \in Seq(Entries) /\ Len(k) \in Nat /\ DOMAIN k = 1..Len(k) /\ Rising(k)
      /\ Len(k) <= query.limit + 1
      /\ \A i \in DOMAIN walk.kept : i \in DOMAIN k /\ k[i] = walk.kept[i]
      /\ \A i \in DOMAIN k : i \in DOMAIN walk.kept \/ (i = Len(k) /\ k[i] = e)
      /\ \A i \in DOMAIN k : Tied(k[i]) /\ Upto(k[i].place, e.place)
      /\ \A i \in DOMAIN given, j \in DOMAIN k : Precedes(given[i].place, k[j].place)
      /\ \A i \in DOMAIN given : Upto(given[i].place, e.place)
      /\ \A i \in DOMAIN walk.kept : Precedes(walk.kept[i].place, e.place)
      /\ \A x \in stable : Entry(x) = e => \E i \in DOMAIN k : k[i] = e
  BY <1>1, <1>2, <1>4, ExaminedRow
<1>6. /\ query.limit \in Nat \ {0} /\ walk \in Walks /\ walk.seen \in Nat /\ ScanMax \in Nat
      /\ walk.kept \in Seq(Entries) /\ walk.todo \in Seq(Entries) /\ Len(walk.kept) <= query.limit
      /\ Rising(walk.todo)
  BY <1>4, ScanParts DEF Walks
<1>7. /\ page \in Seq(Entries) /\ Len(page) = (IF Len(k) < query.limit THEN Len(k) ELSE query.limit)
      /\ DOMAIN page = 1..Len(page) /\ \A i \in 1..Len(page) : page[i] = k[i] /\ i \in 1..Len(k)
      /\ Rising(page)
  <2>1. query.limit \in Nat /\ k \in Seq(Entries) /\ Rising(k)
    BY <1>5, <1>6
  <2>2. Rising(page)
    BY <1>3, <2>1, FirstRises
  <2> QED BY <1>3, <2>1, <2>2, FirstParts
<1>8. /\ \A i \in DOMAIN page : Tied(page[i]) /\ Upto(page[i].place, e.place)
      /\ \A i \in DOMAIN given, j \in DOMAIN page : Precedes(given[i].place, page[j].place)
  BY <1>5, <1>7
<1>9. ASSUME NEW x \in stable, ~Found(x)
      PROVE  \/ \E i \in DOMAIN k : k[i] = Entry(x)
             \/ Precedes(e.place, Place(table, x))
  <2>1. StillDue(x) /\ Entry(x).place = Place(table, x)
    BY <1>4, <1>9, ScanParts, StableParts
  <2>2. 1 \in DOMAIN walk.todo /\ \A i \in DOMAIN walk.todo : i = 1 \/ 1 < i
    BY <1>4, <1>6
  <2>3. CASE InKept(x)
    BY <1>5, <2>3 DEF InKept
  <2>4. CASE InTodo(x)
    BY <1>5, <1>6, <2>1, <2>2, <2>4 DEF InTodo, Rising
  <2>5. CASE \A i \in DOMAIN walk.todo : Precedes(walk.todo[i].place, Place(table, x))
    BY <1>5, <2>2, <2>5
  <2> QED BY <1>4, <2>1, <2>3, <2>4, <2>5 DEF StillDue
<1>10. CASE Len(k) > query.limit
  <2>1. Len(k) = query.limit + 1 /\ Len(page) = query.limit
    BY <1>5, <1>6, <1>7, <1>10
  <2>2. \A i \in DOMAIN page : i \in DOMAIN walk.kept
    <3>1. \A i \in DOMAIN page : i # Len(k) /\ i \in DOMAIN k
      BY <1>5, <1>6, <1>7, <2>1
    <3> QED BY <1>5, <3>1
  <2>3. Len(page) \in DOMAIN page
    BY <1>6, <1>7, <2>1
  <2>4. PICK c : c = page[Len(page)].place
    OBVIOUS
  <2>5. page[Len(page)] \in Entries
    BY <1>7, <2>3
  <2>6. c \in Places
    BY <2>4, <2>5 DEF Entries
  <2>7. \A i \in DOMAIN page : Upto(page[i].place, c)
    <3>1. \A i \in DOMAIN page : i = Len(page) \/ i < Len(page)
      BY <1>6, <1>7, <2>1
    <3> QED BY <1>7, <2>3, <2>4, <3>1 DEF Rising, Upto
  <2>8. Precedes(c, e.place)
    BY <1>5, <1>7, <2>2, <2>3, <2>4
  <2>9. \A i \in DOMAIN given : Upto(given[i].place, c)
    BY <1>8, <2>3, <2>4 DEF Upto
  <2>10. ASSUME NEW x \in stable, ~Found(x)
         PROVE  (\E i \in DOMAIN page : page[i] = Entry(x)) \/ Precedes(c, Place(table, x))
    <3>1. Place(table, x) \in Places /\ Entry(x).place = Place(table, x)
      BY StableParts
    <3>2. CASE Precedes(e.place, Place(table, x))
      BY <1>5, <2>6, <2>8, <3>1, <3>2, Transitive
    <3>3. CASE \E i \in DOMAIN k : k[i] = Entry(x)
      <4>1. PICK i \in DOMAIN k : k[i] = Entry(x)
        BY <3>3
      <4>2. CASE i \in DOMAIN page
        BY <1>7, <4>1, <4>2
      <4>3. CASE i \notin DOMAIN page
        <5>1. i = Len(k)
          BY <1>5, <1>6, <1>7, <2>1, <4>3
        <5>2. Len(k) \notin DOMAIN walk.kept
          BY <1>6, <2>1
        <5>3. k[i] = e
          BY <1>5, <5>1, <5>2
        <5> QED BY <2>8, <3>1, <4>1, <5>3
      <4> QED BY <4>2, <4>3
    <3> QED BY <1>9, <2>10, <3>2, <3>3
  <2>11. given' = given \o page /\ walk' = Request(c)
    BY <1>4, <1>10, <2>4 DEF FullCursor
  <2> QED BY <1>4, <1>7, <1>8, <2>6, <2>7, <2>9, <2>10, <2>11, FilterGives
<1>11. CASE ~(Len(k) > query.limit) /\ ScanIsFull(walk.seen + 1)
  <2>1. Len(page) = Len(k)
    BY <1>5, <1>6, <1>7, <1>11
  <2>2. \A i \in DOMAIN k : i \in DOMAIN page /\ page[i] = k[i]
    BY <1>5, <1>7, <2>1
  <2>3. given' = given \o page /\ walk' = Request(e.place)
    BY <1>4, <1>11
  <2>4. \A x \in stable : \/ Found(x) \/ \E i \in DOMAIN page : page[i] = Entry(x)
                          \/ Precedes(e.place, Place(table, x))
    BY <1>9, <2>2
  <2>5. /\ page \in Seq(Entries) /\ Rising(page) /\ e.place \in Places
        /\ \A i \in DOMAIN page : Tied(page[i])
        /\ \A i \in DOMAIN page : Upto(page[i].place, e.place)
        /\ \A i \in DOMAIN given : Upto(given[i].place, e.place)
    BY <1>5, <1>7, <1>8
  <2> QED BY <1>4, <1>8, <2>3, <2>4, <2>5, FilterGives
<1>12. CASE ~(Len(k) > query.limit) /\ ~ScanIsFull(walk.seen + 1)
  <2>1. Len(k) <= query.limit /\ walk.seen + 1 < ScanMax
    BY <1>5, <1>6, <1>12 DEF ScanIsFull
  <2>2. /\ given' = given
        /\ walk' = [walk EXCEPT !.at = e.place, !.todo = Tail(@), !.kept = k,
                                !.seen = walk.seen + 1]
    BY <1>4, <1>12
  <2> QED BY <1>1, <1>2, <1>4, <2>1, <2>2, FilterGoesOn
<1> QED BY <1>10, <1>11, <1>12

-----------------------------------------------------------------------------
(* Writes and the clock *)

\* A write keeps the invariant when the rows that stay stable are rows it leaves
\* alone, and the rows it leaves are rows of the route
LEMMA WriteKeeps ==
    ASSUME PagesIInv, query' = query, walk' = walk, given' = given, TypeOK', LiveRowsAllowed',
           \A x \in stable' : /\ x \in stable /\ table'[x] = table[x]
                              /\ Matches(table, now, x)' /\ Alone(table, x)'
    PROVE  PagesIInv'
<1>1. Places' = Places /\ Entries' = Entries
  BY DEF Places, Entries
<1>2. \A p, q : Precedes(p, q)' <=> Precedes(p, q)
  BY DEF Precedes
<1>3. \A p, q : After(p, q)' <=> After(p, q)
  BY <1>2 DEF After, Follows
<1>4. \A e : Tied(e)' <=> Tied(e)
  BY DEF Tied
<1>5. EntriesAreTied' /\ PagesGoForward' /\ GivenIsBehind' /\ StepsOfRoute'
  <2>1. EntriesAreTied'
    BY <1>4 DEF PagesIInv, EntriesAreTied
  <2>2. PagesGoForward' /\ GivenIsBehind'
    BY <1>2 DEF PagesIInv, PagesGoForward, GivenIsBehind, Upto
  <2>3. StepsOfRoute'
    BY DEF PagesIInv, StepsOfRoute
  <2> QED BY <2>1, <2>2, <2>3
<1>6. KeptHits' /\ RecordsAreOnce' /\ ScanIsOrdered'
  <2>1. KeptHits' /\ RecordsAreOnce'
    BY <1>2, <1>3 DEF PagesIInv, KeptHits, RecordsAreOnce, Rising
  <2>2. ScanIsOrdered'
    BY <1>2, <1>3 DEF PagesIInv, ScanIsOrdered, Rising, Upto
  <2> QED BY <2>1, <2>2
<1>7. StableRows'
  <2>1. \A x \in stable' : x \in Rows
    BY DEF PagesIInv, StableRows
  <2> QED BY <2>1 DEF StableRows
<1>8. NothingLost'
  <2> SUFFICES ASSUME NEW x \in stable' PROVE Found(x)' \/ (walk'.step # "done" /\ StillDue(x)')
    BY DEF NothingLost
  <2>1. Found(x) \/ (walk.step # "done" /\ StillDue(x))
    BY DEF PagesIInv, NothingLost
  <2>2. Place(table, x)' = Place(table, x)
    BY DEF Place
  <2>3. Entry(x)' = Entry(x)
    BY <2>2 DEF Entry
  <2>4. Found(x)' <=> Found(x)
    BY DEF Found
  <2>5. (InKept(x)' <=> InKept(x)) /\ (InTodo(x)' <=> InTodo(x))
    BY <2>3 DEF InKept, InTodo
  <2>6. (Ahead(x)' <=> Ahead(x)) /\ (Crowded(x)' <=> Crowded(x))
    BY <1>2, <1>3, <2>2 DEF Ahead, Crowded
  <2>7. StillDue(x) => StillDue(x)'
    BY <1>2, <2>2, <2>5, <2>6 DEF StillDue
  <2> QED BY <2>1, <2>4, <2>7
<1> QED BY <1>5, <1>6, <1>7, <1>8 DEF PagesIInv

\* A write leaves the types of the other variables
LEMMA WriteTypes ==
    ASSUME TypeOK, query' = query, walk' = walk, given' = given, stable' \subseteq stable,
           now' \in 0..MaxNow, writes' \in 0..MaxWrites,
           table' \in [Rows -> (IF query.route = "live" THEN LiveItem ELSE RouteRow) \cup {None}]
    PROVE  TypeOK'
<1>1. Places' = Places /\ Entries' = Entries
  BY DEF Places, Entries
<1>2. RouteRow' = RouteRow
  BY DEF RouteRow
<1>3. table' \in [Rows -> (IF query'.route = "live" THEN LiveItem ELSE RouteRow') \cup {None}]
  BY <1>2
<1> QED BY <1>1, <1>3 DEF TypeOK

\* The selection takes items of the list that it does not ban
LEMMA SelectionParts ==
    ASSUME NEW l \in Seq(LiveItem)
    PROVE  \A i \in SelectLiveItems(l) : i \in LiveItem /\ ~IsBanned(i)
<1> SUFFICES ASSUME NEW i \in SelectLiveItems(l) PROVE i \in LiveItem /\ ~IsBanned(i)
  OBVIOUS
<1>1. PICK k \in DOMAIN l : i = l[k] /\ ~IsBanned(l[k])
  BY DEF SelectLiveItems
<1> QED BY <1>1

\* The rows of bodies are items that the selection does not ban
LEMMA LiveTableParts ==
    ASSUME NEW lists, \A f \in DOMAIN Offers : lists[f] \in Seq(LiveItem)
    PROVE  /\ LiveTable(lists) \in [Rows -> LiveItem \cup {None}]
           /\ \A x \in Rows : LiveTable(lists)[x] # None => ~IsBanned(LiveTable(lists)[x])
<1> DEFINE is(x) == {i \in SelectLiveItems(lists[LiveFeed[x]]) : i.guid = x}
<1>1. \A x \in Rows : LiveTable(lists)[x] = IF is(x) = {} THEN None ELSE CHOOSE i \in is(x) : TRUE
  BY DEF LiveTable
<1>2. \A x \in Rows : \A i \in is(x) : i \in LiveItem /\ ~IsBanned(i)
  <2> SUFFICES ASSUME NEW x \in Rows
               PROVE  \A i \in SelectLiveItems(lists[LiveFeed[x]]) : i \in LiveItem /\ ~IsBanned(i)
    OBVIOUS
  <2>1. lists[LiveFeed[x]] \in Seq(LiveItem)
    BY OffersAssumption
  <2> QED BY <2>1, SelectionParts
<1>3. \A x \in Rows : is(x) # {} => (CHOOSE i \in is(x) : TRUE) \in is(x)
  OBVIOUS
<1> HIDE DEF is
<1>4. \A x \in Rows : LiveTable(lists)[x] = None \/ LiveTable(lists)[x] \in is(x)
  BY <1>1, <1>3
<1>5. LiveTable(lists) = [x \in Rows |-> LiveTable(lists)[x]]
  BY DEF LiveTable
<1>6. \A x \in Rows : LiveTable(lists)[x] \in LiveItem \cup {None}
  BY <1>2, <1>4
<1>7. LiveTable(lists) \in [Rows -> LiveItem \cup {None}]
  BY <1>5, <1>6
<1> QED BY <1>2, <1>4, <1>7

\* A commit of rows of the route keeps the invariant
LEMMA CommitKeeps ==
    ASSUME PagesIInv, NEW t, Commit(t),
           t \in [Rows -> (IF query.route = "live" THEN LiveItem ELSE RouteRow) \cup {None}],
           query.route = "live" => \A x \in Rows : t[x] # None => ~IsBanned(t[x])
    PROVE  PagesIInv'
<1>1. /\ query' = query /\ walk' = walk /\ given' = given /\ now' = now /\ table' = t
      /\ writes < MaxWrites /\ writes' = writes + 1 /\ stable' = StillStable(t, now)
  BY DEF Commit
<1>2. \A x \in stable' : x \in stable /\ t[x] = table[x] /\ Matches(t, now, x) /\ Alone(t, x)
  BY <1>1 DEF StillStable
<1>3. now' \in 0..MaxNow /\ writes' \in 0..MaxWrites
  BY <1>1, PagesAssumption DEF PagesIInv, TypeOK
<1>4. TypeOK'
  BY <1>1, <1>2, <1>3, WriteTypes DEF PagesIInv
<1>5. LiveRowsAllowed'
  BY <1>1 DEF LiveRowsAllowed
<1>6. \A x : (Matches(t, now, x) => Matches(table, now, x)') /\ (Alone(t, x) => Alone(table, x)')
  BY <1>1 DEF Matches, Alone, Place
<1> QED BY <1>1, <1>2, <1>4, <1>5, <1>6, WriteKeeps

\* Change
LEMMA ChangeStep ==
    ASSUME PagesIInv, NEW x \in Rows, NEW r, Change(x, r)
    PROVE  PagesIInv'
<1>1. query.route # "live" /\ r \in RouteRow \cup {None} /\ Commit([table EXCEPT ![x] = r])
  BY DEF Change
<1>2. table \in [Rows -> RouteRow \cup {None}]
  BY <1>1 DEF PagesIInv, TypeOK
<1>3. [table EXCEPT ![x] = r] \in [Rows -> RouteRow \cup {None}]
  BY <1>1, <1>2
<1> QED BY <1>1, <1>3, CommitKeeps

\* ReplaceLiveEvents
LEMMA ReplaceLiveEventsStep ==
    ASSUME PagesIInv, NEW f \in DOMAIN Offers, NEW items \in Offers[f] \cup {<<>>},
           ReplaceLiveEvents(f, items)
    PROVE  PagesIInv'
<1>1. PICK lists : lists = [g \in DOMAIN Offers |-> items]
  OBVIOUS
<1>2. PICK new : new = LiveTable(lists)
  OBVIOUS
<1>3. PICK t : t = [x \in Rows |-> IF LiveFeed[x] = f THEN new[x] ELSE table[x]]
  OBVIOUS
<1>4. query.route = "live" /\ Commit(t)
  BY <1>1, <1>2, <1>3 DEF ReplaceLiveEvents
<1>5. items \in Seq(LiveItem)
  <2>1. <<>> \in Seq(LiveItem)
    OBVIOUS
  <2>2. \A l \in Offers[f] : l \in Seq(LiveItem)
    BY OffersAssumption
  <2> QED BY <2>1, <2>2
<1>6. \A g \in DOMAIN Offers : lists[g] \in Seq(LiveItem)
  BY <1>1, <1>5
<1>7. /\ new \in [Rows -> LiveItem \cup {None}]
      /\ \A x \in Rows : new[x] # None => ~IsBanned(new[x])
  BY <1>2, <1>6, LiveTableParts
<1>8. /\ table \in [Rows -> LiveItem \cup {None}]
      /\ \A x \in Rows : table[x] # None => ~IsBanned(table[x])
  BY <1>4 DEF PagesIInv, TypeOK, LiveRowsAllowed
<1>9. /\ t \in [Rows -> LiveItem \cup {None}]
      /\ \A x \in Rows : t[x] = new[x] \/ t[x] = table[x]
  BY <1>3, <1>7, <1>8
<1>10. \A x \in Rows : t[x] # None => ~IsBanned(t[x])
  BY <1>7, <1>8, <1>9
<1> QED BY <1>4, <1>9, <1>10, CommitKeeps

\* Tick
LEMMA TickStep ==
    ASSUME PagesIInv, Tick
    PROVE  PagesIInv'
<1>1. /\ query' = query /\ walk' = walk /\ given' = given /\ table' = table /\ writes' = writes
      /\ now < MaxNow /\ now' = now + 1 /\ stable' = StillStable(table, now')
  BY DEF Tick
<1>2. \A x \in stable' : x \in stable /\ Matches(table, now', x) /\ Alone(table, x)
  BY <1>1 DEF StillStable
<1>3. now' \in 0..MaxNow /\ writes' \in 0..MaxWrites
  BY <1>1, PagesAssumption DEF PagesIInv, TypeOK
<1>4. table' \in [Rows -> (IF query.route = "live" THEN LiveItem ELSE RouteRow) \cup {None}]
  BY <1>1 DEF PagesIInv, TypeOK
<1>5. TypeOK'
  BY <1>1, <1>2, <1>3, <1>4, WriteTypes DEF PagesIInv
<1>6. LiveRowsAllowed'
  BY <1>1 DEF PagesIInv, LiveRowsAllowed
<1>7. \A x : /\ Matches(table, now', x) => Matches(table, now, x)'
             /\ Alone(table, x) => Alone(table, x)'
  BY <1>1 DEF Matches, Alone, Place
<1> QED BY <1>1, <1>2, <1>5, <1>6, <1>7, WriteKeeps

\* A stuttering step
LEMMA PagesStutter ==
    ASSUME PagesIInv, UNCHANGED vars
    PROVE  PagesIInv'
<1>1. /\ query' = query /\ walk' = walk /\ given' = given /\ table' = table /\ writes' = writes
      /\ now' = now /\ stable' = stable
  BY DEF vars
<1>2. now' \in 0..MaxNow /\ writes' \in 0..MaxWrites
      /\ table' \in [Rows -> (IF query.route = "live" THEN LiveItem ELSE RouteRow) \cup {None}]
  BY <1>1 DEF PagesIInv, TypeOK
<1>3. TypeOK'
  BY <1>1, <1>2, WriteTypes DEF PagesIInv
<1>4. LiveRowsAllowed'
  BY <1>1 DEF PagesIInv, LiveRowsAllowed
<1>5. \A x \in stable : Matches(table, now, x)' /\ Alone(table, x)'
  BY <1>1 DEF PagesIInv, StableRows, Matches, Alone, Place
<1> QED BY <1>1, <1>3, <1>4, <1>5, WriteKeeps

-----------------------------------------------------------------------------
(* Theorems *)

\* The first request of a walk has nothing behind it
LEMMA PagesInit ==
    ASSUME Init
    PROVE  PagesIInv
<1>1. /\ query \in Queries /\ now = 0 /\ walk = Request(None) /\ given = <<>> /\ writes = 0
      /\ stable = {x \in Rows : Matches(table, 0, x) /\ Alone(table, x)
                                   /\ After(Place(table, x), None)}
  BY DEF Init
<1>2. /\ table \in [Rows -> (IF query.route = "live" THEN LiveItem ELSE RouteRow) \cup {None}]
      /\ LiveRowsAllowed
  <2>1. CASE query.route = "live"
    <3>1. PICK lists \in [DOMAIN Offers -> UNION Range(Offers)] :
              /\ \A f \in DOMAIN Offers : lists[f] \in Offers[f] /\ PassesCheck(lists[f])
              /\ table = LiveTable(lists)
      BY <2>1 DEF Init
    <3>2. \A f \in DOMAIN Offers : lists[f] \in Seq(LiveItem)
      BY <3>1, OffersAssumption
    <3>3. /\ table \in [Rows -> LiveItem \cup {None}]
          /\ \A x \in Rows : table[x] # None => ~IsBanned(table[x])
      BY <3>1, <3>2, LiveTableParts
    <3> QED BY <2>1, <3>3 DEF LiveRowsAllowed
  <2>2. CASE query.route # "live"
    BY <2>2 DEF Init, LiveRowsAllowed
  <2> QED BY <2>1, <2>2
<1>3. /\ walk \in Walks /\ walk.step = "request" /\ walk.at = None /\ walk.todo = <<>>
      /\ walk.kept = <<>> /\ ~walk.end
  <2>1. None \in Places \cup {None}
    OBVIOUS
  <2> QED BY <1>1, <2>1, RequestParts DEF Walks
<1>4. DOMAIN <<>> = {} /\ Len(<<>>) = 0 /\ <<>> \in Seq(Entries)
  OBVIOUS
<1>5. query.limit \in Nat
  <2>1. PICK n \in Limits : query.limit = CappedLimit(n)
    BY <1>1 DEF Queries
  <2> QED BY <2>1, PagesAssumption DEF CappedLimit
<1>6. TypeOK
  <2>1. Cardinality(Rows) \in Nat /\ Batch \in Nat /\ MaxNow \in Nat /\ MaxWrites \in Nat
    BY PagesAssumption, FS_CardinalityType
  <2>2. /\ Len(walk.todo) <= Batch
        /\ Len(walk.kept) <= (IF query.route = "copies" THEN Cardinality(Rows) ELSE query.limit + 1)
    BY <1>3, <1>4, <1>5, <2>1
  <2>3. now \in 0..MaxNow /\ writes \in 0..MaxWrites /\ stable \subseteq Rows
    BY <1>1, <2>1
  <2> QED BY <1>1, <1>2, <1>3, <1>4, <2>2, <2>3 DEF TypeOK, Walks
<1>7. EntriesAreTied /\ PagesGoForward /\ GivenIsBehind /\ StepsOfRoute
  BY <1>1, <1>3, <1>4 DEF EntriesAreTied, PagesGoForward, GivenIsBehind, StepsOfRoute
<1>8. KeptHits /\ RecordsAreOnce /\ ScanIsOrdered
  BY <1>1, <1>3, <1>4, <1>5 DEF KeptHits, RecordsAreOnce, ScanIsOrdered, Rising
<1>9. StableRows
  BY <1>1 DEF StableRows
<1>10. NothingLost
  <2> SUFFICES ASSUME NEW x \in stable PROVE walk.step # "done" /\ StillDue(x)
    BY DEF NothingLost
  <2>1. Ahead(x)
    BY <1>1, <1>3 DEF Ahead
  <2> QED BY <1>3, <1>4, <2>1 DEF StillDue
<1> QED BY <1>2, <1>6, <1>7, <1>8, <1>9, <1>10 DEF PagesIInv

\* Every read, every write and the clock keep the invariant
LEMMA PagesStep ==
    ASSUME PagesIInv, [Next]_vars
    PROVE  PagesIInv'
<1>1. CASE RecentPage \/ GuidChangesPage \/ ArtistTracksPage \/ ByDatePage \/ LivePage
  <2>1. \E route \in Plain : OneRead(route)
    BY <1>1 DEF RecentPage, GuidChangesPage, ArtistTracksPage, ByDatePage, LivePage, Plain
  <2> QED BY <2>1, OneReadStep
<1>2. CASE NamedOnly
  BY <1>2, NamedOnlyStep
<1>3. CASE NamedPage
  BY <1>3, NamedPageStep
<1>4. CASE SearchFeeds
  BY <1>4, SearchFeedsStep
<1>5. CASE SearchPage
  BY <1>5, SearchPageStep
<1>6. CASE CopiesGuids
  BY <1>6, CopiesGuidsStep
<1>7. CASE CopiesPage
  BY <1>7, CopiesPageStep
<1>8. CASE \E x \in Rows : CopiesRecord(x)
  BY <1>8, CopiesRecordStep
<1>9. CASE FilterBatch
  BY <1>9, FilterBatchStep
<1>10. CASE FilterRow
  BY <1>10, FilterRowStep
<1>11. CASE FilterEnd
  BY <1>11, FilterEndStep
<1>12. CASE \E x \in Rows, r \in Row \cup {None} : Change(x, r)
  BY <1>12, ChangeStep
<1>13. CASE \E f \in DOMAIN Offers : \E items \in Offers[f] \cup {<<>>} :
              ReplaceLiveEvents(f, items)
  BY <1>13, ReplaceLiveEventsStep
<1>14. CASE Tick
  BY <1>14, TickStep
<1>15. CASE UNCHANGED vars
  BY <1>15, PagesStutter
<1> QED
  <2>1. Next \/ UNCHANGED vars
    OBVIOUS
  <2> QED BY <1>1, <1>2, <1>3, <1>4, <1>5, <1>6, <1>7, <1>8, <1>9, <1>10, <1>11, <1>12, <1>13,
             <1>14, <1>15, <2>1 DEF Next, ReadStep

\* The invariant holds in every state of every walk
LEMMA PagesInvariant == Spec => []PagesIInv
<1>1. Init => PagesIInv
  BY PagesInit
<1>2. PagesIInv /\ [Next]_vars => PagesIInv'
  BY PagesStep
<1> QED BY <1>1, <1>2, PTL DEF Spec

\* Whatever is written between and within the pages, a client that comes to the
\* end of a list was given every row that matched all along, with its key
\* unchanged and its place its own: on each route of query.rs, for any limit, any
\* batch and scan limit and any number of rows (list_live_items "skips no matching
\* row", filtered_recent_rows, search and copies with their several reads).
THEOREM NothingIsMissed == Spec => []NothingMissed
<1>1. PagesIInv => NothingMissed
  <2> SUFFICES ASSUME PagesIInv, walk.step = "done", NEW x \in stable
               PROVE  x \in {e.row : e \in Range(given)}
    BY DEF NothingMissed
  <2>1. Found(x) /\ given \in Seq(Entries)
    BY DEF PagesIInv, NothingLost, TypeOK
  <2>2. PICK i \in DOMAIN given : given[i].row = x
    BY <2>1 DEF Found
  <2>3. given[i] \in Range(given)
    BY <2>1, RangeParts
  <2> QED BY <2>2, <2>3
<1> QED BY <1>1, PagesInvariant, PTL

\* The pages of a walk go forward, and a request keeps within its batch, its scan
\* limit and its page (query.rs filtered_recent_rows, encode_cursor): no write
\* makes a row come again at its place or come after a row it precedes.
THEOREM PagesStayForward == Spec => []PagesInv
<1>1. PagesIInv => PagesInv
  BY DEF PagesIInv, PagesInv
<1> QED BY <1>1, PagesInvariant, PTL

\* No live row without a relay link stays in the now view for ever, also when its
\* feed never sends again (live.rs is_banned_live_item with in_now_view): it is out
\* at the latest a margin after the longest window.
THEOREM UnrelayedRowsLeave == Spec => []UnrelayedLeaves
<1>1. PagesIInv => UnrelayedLeaves
  <2> SUFFICES ASSUME PagesIInv, query.route = "live", NEW x \in Rows, table[x] # None,
                      table[x].relay = "none", InNowView(table[x], now)
               PROVE  table[x].start # None /\ now < table[x].start + MaxUnrelayed + EndMargin
    BY DEF UnrelayedLeaves
  <2>1. PICK i : i = table[x]
    OBVIOUS
  <2>2. i \in LiveItem /\ ~IsBanned(i) /\ i.relay = "none" /\ InNowView(i, now) /\ now \in Nat
    BY <2>1 DEF PagesIInv, TypeOK, LiveRowsAllowed
  <2>3. /\ i.status = "live" /\ i.start # None /\ i.end # None
        /\ ~(i.end - i.start > MaxUnrelayed) /\ now < i.end + EndMargin
    BY <2>2 DEF IsBanned, InNowView
  <2>4. i.start \in Nat /\ i.end \in Nat
    BY <2>2, <2>3 DEF LiveItem, Times
  <2> QED BY <2>1, <2>2, <2>3, <2>4, LiveBoundsAssumption
<1> QED BY <1>1, PagesInvariant, PTL

-----------------------------------------------------------------------------
(* The cursor *)

\* p is past the rows given and past the position of the request
MovesOn(p) ==
    /\ p \in Places /\ \A i \in DOMAIN given : Precedes(given[i].place, p)
    /\ walk.at = None \/ Precedes(walk.at, p)

\* A new request comes with a cursor past all rows given before it, and past the
\* position before it; in the filtered list, where the position moves with each
\* row examined, it may come back from there to the last row of a page
CursorMovesOn ==
    [][walk' = Request(walk'.at) /\ <<walk, given>>' # <<walk, given>> =>
         /\ walk'.at \in Places
         /\ \A i \in DOMAIN given : Precedes(given[i].place, walk'.at)
         /\ \/ walk.at = None \/ Precedes(walk.at, walk'.at)
            \/ query.route = "filtered" /\ Len(given') > Len(given)]_vars

\* The place of a row after the position is past it and past the rows given
LEMMA AfterMovesOn ==
    ASSUME PagesIInv, walk.step # "done", NEW p \in Places, After(p, walk.at)
    PROVE  MovesOn(p)
<1>1. walk.at \in Places \cup {None} /\ given \in Seq(Entries)
  BY DEF PagesIInv, TypeOK
<1>2. CASE walk.at = None
  <2>1. given = <<>>
    BY <1>2 DEF PagesIInv, GivenIsBehind
  <2> QED BY <1>2, <2>1 DEF MovesOn
<1>3. CASE walk.at # None
  <2>1. Precedes(walk.at, p) /\ walk.at \in Places
    BY <1>1, <1>3, AfterParts
  <2>2. ASSUME NEW i \in DOMAIN given PROVE Precedes(given[i].place, p)
    <3>1. given[i] \in Entries
      BY <1>1
    <3>2. given[i].place \in Places /\ Upto(given[i].place, walk.at)
      BY <1>3, <3>1 DEF Entries, PagesIInv, GivenIsBehind
    <3> QED BY <2>1, <3>2, UptoParts
  <2> QED BY <2>1, <2>2 DEF MovesOn
<1> QED BY <1>2, <1>3

\* An answer with more to come gives the place of a row after the cursor
LEMMA AnswerMovesOn ==
    ASSUME PagesIInv, walk.step # "done", NEW es \in SUBSET Entries, IsFiniteSet(es),
           \A e \in es : After(e.place, walk.at), NEW rows \in Orders(es), Answer(rows)
    PROVE  walk' = Done \/ MovesOn(walk'.at)
<1>1. query.limit \in Nat \ {0}
  BY LimitParts DEF PagesIInv
<1>2. CASE Len(rows) > query.limit
  <2>1. /\ First(rows, query.limit) # <<>> /\ EndOf(rows) \in Places
        /\ \E e \in es : e.place = EndOf(rows)
    BY <1>1, <1>2, PageParts
  <2>2. walk' = Request(EndOf(rows))
    BY <1>2, <2>1 DEF Answer, EndOf
  <2>3. walk'.at = EndOf(rows)
    BY <2>2 DEF Request
  <2> QED BY <2>1, <2>3, AfterMovesOn
<1>3. CASE ~(Len(rows) > query.limit)
  BY <1>3 DEF Answer
<1> QED BY <1>2, <1>3

\* A step that reads rows of S after the cursor and answers
LEMMA SelectMovesOn ==
    ASSUME PagesIInv, walk.step # "done", NEW S \in SUBSET Rows,
           NEW rows \in Orders(Select(S, walk.at)), Answer(rows)
    PROVE  walk' = Done \/ MovesOn(walk'.at)
<1>1. PICK es : es = Select(S, walk.at)
  OBVIOUS
<1>2. /\ es \in SUBSET Entries /\ IsFiniteSet(es) /\ \A e \in es : After(e.place, walk.at)
  BY <1>1, SelectParts DEF PagesIInv
<1> QED BY <1>1, <1>2, AnswerMovesOn

\* The merged answer of a search
LEMMA SearchMovesOn ==
    ASSUME PagesIInv, SearchPage
    PROVE  walk' = Done \/ MovesOn(walk'.at)
<1>1. PICK S : S = {x \in Rows \ FeedHits : Matches(table, now, x)}
  OBVIOUS
<1>2. query.route = "search" /\ walk.step = "tracks" /\ S \in SUBSET Rows
  BY <1>1 DEF SearchPage, At
<1>3. PICK rows \in Orders(Select(S, walk.at)) :
        \E merged \in Orders(Range(walk.kept) \cup Range(First(rows, query.limit + 1))) :
            Answer(merged)
  BY <1>1 DEF SearchPage
<1>4. PICK hits : hits = First(rows, query.limit + 1)
  OBVIOUS
<1>5. hits \in Seq(Entries) /\ \A i \in DOMAIN hits : After(hits[i].place, walk.at)
  BY <1>2, <1>4, HitsParts
<1>6. walk.kept \in Seq(Entries) /\ \A i \in DOMAIN walk.kept : After(walk.kept[i].place, walk.at)
  BY <1>2 DEF PagesIInv, TypeOK, KeptHits
<1>7. PICK es : es = Range(walk.kept) \cup Range(hits)
  OBVIOUS
<1>8. /\ es \in SUBSET Entries /\ IsFiniteSet(es) /\ \A e \in es : After(e.place, walk.at)
  <2>1. /\ Range(hits) \in SUBSET Entries /\ IsFiniteSet(Range(hits))
        /\ \A e \in Range(hits) : \E i \in DOMAIN hits : e = hits[i]
    BY <1>5, RangeParts
  <2>2. /\ Range(walk.kept) \in SUBSET Entries /\ IsFiniteSet(Range(walk.kept))
        /\ \A e \in Range(walk.kept) : \E i \in DOMAIN walk.kept : e = walk.kept[i]
    BY <1>6, RangeParts
  <2>3. IsFiniteSet(es)
    BY <1>7, <2>1, <2>2, FS_Union
  <2> QED BY <1>5, <1>6, <1>7, <2>1, <2>2, <2>3
<1>9. PICK merged \in Orders(es) : Answer(merged)
  BY <1>3, <1>4, <1>7
<1> QED BY <1>2, <1>8, <1>9, AnswerMovesOn

\* The answer of the copy records
LEMMA CopiesMoveOn ==
    ASSUME PagesIInv, CopiesPage
    PROVE  walk' = Done \/ MovesOn(walk'.at)
<1>1. PICK es : es = {e \in Range(walk.kept) : After(e.place, walk.at)}
  OBVIOUS
<1>2. PICK rows \in Orders(es) : Answer(rows)
  BY <1>1 DEF CopiesPage
<1>3. Range(walk.kept) \in SUBSET Entries /\ IsFiniteSet(Range(walk.kept))
  BY RangeParts DEF PagesIInv, TypeOK
<1>4. es \in SUBSET Entries /\ IsFiniteSet(es) /\ \A e \in es : After(e.place, walk.at)
  BY <1>1, <1>3, FS_Subset
<1>5. walk.step # "done"
  BY DEF CopiesPage, At
<1> QED BY <1>2, <1>4, <1>5, AnswerMovesOn


\* A filtered page that is full, and one that ends its scan
LEMMA FilterMovesOn ==
    ASSUME PagesIInv, FilterRow, walk' = Request(walk'.at)
    PROVE  \/ MovesOn(walk'.at)
           \/ /\ walk'.at \in Places /\ Len(given') > Len(given)
              /\ \A i \in DOMAIN given : Precedes(given[i].place, walk'.at)
<1>1. PICK e : e = Head(walk.todo)
  OBVIOUS
<1>2. PICK k : k = KeptWith(e)
  OBVIOUS
<1>3. PICK page : page = First(k, query.limit)
  OBVIOUS
<1>4. /\ query.route = "filtered" /\ walk.step = "request" /\ walk.todo # <<>>
      /\ IF Len(k) > query.limit \/ ScanIsFull(walk.seen + 1)
         THEN /\ given' = given \o page
              /\ walk' = Request(IF Len(k) > query.limit THEN FullCursor(page, e.place)
                                 ELSE e.place)
         ELSE walk' = [walk EXCEPT !.at = e.place, !.todo = Tail(@), !.kept = k,
                                   !.seen = walk.seen + 1]
  BY <1>1, <1>2, <1>3 DEF FilterRow, At, KeptWith
<1>5. /\ e.place \in Places /\ e = walk.todo[1]
      /\ k \in Seq(Entries) /\ Len(k) \in Nat /\ DOMAIN k = 1..Len(k)
      /\ \A i \in DOMAIN given, j \in DOMAIN k : Precedes(given[i].place, k[j].place)
  BY <1>1, <1>2, <1>4, ExaminedRow
<1>6. /\ query.limit \in Nat \ {0} /\ walk \in Walks /\ walk.todo \in Seq(Entries)
      /\ given \in Seq(Entries) /\ \A i \in DOMAIN walk.todo : After(walk.todo[i].place, walk.at)
  BY <1>4, ScanParts DEF Walks
<1>7. MovesOn(e.place)
  <2>1. 1 \in DOMAIN walk.todo /\ walk.step # "done"
    BY <1>4, <1>6
  <2>2. After(e.place, walk.at)
    BY <1>5, <1>6, <2>1
  <2> QED BY <1>5, <2>1, <2>2, AfterMovesOn
<1>8. CASE Len(k) > query.limit
  <2>0. query.limit \in Nat /\ k \in Seq(Entries)
    BY <1>5, <1>6
  <2>1. /\ page \in Seq(Entries)
        /\ Len(page) = (IF Len(k) < query.limit THEN Len(k) ELSE query.limit)
        /\ DOMAIN page = 1..Len(page) /\ \A i \in 1..Len(page) : page[i] = k[i] /\ i \in 1..Len(k)
    BY <1>3, <2>0, FirstParts
  <2>2. Len(page) = query.limit /\ Len(page) \in DOMAIN page
    BY <1>5, <1>6, <1>8, <2>1
  <2>3. given' = given \o page /\ walk' = Request(page[Len(page)].place)
    BY <1>4, <1>8 DEF FullCursor
  <2>4. walk'.at = page[Len(page)].place
    BY <2>3 DEF Request
  <2>5. page[Len(page)] \in Entries
    BY <2>1, <2>2
  <2>6. walk'.at \in Places
    BY <2>4, <2>5 DEF Entries
  <2>7. Len(given') > Len(given)
    BY <1>6, <2>1, <2>2, <2>3
  <2> QED BY <1>5, <2>1, <2>2, <2>4, <2>6, <2>7
<1>9. CASE ~(Len(k) > query.limit)
  <2>1. walk'.at = e.place
    <3>1. CASE ScanIsFull(walk.seen + 1)
      BY <1>4, <1>9, <3>1 DEF Request
    <3>2. CASE ~ScanIsFull(walk.seen + 1)
      BY <1>4, <1>6, <1>9, <3>2 DEF Walks
    <3> QED BY <3>1, <3>2
  <2> QED BY <1>7, <2>1
<1> QED BY <1>8, <1>9

\* The other steps within a request begin no new one
LEMMA WithinIsNotNew ==
    ASSUME PagesIInv,
           \/ NamedOnly \/ SearchFeeds \/ CopiesGuids \/ FilterBatch \/ FilterEnd
           \/ \E x \in Rows : CopiesRecord(x)
    PROVE  walk' # Request(walk'.at)
<1>0. /\ walk \in Walks
      /\ \A c : Request(c).step = "request" /\ Request(c).todo = <<>> /\ ~Request(c).end
  BY DEF PagesIInv, TypeOK, Walks, Request
<1>1. CASE NamedOnly
  BY <1>0, <1>1 DEF NamedOnly, Walks
<1>2. CASE SearchFeeds
  <2>1. walk'.step = "tracks"
    BY <1>0, <1>2 DEF SearchFeeds, Walks
  <2> QED BY <1>0, <2>1
<1>3. CASE CopiesGuids
  BY <1>0, <1>3 DEF CopiesGuids, Walks
<1>4. CASE FilterEnd
  <2>1. walk'.step = "done"
    BY <1>4 DEF FilterEnd, Done, Request
  <2> QED BY <1>0, <2>1
<1>5. CASE \E x \in Rows : CopiesRecord(x)
  <2>1. walk'.step = "records"
    BY <1>0, <1>5 DEF CopiesRecord, At, Walks
  <2> QED BY <1>0, <2>1
<1>6. CASE FilterBatch
  <2>1. PICK rows \in Orders(Select(Rows, walk.at)) :
          walk' = [walk EXCEPT !.todo = First(rows, Batch), !.end = Len(rows) < Batch]
    BY <1>6 DEF FilterBatch
  <2>2. walk'.todo = First(rows, Batch) /\ (walk'.end <=> Len(rows) < Batch)
    BY <1>0, <2>1 DEF Walks
  <2>3. PICK es : es = Select(Rows, walk.at)
    OBVIOUS
  <2>4. es \in SUBSET Entries /\ IsFiniteSet(es)
    BY <2>3, SelectParts DEF PagesIInv
  <2>5. rows \in Seq(es) /\ Len(rows) \in Nat /\ Batch \in Nat \ {0}
    BY <2>1, <2>3, <2>4, OrdersParts, PagesAssumption
  <2>6. Len(First(rows, Batch)) = IF Len(rows) < Batch THEN Len(rows) ELSE Batch
    <3>1. Batch \in Nat
      BY <2>5
    <3> QED BY <2>5, <3>1, FirstParts
  <2>7. First(rows, Batch) # <<>> \/ Len(rows) < Batch
    BY <2>5, <2>6
  <2> QED BY <1>0, <2>2, <2>7
<1> QED BY <1>1, <1>2, <1>3, <1>4, <1>5, <1>6

\* A page that says has_more comes with a cursor, and the cursor is past every row
\* given before that page: no client is sent round in a circle, whatever is written
\* meanwhile (query.rs handle_get_recent_feeds "has_more: true never pairs with a
\* null cursor").
THEOREM CursorsMoveOn == Spec => CursorMovesOn
<1>1. ASSUME PagesIInv, [Next]_vars, walk' = Request(walk'.at),
             <<walk, given>>' # <<walk, given>>
      PROVE  \/ MovesOn(walk'.at)
             \/ /\ walk'.at \in Places
                /\ \A i \in DOMAIN given : Precedes(given[i].place, walk'.at)
                /\ query.route = "filtered" /\ Len(given') > Len(given)
  <2>0. walk' # Done
    <3>1. Request(walk'.at).step # Done.step
      BY DEF Request, Done
    <3> QED BY <1>1, <3>1
  <2>1. CASE RecentPage \/ GuidChangesPage \/ ArtistTracksPage \/ ByDatePage \/ LivePage
    <3>1. PICK route : OneRead(route)
      BY <2>1 DEF RecentPage, GuidChangesPage, ArtistTracksPage, ByDatePage, LivePage
    <3>2. PICK S : S = {x \in Rows : Matches(table, now, x)}
      OBVIOUS
    <3>3. S \in SUBSET Rows /\ walk.step # "done"
      BY <3>1, <3>2 DEF OneRead, At
    <3>4. \E rows \in Orders(Select(S, walk.at)) : Answer(rows)
      BY <3>1, <3>2 DEF OneRead
    <3> QED BY <1>1, <2>0, <3>3, <3>4, SelectMovesOn
  <2>2. CASE NamedPage
    <3>1. walk.only \in SUBSET Rows /\ walk.step # "done"
      BY <1>1, <2>2 DEF NamedPage, PagesIInv, TypeOK
    <3>2. \E rows \in Orders(Select(walk.only, walk.at)) : Answer(rows)
      BY <2>2 DEF NamedPage
    <3> QED BY <1>1, <2>0, <3>1, <3>2, SelectMovesOn
  <2>3. CASE SearchPage
    BY <1>1, <2>0, <2>3, SearchMovesOn
  <2>4. CASE CopiesPage
    BY <1>1, <2>0, <2>4, CopiesMoveOn
  <2>5. CASE FilterRow
    <3>1. query.route = "filtered"
      BY <2>5 DEF FilterRow, At
    <3> QED BY <1>1, <2>5, <3>1, FilterMovesOn
  <2>6. CASE \/ NamedOnly \/ SearchFeeds \/ CopiesGuids \/ FilterBatch \/ FilterEnd
             \/ \E x \in Rows : CopiesRecord(x)
    BY <1>1, <2>6, WithinIsNotNew
  <2>7. CASE \/ \E x \in Rows, r \in Row \cup {None} : Change(x, r)
             \/ \E f \in DOMAIN Offers : \E items \in Offers[f] \cup {<<>>} :
                    ReplaceLiveEvents(f, items)
             \/ Tick \/ UNCHANGED vars
    <3>1. walk' = walk /\ given' = given
      BY <2>7 DEF Change, ReplaceLiveEvents, Commit, Tick, vars
    <3> QED BY <1>1, <3>1
  <2> QED BY <1>1, <2>1, <2>2, <2>3, <2>4, <2>5, <2>6, <2>7 DEF Next, ReadStep
<1>2. PagesIInv /\ [Next]_vars =>
        [walk' = Request(walk'.at) /\ <<walk, given>>' # <<walk, given>> =>
           /\ walk'.at \in Places
           /\ \A i \in DOMAIN given : Precedes(given[i].place, walk'.at)
           /\ \/ walk.at = None \/ Precedes(walk.at, walk'.at)
              \/ query.route = "filtered" /\ Len(given') > Len(given)]_vars
  BY <1>1 DEF MovesOn
<1> QED BY <1>2, PagesInvariant, PTL DEF Spec, CursorMovesOn
=============================================================================
