------------------------- MODULE FeedContentProofs -------------------------
(***************************************************************************)
(* Machine-checked proofs about FeedContent, for any URLs, tracks, lists,  *)
(* fields and bodies, and any limits.  What a node makes of the events of  *)
(* an ingest is a recursion over rows; it is followed row by row, and a    *)
(* first row that goes wrong is shown not to exist.                        *)
(***************************************************************************)
EXTENDS FeedContent, FiniteSetTheorems, WellFoundedInduction, TLAPS

-----------------------------------------------------------------------------
(* Events row by row *)

\* What holds at 0 and is kept by every step up to N holds at N
LEMMA CountUp ==
    ASSUME NEW N \in Nat, NEW G \in SUBSET (0..N), 0 \in G,
           \A n \in 1..N : n - 1 \in G => n \in G
    PROVE  \A n \in 0..N : n \in G
<1> SUFFICES ASSUME (0..N) \ G # {} PROVE FALSE
  OBVIOUS
<1> DEFINE Bad == (0..N) \ G
<1>1. Bad \in SUBSET Nat
  OBVIOUS
<1>2. PICK k \in Bad : \A n \in Bad : <<n, k>> \notin OpToRel(<, Nat)
  <2> HIDE DEF Bad
  <2>1. Bad # {}
    BY DEF Bad
  <2> QED BY <1>1, <2>1, NatLessThanWellFounded, WFMin
<1>3. \A n \in Bad : ~(n < k)
  BY <1>1, <1>2 DEF OpToRel
<1>4. k \in 1..N /\ k - 1 \in 0..N
  <2>1. k \in 0..N /\ k # 0
    OBVIOUS
  <2> HIDE DEF Bad
  <2> QED BY <2>1
<1>5. k - 1 \in G
  BY <1>3, <1>4
<1> QED BY <1>2, <1>4, <1>5

\* An order of a finite set goes through each of its members once
LEMMA OrderParts ==
    ASSUME NEW S, IsFiniteSet(S)
    PROVE  /\ Order(S) \in Seq(S) /\ Len(Order(S)) \in Nat
           /\ \A i \in 1..Len(Order(S)) : Order(S)[i] \in S
           /\ \A x \in S : \E i \in 1..Len(Order(S)) : Order(S)[i] = x
           /\ \A i, j \in 1..Len(Order(S)) : Order(S)[i] = Order(S)[j] => i = j
<1> DEFINE N == Cardinality(S)
<1>1. PICK n \in Nat : ExistsBijection(1..n, S)
  BY FS_NatBijection
<1>2. N = n
  BY <1>1, FS_CountingElements
<1>3. Bijection(1..N, S) # {}
  BY <1>1, <1>2 DEF ExistsBijection
<1>4. Order(S) \in Bijection(1..N, S)
  BY <1>3 DEF Order
<1>5. /\ Order(S) \in [1..N -> S] /\ \A x \in S : \E i \in 1..N : Order(S)[i] = x
      /\ \A i, j \in 1..N : Order(S)[i] = Order(S)[j] => i = j
  BY <1>4 DEF Bijection, Surjection, Injection, IsInjective
<1>6. N \in Nat
  BY <1>2
<1> HIDE DEF N
<1>7. Order(S) \in Seq(S) /\ Len(Order(S)) = N
  BY <1>5, <1>6
<1> QED BY <1>5, <1>6, <1>7

\* The tables after each row of a family
IsReplay(after, t, order, es, N) ==
    after = [n \in 0..N |-> IF n = 0 THEN t ELSE ApplyAll(after[n - 1], es[order[n]])]

\* There are such tables, for as many rows as there are
LEMMA ReplayExists ==
    ASSUME NEW t, NEW order, NEW es, NEW N \in Nat
    PROVE  \E after : IsReplay(after, t, order, es, N)
<1> DEFINE G == {n \in 0..N : \E a : IsReplay(a, t, order, es, n)}
<1>1. 0 \in G
  <2> DEFINE a == [n \in 0..0 |-> t]
  <2>1. a = [n \in 0..0 |-> IF n = 0 THEN t ELSE ApplyAll(a[n - 1], es[order[n]])]
    OBVIOUS
  <2>2. IsReplay(a, t, order, es, 0)
    BY <2>1 DEF IsReplay
  <2> QED BY <2>2
<1>2. ASSUME NEW n \in 1..N, n - 1 \in G PROVE n \in G
  <2>1. PICK a : IsReplay(a, t, order, es, n - 1)
    BY <1>2
  <2>2. /\ DOMAIN a = 0..(n - 1)
        /\ \A i \in 0..(n - 1) : a[i] = IF i = 0 THEN t ELSE ApplyAll(a[i - 1], es[order[i]])
    BY <2>1 DEF IsReplay
  <2> DEFINE b == [i \in 0..n |-> IF i = n THEN ApplyAll(a[n - 1], es[order[n]]) ELSE a[i]]
             c == [i \in 0..n |-> IF i = 0 THEN t ELSE ApplyAll(b[i - 1], es[order[i]])]
  <2>3. \A i \in 0..(n - 1) : b[i] = a[i]
    OBVIOUS
  <2>4. ASSUME NEW i \in 0..n PROVE b[i] = c[i]
    <3>1. CASE i = n
      <4>1. b[i] = ApplyAll(a[n - 1], es[order[n]])
        BY <3>1
      <4>2. c[i] = ApplyAll(b[n - 1], es[order[n]])
        BY <3>1
      <4> QED BY <2>3, <4>1, <4>2
    <3>2. CASE i = 0
      BY <2>2, <3>2
    <3>3. CASE i # n /\ i # 0
      <4>1. i \in 0..(n - 1) /\ i - 1 \in 0..(n - 1)
        BY <3>3
      <4>2. b[i] = a[i] /\ b[i - 1] = a[i - 1]
        BY <2>3, <4>1
      <4>3. c[i] = ApplyAll(b[i - 1], es[order[i]])
        BY <3>3
      <4> QED BY <2>2, <3>3, <4>1, <4>2, <4>3
    <3> QED BY <3>1, <3>2, <3>3
  <2>5. b = c
    <3> HIDE DEF b, c
    <3>1. DOMAIN b = 0..n /\ DOMAIN c = 0..n /\ b = [i \in 0..n |-> b[i]] /\ c = [i \in 0..n |-> c[i]]
      BY DEF b, c
    <3> QED BY <2>4, <3>1
  <2>6. IsReplay(b, t, order, es, n)
    <3>1. IsReplay(b, t, order, es, n) <=> b = c
      BY DEF IsReplay
    <3> QED BY <2>5, <3>1
  <2> HIDE DEF b, c
  <2> QED BY <2>6
<1>3. G \in SUBSET (0..N)
  OBVIOUS
<1> HIDE DEF G
<1>4. N \in G
  BY <1>1, <1>2, <1>3, CountUp
<1> QED BY <1>4 DEF G

\* The tables after the events of a family of rows, step by step
Replays(after, t, order, es) ==
    /\ after[0] = t
    /\ \A n \in 1..Len(order) : after[n] = ApplyAll(after[n - 1], es[order[n]])
    /\ ApplyEach(t, order, es) = after[Len(order)]

\* ApplyEach goes through such tables
LEMMA ReplayParts ==
    ASSUME NEW t, NEW order, NEW es, Len(order) \in Nat
    PROVE  \E after : Replays(after, t, order, es)
<1> DEFINE N == Len(order)
           a == CHOOSE after : IsReplay(after, t, order, es, N)
<1>1. N \in Nat
  OBVIOUS
<1>2. IsReplay(a, t, order, es, N)
  BY <1>1, ReplayExists
<1>3. ApplyEach(t, order, es) = a[N]
  BY DEF ApplyEach, IsReplay
<1> HIDE DEF a
<1>4. \A n \in 0..N : a[n] = IF n = 0 THEN t ELSE ApplyAll(a[n - 1], es[order[n]])
  <2> HIDE DEF N
  <2> QED BY <1>1, <1>2 DEF IsReplay
<1>5. a[0] = t /\ \A n \in 1..N : a[n] = ApplyAll(a[n - 1], es[order[n]])
  <2> HIDE DEF N
  <2> QED BY <1>1, <1>4
<1>6. Replays(a, t, order, es)
  BY <1>3, <1>5 DEF Replays
<1> QED BY <1>6

\* What the events of each row keep, counted by the rows that are done, holds of
\* the tables after them all
LEMMA ReplayKeeps ==
    ASSUME NEW t, NEW order, NEW es, Len(order) \in Nat, NEW P, <<0, t>> \in P,
           \A n \in 1..Len(order) : \A s :
              <<n - 1, s>> \in P => <<n, ApplyAll(s, es[order[n]])>> \in P
    PROVE  <<Len(order), ApplyEach(t, order, es)>> \in P
<1> DEFINE N == Len(order)
<1>1. PICK a : Replays(a, t, order, es)
  BY ReplayParts
<1>2. /\ a[0] = t /\ ApplyEach(t, order, es) = a[N]
      /\ \A n \in 1..N : a[n] = ApplyAll(a[n - 1], es[order[n]])
  BY <1>1 DEF Replays
<1> DEFINE G == {n \in 0..N : <<n, a[n]>> \in P}
<1>3. N \in Nat /\ G \in SUBSET (0..N) /\ 0 \in G
  BY <1>2
<1>4. ASSUME NEW n \in 1..N, n - 1 \in G PROVE n \in G
  <2>1. <<n - 1, a[n - 1]>> \in P
    BY <1>4
  <2>2. <<n, ApplyAll(a[n - 1], es[order[n]])>> \in P
    BY <2>1
  <2> QED BY <1>2, <2>2
<1> HIDE DEF G
<1>5. N \in G
  <2> HIDE DEF N
  <2> QED BY <1>3, <1>4, CountUp
<1> QED BY <1>2, <1>5 DEF G

-----------------------------------------------------------------------------
(* What the writes do *)

\* No event, one event and two about a row
LEMMA NoEvent ==
    ASSUME NEW t PROVE ApplyAll(t, <<>>) = t
BY DEF ApplyAll

\* One event
LEMMA OneEvent ==
    ASSUME NEW t, NEW e PROVE ApplyAll(t, <<e>>) = ApplyEvent(t, e)
<1>1. Len(<<e>>) = 1 /\ <<e>>[1] = e
  OBVIOUS
<1> QED BY <1>1 DEF ApplyAll

\* Two events
LEMMA TwoEvents ==
    ASSUME NEW t, NEW e, NEW f PROVE ApplyAll(t, <<e, f>>) = ApplyEvent(ApplyEvent(t, e), f)
<1>1. Len(<<e, f>>) = 2 /\ <<e, f>>[1] = e /\ <<e, f>>[2] = f
  OBVIOUS
<1> QED BY <1>1 DEF ApplyAll

\* A node upserts the feed row
LEMMA AppliesFeed ==
    ASSUME NEW t, NEW r
    PROVE  ApplyEvent(t, FeedUpserted(r)) = SyncReadModels(UpsertFeed(t, r.url, r.fields, r.built))
BY DEF ApplyEvent, FeedUpserted

\* A node upserts a track without its items
LEMMA AppliesTrack ==
    ASSUME NEW t, NEW x, NEW w
    PROVE  ApplyEvent(t, TrackUpserted(x, w)) = SyncReadModels(UpsertTrack(t, x, [w EXCEPT !.items = 0]))
BY DEF ApplyEvent, TrackUpserted

\* A node replaces a list
LEMMA AppliesList ==
    ASSUME NEW t, NEW l, NEW v
    PROVE  ApplyEvent(t, ListReplaced(l, v)) = ReplaceList(t, l, v)
BY DEF ApplyEvent, ListReplaced

\* A node replaces the items of a track
LEMMA AppliesItems ==
    ASSUME NEW t, NEW x, NEW v
    PROVE  ApplyEvent(t, TrackItems(x, v)) = ReplaceTrackItems(t, x, v)
BY DEF ApplyEvent, TrackItems

\* A node removes a track it has
LEMMA AppliesRemoval ==
    ASSUME NEW t, NEW x
    PROVE  ApplyEvent(t, TrackRemoved(x)) = IF t.rec.tracks[x] = None THEN t ELSE DeleteTrack(t, x)
BY DEF ApplyEvent, TrackRemoved

\* A node records a URL
LEMMA AppliesObserved ==
    ASSUME NEW t, NEW u
    PROVE  ApplyEvent(t, UrlObserved(u)) = [t EXCEPT !.obs = @ \cup {u}]
BY DEF ApplyEvent, UrlObserved

\* A node writes a copy row
LEMMA AppliesCopy ==
    ASSUME NEW t, NEW u, NEW s
    PROVE  ApplyEvent(t, CopyObserved(u, s)) = UpsertCopy(t, u, s)
BY DEF ApplyEvent, CopyObserved

\* A node resolves a copy row
LEMMA AppliesResolved ==
    ASSUME NEW t, NEW u, NEW d
    PROVE  ApplyEvent(t, CopyResolved(u, d)) = ResolveCopy(t, u, d)
BY DEF ApplyEvent, CopyResolved

\* A node blocks a URL
LEMMA AppliesBlock ==
    ASSUME NEW t, NEW u
    PROVE  ApplyEvent(t, Blocked(u)) = BlockUrl(t, u)
BY DEF ApplyEvent, Blocked

\* A node lifts a block
LEMMA AppliesUnblock ==
    ASSUME NEW t, NEW u
    PROVE  ApplyEvent(t, Unblocked(u)) = [t EXCEPT !.blocks = @ \ {u}]
BY DEF ApplyEvent, Unblocked

\* A node retires the feed it has
LEMMA AppliesRetired ==
    ASSUME NEW t
    PROVE  ApplyEvent(t, FeedRetired) = IF t.rec = None THEN t ELSE DeleteFeed(t)
BY DEF ApplyEvent, FeedRetired

\* The parts of the tables outside the record and its index
Rest(t) == <<t.copies, t.obs, t.blocks>>

\* The parts of tables
LEMMA TableParts ==
    ASSUME NEW t \in Tables
    PROVE  /\ t = [rec |-> t.rec, index |-> t.index, copies |-> t.copies, obs |-> t.obs, blocks |-> t.blocks]
           /\ t.rec \in Record \cup {None} /\ t.index \in Index
           /\ t.copies \in [Urls -> CopyRow \cup {None}] /\ t.obs \in SUBSET Urls /\ t.blocks \in SUBSET Urls
BY DEF Tables

\* Tables made of their parts
LEMMA MakeTables ==
    ASSUME NEW r \in Record \cup {None}, NEW i \in Index, NEW c \in [Urls -> CopyRow \cup {None}],
           NEW o \in SUBSET Urls, NEW b \in SUBSET Urls
    PROVE  [rec |-> r, index |-> i, copies |-> c, obs |-> o, blocks |-> b] \in Tables
BY DEF Tables

\* The read models of a feed match its row, its tracks and its medium, if the
\* index has no row of a track that is gone
LEMMA SyncParts ==
    ASSUME NEW t \in Tables, t.rec # None,
           \A x \in Tracks : t.rec.tracks[x] = None => t.index.tracks[x] = None
    PROVE  /\ SyncReadModels(t) \in Tables /\ IndexMatches(SyncReadModels(t))
           /\ SyncReadModels(t).rec = t.rec /\ Rest(SyncReadModels(t)) = Rest(t)
<1> DEFINE f == t.rec.fields
           new == [feed |-> IF f \in MusicFields THEN f ELSE None,
                   publisher |-> IF f \in PublisherFields THEN f ELSE None,
                   tracks |-> [x \in Tracks |->
                      CASE t.rec.tracks[x] = None -> t.index.tracks[x]
                        [] t.rec.tracks[x] # None /\ f \in MusicFields -> t.rec.tracks[x].fields
                        [] OTHER -> None]]
           s == [t EXCEPT !.index = new]
<1>1. SyncReadModels(t) = s
  BY DEF SyncReadModels
<1>2. t.rec \in Record /\ f \in Fields /\ t.rec.tracks \in [Tracks -> TrackRow \cup {None}]
      /\ None \notin TrackRow
  BY TableParts, NoneAssumption DEF Record, TrackRows
<1>3. \A x \in Tracks : new.tracks[x] =
         IF f \in MusicFields /\ t.rec.tracks[x] # None THEN t.rec.tracks[x].fields ELSE None
  OBVIOUS
<1>4. \A x \in Tracks : t.rec.tracks[x] # None => t.rec.tracks[x].fields \in Fields
  BY <1>2 DEF TrackRow
<1>5. new \in Index
  <2>1. new.tracks \in [Tracks -> Fields \cup {None}]
    BY <1>3, <1>4
  <2>2. new.feed \in Fields \cup {None} /\ new.publisher \in Fields \cup {None}
    BY <1>2
  <2>3. new = [feed |-> new.feed, publisher |-> new.publisher, tracks |-> new.tracks]
    OBVIOUS
  <2> HIDE DEF new
  <2> QED BY <2>1, <2>2, <2>3 DEF Index
<1>6. /\ new.feed = (IF f \in MusicFields THEN f ELSE None)
      /\ new.publisher = (IF f \in PublisherFields THEN f ELSE None)
  OBVIOUS
<1> HIDE DEF new
<1>7. s = [rec |-> t.rec, index |-> new, copies |-> t.copies, obs |-> t.obs, blocks |-> t.blocks]
  BY TableParts
<1>8. s \in Tables
  BY <1>5, <1>7, TableParts, MakeTables
<1>9. s.rec = t.rec /\ Rest(s) = Rest(t) /\ s.index = new
  BY <1>7 DEF Rest
<1> HIDE DEF s
<1>10. IndexMatches(s)
  BY <1>3, <1>6, <1>9 DEF IndexMatches
<1> QED BY <1>1, <1>8, <1>9, <1>10

\* The parts of a record
LEMMA RecordParts ==
    ASSUME NEW r \in Record
    PROVE  /\ r = [url |-> r.url, fields |-> r.fields, built |-> r.built, lists |-> r.lists, tracks |-> r.tracks]
           /\ r.url \in Urls /\ r.fields \in Fields /\ r.built \in 0..2
           /\ r.lists \in [Families -> Lists] /\ r.tracks \in [Tracks -> TrackRow \cup {None}]
           /\ r # None
BY NoneAssumption DEF Record, TrackRows

\* A record made of its parts
LEMMA MakeRecord ==
    ASSUME NEW u \in Urls, NEW f \in Fields, NEW d \in 0..2, NEW ls \in [Families -> Lists],
           NEW ts \in [Tracks -> TrackRow \cup {None}]
    PROVE  [url |-> u, fields |-> f, built |-> d, lists |-> ls, tracks |-> ts] \in Record
BY DEF Record, TrackRows

\* Tables in which a row or a list of the record changed
Based(s, t) ==
    /\ s \in Tables /\ IndexMatches(s) /\ Rest(s) = Rest(t) /\ s.rec # None
    /\ s.rec.url = t.rec.url /\ s.rec.fields = t.rec.fields

\* upsert_feed and the read models: the feed row changes, lists and tracks stay
LEMMA FeedRowParts ==
    ASSUME NEW t \in Tables, IndexMatches(t), NEW r \in Record
    PROVE  LET s == ApplyEvent(t, FeedUpserted(r))
           IN /\ s \in Tables /\ IndexMatches(s) /\ Rest(s) = Rest(t) /\ s.rec # None
              /\ s.rec.url = r.url /\ s.rec.fields = r.fields
              /\ s.rec.lists = IF t.rec = None THEN [l \in Families |-> 0] ELSE t.rec.lists
              /\ s.rec.tracks = IF t.rec = None THEN NoTracks ELSE t.rec.tracks
<1> DEFINE ls == IF t.rec = None THEN [l \in Families |-> 0] ELSE t.rec.lists
           ts == IF t.rec = None THEN NoTracks ELSE t.rec.tracks
           n == [url |-> r.url, fields |-> r.fields, built |-> r.built, lists |-> ls, tracks |-> ts]
           s == UpsertFeed(t, r.url, r.fields, r.built)
<1>1. ls \in [Families -> Lists] /\ ts \in [Tracks -> TrackRow \cup {None}]
  BY TableParts, RecordParts DEF NoTracks, Lists
<1>2. n \in Record
  BY <1>1, RecordParts, MakeRecord
<1>3. s = [rec |-> n, index |-> t.index, copies |-> t.copies, obs |-> t.obs, blocks |-> t.blocks]
  <2>1. s = [t EXCEPT !.rec = n]
    BY DEF UpsertFeed
  <2> HIDE DEF n, s
  <2> QED BY <2>1, TableParts
<1> HIDE DEF s
<1>4. s \in Tables /\ s.rec = n /\ s.index = t.index /\ Rest(s) = Rest(t) /\ s.rec # None
  <2>1. n # None
    BY <1>2, NoneAssumption
  <2> HIDE DEF n
  <2> QED BY <1>2, <1>3, <2>1, TableParts, MakeTables DEF Rest
<1>5. \A x \in Tracks : s.rec.tracks[x] = None => s.index.tracks[x] = None
  <2>1. \A x \in Tracks : ts[x] = None => t.index.tracks[x] = None
    BY DEF IndexMatches, NoTracks
  <2>2. s.rec.tracks = ts
    BY <1>4
  <2> HIDE DEF ts
  <2> QED BY <1>4, <2>1, <2>2
<1>6. ApplyEvent(t, FeedUpserted(r)) = SyncReadModels(s)
  BY AppliesFeed DEF s
<1>7. /\ SyncReadModels(s) \in Tables /\ IndexMatches(SyncReadModels(s))
      /\ SyncReadModels(s).rec = n /\ Rest(SyncReadModels(s)) = Rest(t)
  BY <1>4, <1>5, SyncParts
<1> QED BY <1>2, <1>6, <1>7, RecordParts

\* replace_source_*: one list changes
LEMMA ListParts ==
    ASSUME NEW t \in Tables, IndexMatches(t), t.rec # None, NEW l \in Families, NEW v \in Lists
    PROVE  LET s == ReplaceList(t, l, v)
           IN /\ Based(s, t) /\ s.rec.tracks = t.rec.tracks
              /\ s.rec.lists = [t.rec.lists EXCEPT ![l] = v]
<1> DEFINE ls == [t.rec.lists EXCEPT ![l] = v]
           n == [url |-> t.rec.url, fields |-> t.rec.fields, built |-> t.rec.built,
                 lists |-> ls, tracks |-> t.rec.tracks]
           s == ReplaceList(t, l, v)
<1>1. t.rec \in Record
  BY TableParts
<1>2. ls \in [Families -> Lists]
  BY <1>1, RecordParts
<1>3. s = [rec |-> n, index |-> t.index, copies |-> t.copies, obs |-> t.obs, blocks |-> t.blocks]
  <2>1. [t.rec EXCEPT !.lists[l] = v] = n
    BY <1>1, RecordParts
  <2> HIDE DEF n
  <2> QED BY <2>1, TableParts DEF ReplaceList
<1> HIDE DEF s, ls
<1>4. n \in Record
  BY <1>1, <1>2, RecordParts, MakeRecord
<1>5. n # None
  BY <1>4, NoneAssumption
<1>6. s \in Tables /\ s.rec = n /\ s.index = t.index /\ Rest(s) = Rest(t)
  <2> HIDE DEF n
  <2> QED BY <1>3, <1>4, TableParts, MakeTables DEF Rest
<1>7. IndexMatches(s)
  BY <1>5, <1>6 DEF IndexMatches
<1> QED BY <1>5, <1>6, <1>7 DEF Based, s, ls

\* Tables in which one track changed and the read models follow
LEMMA TrackRowParts ==
    ASSUME NEW t \in Tables, IndexMatches(t), t.rec # None, NEW x \in Tracks, NEW w \in TrackRow,
           w.items = 0
    PROVE  LET s == SyncReadModels(UpsertTrack(t, x, w))
           IN /\ Based(s, t) /\ s.rec.lists = t.rec.lists
              /\ s.rec.tracks = [t.rec.tracks EXCEPT ![x] = [w EXCEPT !.items = ItemsOf(t.rec.tracks[x])]]
<1> DEFINE v == [w EXCEPT !.items = IF t.rec.tracks[x] = None THEN 0 ELSE t.rec.tracks[x].items]
           ts == [t.rec.tracks EXCEPT ![x] = v]
           n == [url |-> t.rec.url, fields |-> t.rec.fields, built |-> t.rec.built,
                 lists |-> t.rec.lists, tracks |-> ts]
           s == UpsertTrack(t, x, w)
<1>1. t.rec \in Record /\ t.rec.tracks \in [Tracks -> TrackRow \cup {None}]
  BY TableParts, RecordParts
<1>2. v \in TrackRow /\ v # None /\ v = [w EXCEPT !.items = ItemsOf(t.rec.tracks[x])]
  <2>1. v \in TrackRow
    BY <1>1 DEF TrackRow, Lists
  <2> QED BY <2>1, NoneAssumption DEF ItemsOf
<1>3. ts \in [Tracks -> TrackRow \cup {None}] /\ ts[x] = v /\ \A y \in Tracks : y # x => ts[y] = t.rec.tracks[y]
  <2> HIDE DEF v
  <2> QED BY <1>1, <1>2
<1>4. s = [rec |-> n, index |-> t.index, copies |-> t.copies, obs |-> t.obs, blocks |-> t.blocks]
  <2>1. s = [t EXCEPT !.rec.tracks[x] = v]
    BY DEF UpsertTrack
  <2> HIDE DEF v, s
  <2>2. [t.rec EXCEPT !.tracks[x] = v] = n
    BY <1>1, RecordParts
  <2> HIDE DEF n
  <2> QED BY <2>1, <2>2, TableParts
<1> HIDE DEF s, v
<1>5. n \in Record /\ n # None
  <2> HIDE DEF ts
  <2>1. n \in Record
    BY <1>1, <1>3, RecordParts, MakeRecord
  <2> QED BY <2>1, NoneAssumption
<1>6. s \in Tables /\ s.rec = n /\ s.index = t.index /\ Rest(s) = Rest(t)
  <2> HIDE DEF n
  <2> QED BY <1>4, <1>5, TableParts, MakeTables DEF Rest
<1>7. \A y \in Tracks : s.rec.tracks[y] = None => s.index.tracks[y] = None
  <2>1. s.rec.tracks = ts
    BY <1>6
  <2> HIDE DEF ts
  <2> QED BY <1>2, <1>3, <1>6, <2>1 DEF IndexMatches
<1>8. /\ SyncReadModels(s) \in Tables /\ IndexMatches(SyncReadModels(s))
      /\ SyncReadModels(s).rec = n /\ Rest(SyncReadModels(s)) = Rest(t)
  BY <1>5, <1>6, <1>7, SyncParts
<1> QED BY <1>2, <1>5, <1>8 DEF Based, s

\* The remote items of a track change
LEMMA TrackItemsParts ==
    ASSUME NEW t \in Tables, IndexMatches(t), t.rec # None, NEW x \in Tracks, NEW v \in Lists,
           t.rec.tracks[x] # None
    PROVE  LET s == ReplaceTrackItems(t, x, v)
           IN /\ Based(s, t) /\ s.rec.lists = t.rec.lists
              /\ s.rec.tracks = [t.rec.tracks EXCEPT ![x] = [t.rec.tracks[x] EXCEPT !.items = v]]
<1> DEFINE w == [t.rec.tracks[x] EXCEPT !.items = v]
           ts == [t.rec.tracks EXCEPT ![x] = w]
           n == [url |-> t.rec.url, fields |-> t.rec.fields, built |-> t.rec.built,
                 lists |-> t.rec.lists, tracks |-> ts]
           s == ReplaceTrackItems(t, x, v)
<1>1. t.rec \in Record /\ t.rec.tracks \in [Tracks -> TrackRow \cup {None}] /\ t.rec.tracks[x] \in TrackRow
  BY TableParts, RecordParts
<1>2. w \in TrackRow /\ w # None /\ w.fields = t.rec.tracks[x].fields
  <2>1. w \in TrackRow /\ w.fields = t.rec.tracks[x].fields
    BY <1>1 DEF TrackRow
  <2> QED BY <2>1, NoneAssumption
<1>3. s = [rec |-> n, index |-> t.index, copies |-> t.copies, obs |-> t.obs, blocks |-> t.blocks]
  <2>1. [t.rec.tracks EXCEPT ![x].items = v] = ts
    BY <1>1
  <2>2. [t.rec EXCEPT !.tracks[x].items = v] = n
    <3> HIDE DEF ts
    <3> QED BY <1>1, <2>1, RecordParts
  <2> HIDE DEF n
  <2> QED BY <2>2, TableParts DEF ReplaceTrackItems
<1> HIDE DEF s, w
<1>4. ts \in [Tracks -> TrackRow \cup {None}] /\ ts[x] = w /\ \A y \in Tracks : y # x => ts[y] = t.rec.tracks[y]
  BY <1>1, <1>2
<1>5. n \in Record /\ n # None
  <2> HIDE DEF ts
  <2>1. n \in Record
    BY <1>1, <1>4, RecordParts, MakeRecord
  <2> QED BY <2>1, NoneAssumption
<1>6. s \in Tables /\ s.rec = n /\ s.index = t.index /\ Rest(s) = Rest(t)
  <2> HIDE DEF n
  <2> QED BY <1>3, <1>5, TableParts, MakeTables DEF Rest
<1>7. IndexMatches(s)
  <2>1. s.rec.tracks = ts /\ s.rec.fields = t.rec.fields
    BY <1>6
  <2>2. \A y \in Tracks : (ts[y] = None <=> t.rec.tracks[y] = None) /\ ts[y].fields = t.rec.tracks[y].fields
    <3> HIDE DEF ts
    <3> QED BY <1>2, <1>4
  <2> HIDE DEF ts, n
  <2> QED BY <1>5, <1>6, <2>1, <2>2 DEF IndexMatches
<1> QED BY <1>5, <1>6, <1>7 DEF Based, s, w

\* delete_track_sql: the row and its index row go
LEMMA TrackGoneParts ==
    ASSUME NEW t \in Tables, IndexMatches(t), t.rec # None, NEW x \in Tracks
    PROVE  LET s == DeleteTrack(t, x)
           IN /\ Based(s, t) /\ s.rec.lists = t.rec.lists
              /\ s.rec.tracks = [t.rec.tracks EXCEPT ![x] = None]
<1> DEFINE ts == [t.rec.tracks EXCEPT ![x] = None]
           it == [t.index.tracks EXCEPT ![x] = None]
           n == [url |-> t.rec.url, fields |-> t.rec.fields, built |-> t.rec.built,
                 lists |-> t.rec.lists, tracks |-> ts]
           i == [feed |-> t.index.feed, publisher |-> t.index.publisher, tracks |-> it]
           s == DeleteTrack(t, x)
<1>1. t.rec \in Record /\ t.rec.tracks \in [Tracks -> TrackRow \cup {None}]
  BY TableParts, RecordParts
<1>2. /\ t.index \in Index /\ t.index.tracks \in [Tracks -> Fields \cup {None}]
      /\ t.index = [feed |-> t.index.feed, publisher |-> t.index.publisher, tracks |-> t.index.tracks]
  BY TableParts DEF Index
<1>3. s = [rec |-> n, index |-> i, copies |-> t.copies, obs |-> t.obs, blocks |-> t.blocks]
  <2>1. [t.rec EXCEPT !.tracks[x] = None] = n
    BY <1>1, RecordParts
  <2>2. [t.index EXCEPT !.tracks[x] = None] = i
    BY <1>2
  <2> DEFINE t1 == [t EXCEPT !.rec.tracks[x] = None]
  <2>3. s = [t1 EXCEPT !.index.tracks[x] = None]
    BY DEF DeleteTrack
  <2> HIDE DEF n, i
  <2>4. t1 = [rec |-> n, index |-> t.index, copies |-> t.copies, obs |-> t.obs, blocks |-> t.blocks]
    BY <2>1, TableParts
  <2> HIDE DEF t1, s
  <2> QED BY <2>2, <2>3, <2>4
<1> HIDE DEF s
<1>4. ts \in [Tracks -> TrackRow \cup {None}] /\ ts[x] = None /\ \A y \in Tracks : y # x => ts[y] = t.rec.tracks[y]
  BY <1>1
<1>5. it \in [Tracks -> Fields \cup {None}] /\ it[x] = None /\ \A y \in Tracks : y # x => it[y] = t.index.tracks[y]
  BY <1>2
<1> HIDE DEF ts, it
<1>6. n \in Record /\ n # None
  <2>1. n \in Record
    BY <1>1, <1>4, RecordParts, MakeRecord
  <2> QED BY <2>1, NoneAssumption
<1>7. i \in Index
  BY <1>2, <1>5 DEF Index
<1>8. s \in Tables /\ s.rec = n /\ s.index = i /\ Rest(s) = Rest(t)
  <2> HIDE DEF n, i
  <2> QED BY <1>3, <1>6, <1>7, TableParts, MakeTables DEF Rest
<1>9. IndexMatches(s)
  <2>1. /\ s.rec.tracks = ts /\ s.rec.fields = t.rec.fields
        /\ s.index.tracks = it /\ s.index.feed = t.index.feed /\ s.index.publisher = t.index.publisher
    BY <1>8
  <2> HIDE DEF n, i
  <2> QED BY <1>4, <1>5, <1>6, <1>8, <2>1 DEF IndexMatches
<1> QED BY <1>6, <1>8, <1>9 DEF Based, s, ts

-----------------------------------------------------------------------------
(* The events of an ingest, family by family *)

\* Two rows of a track that differ at most in their routes
TrackAlike(a, b) ==
    /\ a = None <=> b = None
    /\ a # None => a.fields = b.fields /\ a.file = b.file /\ a.items = b.items

\* Two records that differ at most in what the diff does not compare
RecAlike(a, b) ==
    /\ a = None <=> b = None
    /\ a # None => /\ a.url = b.url /\ a.fields = b.fields /\ a.lists = b.lists
                   /\ \A x \in Tracks : TrackAlike(a.tracks[x], b.tracks[x])

\* Tables that are based on others are based on what those are based on
LEMMA BasedOn ==
    ASSUME NEW s, NEW t, NEW w, Based(s, t), Based(t, w)
    PROVE  Based(s, w)
BY DEF Based

\* The list events bring every list to the one they carry
LEMMA ListsReplay ==
    ASSUME NEW t \in Tables, IndexMatches(t), t.rec # None, NEW ls \in [Families -> Lists], NEW es,
           \A l \in Families : \/ es[l] = <<ListReplaced(l, ls[l])>>
                               \/ es[l] = <<>> /\ t.rec.lists[l] = ls[l]
    PROVE  LET s == ApplyEach(t, FamilyOrder, es)
           IN Based(s, t) /\ s.rec.tracks = t.rec.tracks /\ s.rec.lists = ls
<1> DEFINE order == FamilyOrder
           N == Len(order)
<1>1. /\ order \in Seq(Families) /\ N \in Nat /\ \A i \in 1..N : order[i] \in Families
      /\ \A l \in Families : \E i \in 1..N : order[i] = l
  BY FiniteAssumption, OrderParts DEF FamilyOrder
<1> HIDE DEF order
<1>0. PICK a : Replays(a, t, order, es)
  BY <1>1, ReplayParts
<1>2. /\ a[0] = t
      /\ \A n \in 1..N : a[n] = ApplyAll(a[n - 1], es[order[n]])
      /\ ApplyEach(t, order, es) = a[N]
  BY <1>0 DEF Replays
<1> HIDE DEF N
<1> DEFINE Done(n) ==
             /\ Based(a[n], t) /\ a[n].rec.tracks = t.rec.tracks
             /\ \A l \in Families : a[n].rec.lists[l] \in {t.rec.lists[l], ls[l]}
             /\ \A i \in 1..n : a[n].rec.lists[order[i]] = ls[order[i]]
           G == {n \in 0..N : Done(n)}
<1>3. Done(0)
  BY <1>2 DEF Based
<1>4. ASSUME NEW n \in 1..N, Done(n - 1) PROVE Done(n)
  <2> DEFINE p == a[n - 1]
             l == order[n]
  <2>0. Based(p, t) /\ p.rec.tracks = t.rec.tracks
    BY <1>4
  <2>1. p \in Tables /\ IndexMatches(p) /\ p.rec # None /\ l \in Families
    BY <1>1, <2>0 DEF Based
  <2>2. \A k \in Families : p.rec.lists[k] \in {t.rec.lists[k], ls[k]}
    BY <1>4
  <2>3. \A i \in 1..(n - 1) : order[i] \in Families /\ p.rec.lists[order[i]] = ls[order[i]]
    BY <1>1, <1>4
  <2>4. a[n] = ApplyAll(p, es[l])
    BY <1>2
  <2>5. p.rec.lists \in [Families -> Lists]
    BY <2>1, TableParts, RecordParts
  <2>6. \A i \in 1..n : i \in 1..(n - 1) \/ order[i] = l
    OBVIOUS
  <2> HIDE DEF p, l
  <2>7. CASE es[l] = <<ListReplaced(l, ls[l])>>
    <3>1. a[n] = ReplaceList(p, l, ls[l])
      <4> DEFINE e == ListReplaced(l, ls[l])
      <4>1. ApplyEvent(p, e) = ReplaceList(p, l, ls[l])
        BY AppliesList
      <4> HIDE DEF e
      <4>2. ApplyAll(p, <<e>>) = ApplyEvent(p, e)
        BY OneEvent
      <4> QED BY <2>4, <2>7, <4>1, <4>2 DEF e
    <3>2. ls[l] \in Lists
      BY <2>1
    <3>3. /\ Based(a[n], p) /\ a[n].rec.tracks = p.rec.tracks
          /\ a[n].rec.lists = [p.rec.lists EXCEPT ![l] = ls[l]]
      BY <2>1, <3>1, <3>2, ListParts
    <3>4. Based(a[n], t)
      BY <2>0, <3>3, BasedOn
    <3> QED BY <2>0, <2>1, <2>2, <2>3, <2>5, <2>6, <3>3, <3>4
  <2>8. CASE es[l] = <<>> /\ t.rec.lists[l] = ls[l]
    <3>1. a[n] = p
      BY <2>4, <2>8, NoEvent
    <3>2. p.rec.lists[l] = ls[l]
      BY <2>1, <2>2, <2>8
    <3> QED BY <2>0, <2>2, <2>3, <2>6, <3>1, <3>2
  <2> QED BY <2>1, <2>7, <2>8
<1>5. \A n \in 0..N : n \in G
  <2>1. G \in SUBSET (0..N) /\ 0 \in G
    BY <1>1, <1>3
  <2>2. ASSUME NEW n \in 1..N, n - 1 \in G PROVE n \in G
    <3>1. Done(n - 1) /\ n \in 0..N
      BY <2>2
    <3> HIDE DEF Done
    <3> QED BY <1>4, <3>1
  <2> HIDE DEF G
  <2> QED BY <1>1, <2>1, <2>2, CountUp
<1>6. Done(N)
  <2> HIDE DEF Done
  <2> QED BY <1>1, <1>5
<1>7. a[N].rec.lists \in [Families -> Lists]
  BY <1>6, TableParts, RecordParts DEF Based
<1>8. \A l \in Families : a[N].rec.lists[l] = ls[l]
  BY <1>1, <1>6
<1> QED BY <1>2, <1>6, <1>7, <1>8 DEF order

\* One track after its events: it has the row they carry, but for the routes
LEMMA TrackStep ==
    ASSUME NEW t \in Tables, IndexMatches(t), t.rec # None, NEW x \in Tracks, NEW w \in TrackRow, NEW es,
           \/ es = <<TrackUpserted(x, w), TrackItems(x, w.items)>>
           \/ es = <<TrackUpserted(x, w)>> /\ w.items = 0 /\ ItemsOf(t.rec.tracks[x]) = 0
           \/ /\ es = <<TrackItems(x, w.items)>> /\ t.rec.tracks[x] # None
              /\ t.rec.tracks[x].fields = w.fields /\ t.rec.tracks[x].file = w.file
           \/ es = <<>> /\ TrackAlike(t.rec.tracks[x], w)
    PROVE  LET s == ApplyAll(t, es)
           IN /\ Based(s, t) /\ s.rec.lists = t.rec.lists
              /\ \A y \in Tracks : y # x => s.rec.tracks[y] = t.rec.tracks[y]
              /\ TrackAlike(s.rec.tracks[x], w)
<1> DEFINE v == [w EXCEPT !.items = 0]
           s1 == SyncReadModels(UpsertTrack(t, x, v))
           row == [v EXCEPT !.items = ItemsOf(t.rec.tracks[x])]
<1>0. t.rec.tracks \in [Tracks -> TrackRow \cup {None}] /\ w # None /\ w.items \in Lists
  BY TableParts, RecordParts, NoneAssumption DEF TrackRow
<1>1. v \in TrackRow /\ v.items = 0 /\ v.fields = w.fields /\ v.file = w.file
  BY DEF TrackRow, Lists
<1>2. Based(s1, t) /\ s1.rec.lists = t.rec.lists /\ s1.rec.tracks = [t.rec.tracks EXCEPT ![x] = row]
  <2> HIDE DEF v
  <2> QED BY <1>1, TrackRowParts
<1>3. /\ row \in TrackRow /\ row # None /\ row.fields = w.fields /\ row.file = w.file
      /\ row.items = ItemsOf(t.rec.tracks[x])
  <2>1. ItemsOf(t.rec.tracks[x]) \in Lists
    BY <1>0 DEF ItemsOf, TrackRow, Lists
  <2>2. row \in TrackRow /\ row.fields = v.fields /\ row.file = v.file /\ row.items = ItemsOf(t.rec.tracks[x])
    <3> HIDE DEF v
    <3> QED BY <1>1, <2>1 DEF TrackRow
  <2> QED BY <1>1, <2>2, NoneAssumption
<1> HIDE DEF row, v
<1>4. s1.rec.tracks[x] = row /\ \A y \in Tracks : y # x => s1.rec.tracks[y] = t.rec.tracks[y]
  BY <1>0, <1>2
<1>5. ApplyEvent(t, TrackUpserted(x, w)) = s1
  BY AppliesTrack DEF v
<1> HIDE DEF s1
<1>6. CASE es = <<TrackUpserted(x, w), TrackItems(x, w.items)>>
  <2>1. ApplyAll(t, es) = ReplaceTrackItems(s1, x, w.items)
    <3> DEFINE e == TrackUpserted(x, w)
               f == TrackItems(x, w.items)
    <3>1. ApplyEvent(s1, f) = ReplaceTrackItems(s1, x, w.items)
      BY AppliesItems
    <3> HIDE DEF e, f
    <3>2. ApplyAll(t, <<e, f>>) = ApplyEvent(ApplyEvent(t, e), f)
      BY TwoEvents
    <3> QED BY <1>5, <1>6, <3>1, <3>2 DEF e, f
  <2>2. s1 \in Tables /\ IndexMatches(s1) /\ s1.rec # None /\ s1.rec.tracks[x] # None
    BY <1>2, <1>3, <1>4 DEF Based
  <2> DEFINE s == ReplaceTrackItems(s1, x, w.items)
  <2>3. /\ Based(s, s1) /\ s.rec.lists = s1.rec.lists
        /\ s.rec.tracks = [s1.rec.tracks EXCEPT ![x] = [s1.rec.tracks[x] EXCEPT !.items = w.items]]
    BY <1>0, <2>2, TrackItemsParts
  <2> HIDE DEF s
  <2>4. s1.rec.tracks \in [Tracks -> TrackRow \cup {None}]
    BY <2>2, TableParts, RecordParts
  <2>5. /\ s.rec.tracks[x] = [row EXCEPT !.items = w.items]
        /\ \A y \in Tracks : y # x => s.rec.tracks[y] = s1.rec.tracks[y]
    BY <1>4, <2>3, <2>4
  <2>6. TrackAlike(s.rec.tracks[x], w)
    <3>1. /\ [row EXCEPT !.items = w.items] \in TrackRow
          /\ [row EXCEPT !.items = w.items].fields = w.fields
          /\ [row EXCEPT !.items = w.items].file = w.file
          /\ [row EXCEPT !.items = w.items].items = w.items
      BY <1>0, <1>3 DEF TrackRow
    <3> QED BY <1>0, <2>5, <3>1, NoneAssumption DEF TrackAlike
  <2>7. Based(s, t)
    BY <1>2, <2>3, BasedOn
  <2> QED BY <1>2, <1>4, <2>1, <2>3, <2>5, <2>6, <2>7 DEF s
<1>7. CASE es = <<TrackUpserted(x, w)>> /\ w.items = 0 /\ ItemsOf(t.rec.tracks[x]) = 0
  <2>1. ApplyAll(t, es) = s1
    BY <1>5, <1>7, OneEvent
  <2>2. TrackAlike(s1.rec.tracks[x], w)
    BY <1>0, <1>3, <1>4, <1>7 DEF TrackAlike
  <2> QED BY <1>2, <1>4, <2>1, <2>2
<1>8. CASE /\ es = <<TrackItems(x, w.items)>> /\ t.rec.tracks[x] # None
           /\ t.rec.tracks[x].fields = w.fields /\ t.rec.tracks[x].file = w.file
  <2> DEFINE s == ReplaceTrackItems(t, x, w.items)
             q == [t.rec.tracks[x] EXCEPT !.items = w.items]
  <2>1. ApplyAll(t, es) = s
    <3> DEFINE f == TrackItems(x, w.items)
    <3>1. ApplyEvent(t, f) = s
      BY AppliesItems
    <3> HIDE DEF f
    <3>2. ApplyAll(t, <<f>>) = ApplyEvent(t, f)
      BY OneEvent
    <3> QED BY <1>8, <3>1, <3>2 DEF f
  <2>2. Based(s, t) /\ s.rec.lists = t.rec.lists /\ s.rec.tracks = [t.rec.tracks EXCEPT ![x] = q]
    BY <1>0, <1>8, TrackItemsParts
  <2>3. q \in TrackRow /\ q.fields = w.fields /\ q.file = w.file /\ q.items = w.items
    <3>1. t.rec.tracks[x] \in TrackRow
      BY <1>0, <1>8
    <3> QED BY <1>0, <1>8, <3>1 DEF TrackRow
  <2> HIDE DEF s, q
  <2>4. s.rec.tracks[x] = q /\ \A y \in Tracks : y # x => s.rec.tracks[y] = t.rec.tracks[y]
    BY <1>0, <2>2
  <2>5. TrackAlike(s.rec.tracks[x], w)
    BY <1>0, <2>3, <2>4, NoneAssumption DEF TrackAlike
  <2> QED BY <2>1, <2>2, <2>4, <2>5
<1>9. CASE es = <<>> /\ TrackAlike(t.rec.tracks[x], w)
  <2>1. ApplyAll(t, es) = t
    BY <1>9, NoEvent
  <2>2. Based(t, t)
    BY DEF Based
  <2> QED BY <1>9, <2>1, <2>2
<1> QED BY <1>6, <1>7, <1>8, <1>9

\* Events that bring each track, from the row it has, to one of its target rows,
\* and leave the others alone, bring all of them there
LEMMA TrackLoop ==
    ASSUME NEW t \in Tables, Based(t, t), NEW es, NEW R,
           \A s \in Tables, x \in Tracks :
              Based(s, t) /\ s.rec.lists = t.rec.lists /\ s.rec.tracks[x] = t.rec.tracks[x] =>
                 /\ Based(ApplyAll(s, es[x]), s) /\ ApplyAll(s, es[x]).rec.lists = s.rec.lists
                 /\ \A y \in Tracks : y # x => ApplyAll(s, es[x]).rec.tracks[y] = s.rec.tracks[y]
                 /\ <<x, ApplyAll(s, es[x]).rec.tracks[x]>> \in R
    PROVE  LET s == ApplyEach(t, TrackOrder, es)
           IN /\ Based(s, t) /\ s.rec.lists = t.rec.lists
              /\ \A x \in Tracks : <<x, s.rec.tracks[x]>> \in R
<1> DEFINE order == TrackOrder
           N == Len(order)
<1>1. /\ N \in Nat /\ \A i \in 1..N : order[i] \in Tracks
      /\ \A x \in Tracks : \E i \in 1..N : order[i] = x
      /\ \A i, j \in 1..N : order[i] = order[j] => i = j
  BY FiniteAssumption, OrderParts DEF TrackOrder
<1> DEFINE Done(n, s) ==
             /\ Based(s, t) /\ s.rec.lists = t.rec.lists
             /\ \A i \in 1..n : <<order[i], s.rec.tracks[order[i]]>> \in R
             /\ \A i \in (n + 1)..N : s.rec.tracks[order[i]] = t.rec.tracks[order[i]]
           P == {q \in (0..N) \X Tables : Done(q[1], q[2])}
<1> HIDE DEF order
<1>2. <<0, t>> \in P
  BY <1>1
<1>3. ASSUME NEW n \in 1..N, NEW s, <<n - 1, s>> \in P
      PROVE  <<n, ApplyAll(s, es[order[n]])>> \in P
  <2> DEFINE x == order[n]
             q == ApplyAll(s, es[x])
  <2>1. s \in Tables /\ Done(n - 1, s)
    BY <1>3
  <2>2. x \in Tracks /\ \A i \in 1..N : order[i] \in Tracks /\ (order[i] = x => i = n)
    BY <1>1
  <2>3. s.rec.tracks[x] = t.rec.tracks[x]
    BY <1>1, <2>1
  <2>4. /\ Based(q, s) /\ q.rec.lists = s.rec.lists
        /\ \A y \in Tracks : y # x => q.rec.tracks[y] = s.rec.tracks[y]
        /\ <<x, q.rec.tracks[x]>> \in R
    BY <2>1, <2>2, <2>3
  <2> HIDE DEF q
  <2>5. Based(q, t) /\ q.rec.lists = t.rec.lists /\ q \in Tables
    BY <2>1, <2>4, BasedOn DEF Based
  <2>6. \A i \in 1..n : <<order[i], q.rec.tracks[order[i]]>> \in R
    <3> TAKE i \in 1..n
    <3>1. CASE i = n
      BY <2>4, <3>1
    <3>2. CASE i # n
      <4>1. i \in 1..(n - 1) /\ i \in 1..N
        BY <1>1, <3>2
      <4>2. <<order[i], s.rec.tracks[order[i]]>> \in R
        BY <2>1, <4>1
      <4> QED BY <2>2, <2>4, <3>2, <4>1, <4>2
    <3> QED BY <3>1, <3>2
  <2>7. \A i \in (n + 1)..N : q.rec.tracks[order[i]] = t.rec.tracks[order[i]]
    <3> TAKE i \in (n + 1)..N
    <3>1. i \in ((n - 1) + 1)..N /\ i \in 1..N /\ i # n
      BY <1>1
    <3>2. s.rec.tracks[order[i]] = t.rec.tracks[order[i]]
      BY <2>1, <3>1
    <3> QED BY <2>2, <2>4, <3>1, <3>2
  <2>8. Done(n, q)
    BY <2>5, <2>6, <2>7
  <2> HIDE DEF Done
  <2>9. <<n, q>> \in P
    BY <1>1, <2>5, <2>8
  <2> QED BY <2>9 DEF q
<1>4. <<N, ApplyEach(t, order, es)>> \in P
  <2> HIDE DEF P
  <2> QED BY <1>1, <1>2, <1>3, ReplayKeeps
<1>5. Done(N, ApplyEach(t, order, es))
  BY <1>4
<1> QED BY <1>1, <1>5 DEF order

\* The events of the diff for one track, from its old row to its new one
DiffOfTrack(x, old, w, es) ==
    \/ es = <<TrackUpserted(x, w), TrackItems(x, w.items)>>
    \/ es = <<TrackUpserted(x, w)>> /\ w.items = 0 /\ ItemsOf(old) = 0
    \/ es = <<TrackItems(x, w.items)>> /\ old # None /\ old.fields = w.fields /\ old.file = w.file
    \/ es = <<>> /\ TrackAlike(old, w)

\* The track events bring every track of the body to its row, but for the routes
LEMMA TracksReplay ==
    ASSUME NEW t \in Tables, Based(t, t), NEW ts \in [Tracks -> TrackRow \cup {None}], NEW es,
           \A x \in Tracks : \/ ts[x] = None /\ es[x] = <<>>
                             \/ ts[x] # None /\ DiffOfTrack(x, t.rec.tracks[x], ts[x], es[x])
    PROVE  LET s == ApplyEach(t, TrackOrder, es)
           IN /\ Based(s, t) /\ s.rec.lists = t.rec.lists
              /\ \A x \in Tracks : IF ts[x] = None THEN s.rec.tracks[x] = t.rec.tracks[x]
                                   ELSE TrackAlike(s.rec.tracks[x], ts[x])
<1> DEFINE R == {q \in Tracks \X (TrackRow \cup {None}) :
                   IF ts[q[1]] = None THEN q[2] = t.rec.tracks[q[1]] ELSE TrackAlike(q[2], ts[q[1]])}
<1>1. ASSUME NEW s \in Tables, NEW x \in Tracks, Based(s, t), s.rec.lists = t.rec.lists,
             s.rec.tracks[x] = t.rec.tracks[x]
      PROVE  /\ Based(ApplyAll(s, es[x]), s) /\ ApplyAll(s, es[x]).rec.lists = s.rec.lists
             /\ \A y \in Tracks : y # x => ApplyAll(s, es[x]).rec.tracks[y] = s.rec.tracks[y]
             /\ <<x, ApplyAll(s, es[x]).rec.tracks[x]>> \in R
  <2> DEFINE q == ApplyAll(s, es[x])
  <2>0. IndexMatches(s) /\ s.rec # None
    BY <1>1 DEF Based
  <2>1. CASE ts[x] = None /\ es[x] = <<>>
    <3>1. q = s
      BY <2>1, NoEvent
    <3>2. Based(s, s)
      BY <2>0 DEF Based
    <3>3. s.rec.tracks[x] \in TrackRow \cup {None}
      BY <2>0, TableParts, RecordParts
    <3> QED BY <1>1, <2>1, <3>1, <3>2, <3>3
  <2>2. CASE ts[x] # None /\ DiffOfTrack(x, t.rec.tracks[x], ts[x], es[x])
    <3>1. ts[x] \in TrackRow
      BY <2>2
    <3>2. DiffOfTrack(x, s.rec.tracks[x], ts[x], es[x])
      BY <1>1, <2>2
    <3>3. /\ Based(q, s) /\ q.rec.lists = s.rec.lists
          /\ \A y \in Tracks : y # x => q.rec.tracks[y] = s.rec.tracks[y]
          /\ TrackAlike(q.rec.tracks[x], ts[x])
      BY <2>0, <3>1, <3>2, TrackStep DEF DiffOfTrack
    <3>4. q \in Tables /\ q.rec # None
      BY <3>3 DEF Based
    <3>5. q.rec.tracks[x] \in TrackRow \cup {None}
      BY <3>4, TableParts, RecordParts
    <3> HIDE DEF q
    <3>6. <<x, q.rec.tracks[x]>> \in R
      BY <2>2, <3>3, <3>5
    <3> QED BY <3>3, <3>6 DEF q
  <2> QED BY <2>1, <2>2
<1> HIDE DEF R
<1>2. LET s == ApplyEach(t, TrackOrder, es)
      IN /\ Based(s, t) /\ s.rec.lists = t.rec.lists
         /\ \A x \in Tracks : <<x, s.rec.tracks[x]>> \in R
  BY <1>1, TrackLoop
<1> QED BY <1>2 DEF R

\* The removals take the tracks they name and leave the others
LEMMA GoneReplay ==
    ASSUME NEW t \in Tables, Based(t, t), NEW es,
           \A x \in Tracks : es[x] = <<TrackRemoved(x)>> \/ es[x] = <<>>
    PROVE  LET s == ApplyEach(t, TrackOrder, es)
           IN /\ Based(s, t) /\ s.rec.lists = t.rec.lists
              /\ \A x \in Tracks : s.rec.tracks[x] = IF es[x] = <<>> THEN t.rec.tracks[x] ELSE None
<1> DEFINE R == {q \in Tracks \X (TrackRow \cup {None}) :
                   q[2] = IF es[q[1]] = <<>> THEN t.rec.tracks[q[1]] ELSE None}
<1>1. ASSUME NEW s \in Tables, NEW x \in Tracks, Based(s, t), s.rec.lists = t.rec.lists,
             s.rec.tracks[x] = t.rec.tracks[x]
      PROVE  /\ Based(ApplyAll(s, es[x]), s) /\ ApplyAll(s, es[x]).rec.lists = s.rec.lists
             /\ \A y \in Tracks : y # x => ApplyAll(s, es[x]).rec.tracks[y] = s.rec.tracks[y]
             /\ <<x, ApplyAll(s, es[x]).rec.tracks[x]>> \in R
  <2> DEFINE q == ApplyAll(s, es[x])
  <2>0. IndexMatches(s) /\ s.rec # None /\ Based(s, s)
    BY <1>1 DEF Based
  <2>3. s.rec.tracks \in [Tracks -> TrackRow \cup {None}]
    BY <2>0, TableParts, RecordParts
  <2>1. CASE es[x] = <<>>
    <3>1. q = s
      BY <2>1, NoEvent
    <3> QED BY <1>1, <2>0, <2>1, <2>3, <3>1
  <2>2. CASE es[x] = <<TrackRemoved(x)>>
    <3>1. q = IF s.rec.tracks[x] = None THEN s ELSE DeleteTrack(s, x)
      <4> DEFINE e == TrackRemoved(x)
      <4>1. ApplyEvent(s, e) = IF s.rec.tracks[x] = None THEN s ELSE DeleteTrack(s, x)
        BY AppliesRemoval
      <4> HIDE DEF e
      <4>2. ApplyAll(s, <<e>>) = ApplyEvent(s, e)
        BY OneEvent
      <4> QED BY <2>2, <4>1, <4>2 DEF e
    <3>2. es[x] # <<>>
      BY <2>2
    <3>3. /\ Based(DeleteTrack(s, x), s) /\ DeleteTrack(s, x).rec.lists = s.rec.lists
          /\ DeleteTrack(s, x).rec.tracks = [s.rec.tracks EXCEPT ![x] = None]
      BY <2>0, TrackGoneParts
    <3>4. /\ Based(q, s) /\ q.rec.lists = s.rec.lists /\ q.rec.tracks[x] = None
          /\ \A y \in Tracks : y # x => q.rec.tracks[y] = s.rec.tracks[y]
      <4> HIDE DEF q
      <4> QED BY <2>0, <2>3, <3>1, <3>3
    <3> HIDE DEF q
    <3>5. <<x, q.rec.tracks[x]>> \in R
      BY <3>2, <3>4
    <3> QED BY <3>4, <3>5 DEF q
  <2> QED BY <2>1, <2>2
<1> HIDE DEF R
<1>2. LET s == ApplyEach(t, TrackOrder, es)
      IN /\ Based(s, t) /\ s.rec.lists = t.rec.lists
         /\ \A x \in Tracks : <<x, s.rec.tracks[x]>> \in R
  BY <1>1, TrackLoop
<1> QED BY <1>2 DEF R

\* The observation events add the URLs and change nothing else
LEMMA ObsReplay ==
    ASSUME NEW t \in Tables, NEW us \in SUBSET Urls, t.obs = main.obs
    PROVE  ApplyEach(t, UrlOrder, ObserveEvents(us)) = [t EXCEPT !.obs = t.obs \cup us]
<1> DEFINE order == UrlOrder
           N == Len(order)
           es == ObserveEvents(us)
<1>1. /\ N \in Nat /\ \A i \in 1..N : order[i] \in Urls
      /\ \A u \in Urls : \E i \in 1..N : order[i] = u
  BY FiniteAssumption, OrderParts DEF UrlOrder
<1>2. \A u \in Urls : es[u] = IF u \in us \ t.obs THEN <<UrlObserved(u)>> ELSE <<>>
  BY DEF ObserveEvents
<1> DEFINE With(o) == [rec |-> t.rec, index |-> t.index, copies |-> t.copies, obs |-> o, blocks |-> t.blocks]
           Done(n, s) ==
             /\ \E o : s = With(o)
             /\ t.obs \subseteq s.obs /\ s.obs \subseteq t.obs \cup us
             /\ \A i \in 1..n : order[i] \in us => order[i] \in s.obs
           P == {q \in (0..N) \X Tables : Done(q[1], q[2])}
<1> HIDE DEF order, es
<1>0. /\ \A a, b : [With(a) EXCEPT !.obs = b] = With(b)
      /\ \A b : With(b).obs = b
      /\ t = With(t.obs)
  BY TableParts
<1>3. <<0, t>> \in P
  <2>2. Done(0, t)
    <3> HIDE DEF With
    <3> QED BY <1>0
  <2> HIDE DEF Done
  <2> QED BY <1>1, <2>2
<1>4. ASSUME NEW n \in 1..N, NEW s, <<n - 1, s>> \in P
      PROVE  <<n, ApplyAll(s, es[order[n]])>> \in P
  <2> DEFINE u == order[n]
             q == ApplyAll(s, es[u])
  <2>1. s \in Tables /\ Done(n - 1, s)
    BY <1>4
  <2>2. u \in Urls
    BY <1>1
  <2>3. PICK o : s = With(o)
    BY <2>1
  <2>4. s.obs = o
    BY <2>3
  <2>5. \A i \in 1..n : i \in 1..(n - 1) \/ order[i] = u
    OBVIOUS
  <2> HIDE DEF u
  <2>6. CASE u \in us \ t.obs
    <3> DEFINE e == UrlObserved(u)
    <3>1. ApplyEvent(s, e) = [s EXCEPT !.obs = @ \cup {u}]
      BY AppliesObserved
    <3>2. es[u] = <<e>>
      BY <1>2, <2>2, <2>6
    <3> HIDE DEF e
    <3>3. ApplyAll(s, <<e>>) = ApplyEvent(s, e)
      BY OneEvent
    <3>4. q = [s EXCEPT !.obs = o \cup {u}]
      BY <2>4, <3>1, <3>2, <3>3
    <3> HIDE DEF q
    <3>5. q = With(o \cup {u}) /\ q.obs = o \cup {u}
      <4> HIDE DEF With
      <4> DEFINE all == o \cup {u}
      <4> HIDE DEF all
      <4>1. q = [With(o) EXCEPT !.obs = all]
        BY <2>3, <3>4 DEF all
      <4>2. q = With(all)
        BY <1>0, <4>1
      <4> QED BY <1>0, <4>2 DEF all
    <3>6. q \in Tables
      <4>2. o \cup {u} \in SUBSET Urls
        BY <2>1, <2>2, <2>4, TableParts
      <4> QED BY <3>5, <4>2, TableParts, MakeTables
    <3>7. /\ t.obs \subseteq q.obs /\ q.obs \subseteq t.obs \cup us
          /\ \A i \in 1..n : order[i] \in us => order[i] \in q.obs
      BY <2>1, <2>4, <2>5, <2>6, <3>5
    <3>8. Done(n, q)
      <4> HIDE DEF With
      <4> QED BY <3>5, <3>7
    <3> HIDE DEF Done
    <3>9. <<n, q>> \in P
      BY <1>1, <3>6, <3>8
    <3> QED BY <3>9 DEF q, u
  <2>7. CASE ~(u \in us \ t.obs)
    <3>1. es[u] = <<>>
      BY <1>2, <2>2, <2>7
    <3>2. q = s
      BY <3>1, NoEvent
    <3>3. \A i \in 1..n : order[i] \in us => order[i] \in s.obs
      BY <2>1, <2>5, <2>7
    <3>4. Done(n, s)
      BY <2>1, <3>3
    <3> HIDE DEF Done
    <3>5. <<n, s>> \in P
      BY <1>1, <2>1, <3>4
    <3> QED BY <3>2, <3>5 DEF u
  <2> QED BY <2>6, <2>7
<1>5. <<N, ApplyEach(t, order, es)>> \in P
  <2> HIDE DEF P
  <2> QED BY <1>1, <1>3, <1>4, ReplayKeeps
<1> DEFINE r == ApplyEach(t, order, es)
<1>6. r \in Tables /\ Done(N, r)
  BY <1>5
<1> HIDE DEF r
<1>7. PICK o : r = With(o)
  BY <1>6
<1>8. r.obs = o
  BY <1>7
<1>9. o = t.obs \cup us
  BY <1>1, <1>6, <1>8
<1>10. [t EXCEPT !.obs = t.obs \cup us] = With(t.obs \cup us)
  <2> HIDE DEF With
  <2> DEFINE all == t.obs \cup us
  <2> HIDE DEF all
  <2>1. [With(t.obs) EXCEPT !.obs = all] = With(all)
    BY <1>0
  <2> QED BY <1>0, <2>1 DEF all
<1> QED BY <1>7, <1>9, <1>10 DEF r, order, es

\* What the feed event leaves for the others: the feed row is that of the body, and
\* the events of the lists, tracks and removals lead from what the tables have
Prepared(s, t, r, diff, gone) ==
    /\ s \in Tables /\ IndexMatches(s) /\ Rest(s) = Rest(t) /\ s.rec # None
    /\ s.rec.url = r.url /\ s.rec.fields = r.fields
    /\ \A l \in Families : \/ diff.lists[l] = <<ListReplaced(l, r.lists[l])>>
                           \/ diff.lists[l] = <<>> /\ s.rec.lists[l] = r.lists[l]
    /\ \A x \in Tracks :
         \/ r.tracks[x] = None /\ diff.tracks[x] = <<>>
         \/ r.tracks[x] # None /\ DiffOfTrack(x, s.rec.tracks[x], r.tracks[x], diff.tracks[x])
    /\ \A x \in Tracks :
         \/ gone[x] = <<TrackRemoved(x)>> /\ r.tracks[x] = None
         \/ gone[x] = <<>> /\ (r.tracks[x] = None => s.rec.tracks[x] = None)

\* The first ingest: every event that is not empty
LEMMA FirstPrepared ==
    ASSUME NEW t \in Tables, IndexMatches(t), t.rec = None, NEW r \in Record
    PROVE  Prepared(ApplyAll(t, AllEvents(r).feed), t, r, AllEvents(r), Removals(None, r))
<1> DEFINE e == FeedUpserted(r)
           s == ApplyEvent(t, e)
           diff == AllEvents(r)
<1>1. /\ s \in Tables /\ IndexMatches(s) /\ Rest(s) = Rest(t) /\ s.rec # None
      /\ s.rec.url = r.url /\ s.rec.fields = r.fields
      /\ s.rec.lists = [l \in Families |-> 0] /\ s.rec.tracks = NoTracks
  BY FeedRowParts
<1>2. /\ diff.feed = <<e>>
      /\ \A l \in Families : diff.lists[l] = IF r.lists[l] = 0 THEN <<>> ELSE <<ListReplaced(l, r.lists[l])>>
      /\ \A x \in Tracks : diff.tracks[x] =
            IF r.tracks[x] = None THEN <<>>
            ELSE IF r.tracks[x].items = 0 THEN <<TrackUpserted(x, r.tracks[x])>>
            ELSE <<TrackUpserted(x, r.tracks[x]), TrackItems(x, r.tracks[x].items)>>
  BY DEF AllEvents
<1>3. \A x \in Tracks : Removals(None, r)[x] = <<>>
  BY DEF Removals
<1> HIDE DEF e, s, diff
<1>4. ApplyAll(t, diff.feed) = s
  BY <1>2, OneEvent DEF s
<1>5. \A l \in Families : \/ diff.lists[l] = <<ListReplaced(l, r.lists[l])>>
                          \/ diff.lists[l] = <<>> /\ s.rec.lists[l] = r.lists[l]
  BY <1>1, <1>2
<1>6. ASSUME NEW x \in Tracks
      PROVE  \/ r.tracks[x] = None /\ diff.tracks[x] = <<>>
             \/ r.tracks[x] # None /\ DiffOfTrack(x, s.rec.tracks[x], r.tracks[x], diff.tracks[x])
  <2>1. s.rec.tracks[x] = None
    BY <1>1 DEF NoTracks
  <2>2. ItemsOf(s.rec.tracks[x]) = 0
    BY <2>1 DEF ItemsOf
  <2>3. CASE r.tracks[x] = None
    BY <1>2, <2>3
  <2>4. CASE r.tracks[x] # None /\ r.tracks[x].items = 0
    <3>1. diff.tracks[x] = <<TrackUpserted(x, r.tracks[x])>>
      BY <1>2, <2>4
    <3> QED BY <2>2, <2>4, <3>1 DEF DiffOfTrack
  <2>5. CASE r.tracks[x] # None /\ r.tracks[x].items # 0
    <3>1. diff.tracks[x] = <<TrackUpserted(x, r.tracks[x]), TrackItems(x, r.tracks[x].items)>>
      BY <1>2, <2>5
    <3> QED BY <2>5, <3>1 DEF DiffOfTrack
  <2> QED BY <2>3, <2>4, <2>5
<1>7. \A x \in Tracks : s.rec.tracks[x] = None
  BY <1>1 DEF NoTracks
<1> QED BY <1>1, <1>3, <1>4, <1>5, <1>6, <1>7 DEF Prepared, diff

\* A later ingest: the events of what changed from a record the node has, but for
\* what is not compared
LEMMA ChangePrepared ==
    ASSUME NEW t \in Tables, IndexMatches(t), NEW o \in Record, NEW r \in Record, RecAlike(t.rec, o)
    PROVE  Prepared(ApplyAll(t, ChangedEvents(o, r).feed), t, r, ChangedEvents(o, r), Removals(o, r))
<1> DEFINE e == FeedUpserted(r)
           diff == ChangedEvents(o, r)
           s == ApplyAll(t, diff.feed)
<1>1. /\ t.rec # None /\ t.rec.url = o.url /\ t.rec.fields = o.fields /\ t.rec.lists = o.lists /\ o # None
      /\ \A x \in Tracks : TrackAlike(t.rec.tracks[x], o.tracks[x])
  BY NoneAssumption DEF RecAlike
<1>2. /\ diff.feed = IF <<o.url, o.fields>> = <<r.url, r.fields>> THEN <<>> ELSE <<e>>
      /\ \A l \in Families : diff.lists[l] =
            IF ListChanged(o.lists[l], r.lists[l]) THEN <<ListReplaced(l, r.lists[l])>> ELSE <<>>
      /\ \A x \in Tracks : diff.tracks[x] =
            IF r.tracks[x] = None THEN <<>>
            ELSE IF TrackFieldsChanged(o.tracks[x], r.tracks[x])
            THEN IF r.tracks[x].items = 0 /\ ItemsOf(o.tracks[x]) = 0
                 THEN <<TrackUpserted(x, r.tracks[x])>>
                 ELSE <<TrackUpserted(x, r.tracks[x]), TrackItems(x, r.tracks[x].items)>>
            ELSE IF ListChanged(ItemsOf(o.tracks[x]), r.tracks[x].items)
            THEN <<TrackItems(x, r.tracks[x].items)>> ELSE <<>>
  BY DEF ChangedEvents
<1>3. \A x \in Tracks : Removals(o, r)[x] =
         IF o.tracks[x] # None /\ r.tracks[x] = None THEN <<TrackRemoved(x)>> ELSE <<>>
  BY <1>1 DEF Removals
<1> HIDE DEF diff
<1>4. /\ s \in Tables /\ IndexMatches(s) /\ Rest(s) = Rest(t) /\ s.rec # None
      /\ s.rec.url = r.url /\ s.rec.fields = r.fields
      /\ s.rec.lists = t.rec.lists /\ s.rec.tracks = t.rec.tracks
  <2>1. CASE <<o.url, o.fields>> = <<r.url, r.fields>>
    <3>1. s = t
      BY <1>2, <2>1, NoEvent
    <3> QED BY <1>1, <2>1, <3>1
  <2>2. CASE <<o.url, o.fields>> # <<r.url, r.fields>>
    <3>1. LET q == ApplyEvent(t, e)
          IN /\ q \in Tables /\ IndexMatches(q) /\ Rest(q) = Rest(t) /\ q.rec # None
             /\ q.rec.url = r.url /\ q.rec.fields = r.fields
             /\ q.rec.lists = t.rec.lists /\ q.rec.tracks = t.rec.tracks
      BY <1>1, FeedRowParts
    <3> HIDE DEF e
    <3>2. s = ApplyEvent(t, e)
      BY <1>2, <2>2, OneEvent
    <3> QED BY <3>1, <3>2
  <2> QED BY <2>1, <2>2
<1> HIDE DEF e, s
<1>5. \A l \in Families : \/ diff.lists[l] = <<ListReplaced(l, r.lists[l])>>
                          \/ diff.lists[l] = <<>> /\ s.rec.lists[l] = r.lists[l]
  BY <1>1, <1>2, <1>4 DEF ListChanged
<1>6. ASSUME NEW x \in Tracks
      PROVE  \/ r.tracks[x] = None /\ diff.tracks[x] = <<>>
             \/ r.tracks[x] # None /\ DiffOfTrack(x, s.rec.tracks[x], r.tracks[x], diff.tracks[x])
  <2> DEFINE old == o.tracks[x]
             w == r.tracks[x]
             have == s.rec.tracks[x]
  <2>1. TrackAlike(have, old)
    BY <1>1, <1>4
  <2>2. ItemsOf(have) = ItemsOf(old)
    BY <2>1 DEF ItemsOf, TrackAlike
  <2>3. diff.tracks[x] =
            IF w = None THEN <<>>
            ELSE IF TrackFieldsChanged(old, w)
            THEN IF w.items = 0 /\ ItemsOf(old) = 0
                 THEN <<TrackUpserted(x, w)>>
                 ELSE <<TrackUpserted(x, w), TrackItems(x, w.items)>>
            ELSE IF ListChanged(ItemsOf(old), w.items)
            THEN <<TrackItems(x, w.items)>> ELSE <<>>
    BY <1>2
  <2> HIDE DEF old, w, have
  <2>4. CASE w = None
    BY <2>3, <2>4 DEF w
  <2>5. CASE w # None /\ TrackFieldsChanged(old, w)
    <3>1. CASE w.items = 0 /\ ItemsOf(old) = 0
      <4>1. diff.tracks[x] = <<TrackUpserted(x, w)>>
        BY <2>3, <2>5, <3>1
      <4>2. DiffOfTrack(x, have, w, diff.tracks[x])
        BY <2>2, <3>1, <4>1 DEF DiffOfTrack
      <4> QED BY <2>5, <4>2 DEF have, w
    <3>2. CASE ~(w.items = 0 /\ ItemsOf(old) = 0)
      <4>1. diff.tracks[x] = <<TrackUpserted(x, w), TrackItems(x, w.items)>>
        BY <2>3, <2>5, <3>2
      <4>2. DiffOfTrack(x, have, w, diff.tracks[x])
        BY <4>1 DEF DiffOfTrack
      <4> QED BY <2>5, <4>2 DEF have, w
    <3> QED BY <3>1, <3>2
  <2>6. CASE w # None /\ ~TrackFieldsChanged(old, w)
    <3>0. old # None /\ old.fields = w.fields /\ old.file = w.file
      BY <2>6 DEF TrackFieldsChanged
    <3>1. have # None /\ have.fields = w.fields /\ have.file = w.file /\ have.items = old.items
          /\ ItemsOf(old) = old.items
      BY <2>1, <3>0 DEF TrackAlike, ItemsOf
    <3>2. CASE ListChanged(ItemsOf(old), w.items)
      <4>1. diff.tracks[x] = <<TrackItems(x, w.items)>>
        BY <2>3, <2>6, <3>2
      <4>2. DiffOfTrack(x, have, w, diff.tracks[x])
        BY <3>1, <4>1 DEF DiffOfTrack
      <4> QED BY <2>6, <4>2 DEF have, w
    <3>3. CASE ~ListChanged(ItemsOf(old), w.items)
      <4>1. diff.tracks[x] = <<>> /\ old.items = w.items
        BY <2>3, <2>6, <3>1, <3>3 DEF ListChanged
      <4>2. DiffOfTrack(x, have, w, diff.tracks[x])
        BY <2>6, <3>1, <4>1 DEF DiffOfTrack, TrackAlike
      <4> QED BY <2>6, <4>2 DEF have, w
    <3> QED BY <3>2, <3>3
  <2> QED BY <2>4, <2>5, <2>6
<1>7. \A x \in Tracks :
         \/ Removals(o, r)[x] = <<TrackRemoved(x)>> /\ r.tracks[x] = None
         \/ Removals(o, r)[x] = <<>> /\ (r.tracks[x] = None => s.rec.tracks[x] = None)
  BY <1>1, <1>3, <1>4 DEF TrackAlike
<1>8. Prepared(s, t, r, diff, Removals(o, r))
  BY <1>4, <1>5, <1>6, <1>7 DEF Prepared
<1> QED BY <1>8 DEF s, diff

\* The events of an ingest bring the node to the body, but for what is not compared
LEMMA IngestReplay ==
    ASSUME NEW t \in Tables, IndexMatches(t), NEW o \in Record \cup {None}, NEW r \in Record,
           RecAlike(t.rec, o)
    PROVE  LET s == ApplyIngest(t, o, r)
           IN /\ s \in Tables /\ IndexMatches(s) /\ Rest(s) = Rest(t)
              /\ s.rec # None /\ RecAlike(s.rec, r)
<1> DEFINE diff == DiffEvents(o, r)
           gone == Removals(o, r)
           s0 == ApplyAll(t, diff.feed)
           s1 == ApplyEach(s0, FamilyOrder, diff.lists)
           s2 == ApplyEach(s1, TrackOrder, diff.tracks)
           s3 == ApplyEach(s2, TrackOrder, gone)
<1>1. ApplyIngest(t, o, r) = s3
  BY DEF ApplyIngest
<1>2. Prepared(s0, t, r, diff, gone)
  <2>1. CASE o = None
    <3>1. t.rec = None /\ diff = AllEvents(r)
      BY <2>1 DEF RecAlike, DiffEvents
    <3> QED BY <2>1, <3>1, FirstPrepared
  <2>2. CASE o # None
    <3>1. o \in Record /\ diff = ChangedEvents(o, r)
      BY <2>2 DEF DiffEvents
    <3> QED BY <2>2, <3>1, ChangePrepared
  <2> QED BY <2>1, <2>2
<1>0. r # None /\ r.lists \in [Families -> Lists] /\ r.tracks \in [Tracks -> TrackRow \cup {None}]
  BY RecordParts
<1> HIDE DEF diff, gone, s0
<1>3. /\ s0 \in Tables /\ IndexMatches(s0) /\ Rest(s0) = Rest(t) /\ s0.rec # None
      /\ s0.rec.url = r.url /\ s0.rec.fields = r.fields
  BY <1>2 DEF Prepared
<1>4. Based(s1, s0) /\ s1.rec.tracks = s0.rec.tracks /\ s1.rec.lists = r.lists
  <2>1. \A l \in Families : \/ diff.lists[l] = <<ListReplaced(l, r.lists[l])>>
                            \/ diff.lists[l] = <<>> /\ s0.rec.lists[l] = r.lists[l]
    BY <1>2 DEF Prepared
  <2> DEFINE es == diff.lists
             ls == r.lists
  <2>2. \A l \in Families : es[l] = <<ListReplaced(l, ls[l])>> \/ (es[l] = <<>> /\ s0.rec.lists[l] = ls[l])
    BY <2>1
  <2>3. ls \in [Families -> Lists]
    BY <1>0
  <2> HIDE DEF es, ls
  <2>4. LET s == ApplyEach(s0, FamilyOrder, es)
        IN Based(s, s0) /\ s.rec.tracks = s0.rec.tracks /\ s.rec.lists = ls
    BY <1>3, <2>2, <2>3, ListsReplay
  <2> QED BY <2>4 DEF es, ls
<1> HIDE DEF s1
<1>5. s1 \in Tables /\ Based(s1, s1)
  BY <1>4 DEF Based
<1>6. /\ Based(s2, s1) /\ s2.rec.lists = s1.rec.lists
      /\ \A x \in Tracks : IF r.tracks[x] = None THEN s2.rec.tracks[x] = s1.rec.tracks[x]
                           ELSE TrackAlike(s2.rec.tracks[x], r.tracks[x])
  <2> DEFINE es == diff.tracks
             ts == r.tracks
  <2>1. \A x \in Tracks : \/ ts[x] = None /\ es[x] = <<>>
                          \/ ts[x] # None /\ DiffOfTrack(x, s1.rec.tracks[x], ts[x], es[x])
    BY <1>2, <1>4 DEF Prepared
  <2>2. ts \in [Tracks -> TrackRow \cup {None}]
    BY <1>0
  <2> HIDE DEF es, ts
  <2>3. LET s == ApplyEach(s1, TrackOrder, es)
        IN /\ Based(s, s1) /\ s.rec.lists = s1.rec.lists
           /\ \A x \in Tracks : IF ts[x] = None THEN s.rec.tracks[x] = s1.rec.tracks[x]
                                ELSE TrackAlike(s.rec.tracks[x], ts[x])
    BY <1>5, <2>1, <2>2, TracksReplay
  <2> QED BY <2>3 DEF es, ts
<1> HIDE DEF s2
<1>7. s2 \in Tables /\ Based(s2, s2)
  BY <1>6 DEF Based
<1>8. \A x \in Tracks :
         \/ gone[x] = <<TrackRemoved(x)>> /\ r.tracks[x] = None
         \/ gone[x] = <<>> /\ (r.tracks[x] = None => s0.rec.tracks[x] = None)
  BY <1>2 DEF Prepared
<1>9. /\ Based(s3, s2) /\ s3.rec.lists = s2.rec.lists
      /\ \A x \in Tracks : s3.rec.tracks[x] = IF gone[x] = <<>> THEN s2.rec.tracks[x] ELSE None
  BY <1>7, <1>8, GoneReplay
<1> HIDE DEF s3
<1>10. /\ Based(s3, s0) /\ s3.rec.lists = r.lists
  BY <1>4, <1>6, <1>9, BasedOn
<1>11. ASSUME NEW x \in Tracks PROVE TrackAlike(s3.rec.tracks[x], r.tracks[x])
  <2>1. CASE r.tracks[x] = None
    <3>1. s3.rec.tracks[x] = None
      <4>1. CASE gone[x] = <<TrackRemoved(x)>>
        <5>1. gone[x] # <<>>
          BY <4>1
        <5> QED BY <1>9, <5>1
      <4>2. CASE gone[x] = <<>> /\ s0.rec.tracks[x] = None
        BY <1>4, <1>6, <1>9, <2>1, <4>2
      <4> QED BY <1>8, <2>1, <4>1, <4>2
    <3> QED BY <2>1, <3>1 DEF TrackAlike
  <2>2. CASE r.tracks[x] # None
    <3>1. gone[x] = <<>>
      BY <1>8, <2>2
    <3> QED BY <1>6, <1>9, <2>2, <3>1
  <2> QED BY <2>1, <2>2
<1>12. RecAlike(s3.rec, r) /\ s3.rec # None
  BY <1>0, <1>3, <1>10, <1>11 DEF RecAlike, Based
<1> QED BY <1>1, <1>3, <1>10, <1>12 DEF Based

-----------------------------------------------------------------------------
(* The invariant *)

\* A copy row has the digests of the last body its URL sent, and a resolution, if
\* any, is the one the operator made last
CopiesAreSeen ==
    \A u \in Urls : main.copies[u] # None =>
        /\ main.copies[u].sum = seen[u].sum /\ main.copies[u].list = seen[u].list
        /\ main.copies[u].done \in {None, judged[u]}

\* The copy rows of the primary are bounded, and go with the record
CopiesCounted ==
    /\ CopyCount(main) <= (IF main.rec = None THEN 0 ELSE MaxCopies)
    /\ main.rec = None => over = 0

ContentIInv ==
    /\ TypeOK /\ IndexFollows
    /\ RecAlike(node.rec, main.rec) /\ Rest(node) = Rest(main)
    /\ CopiesCounted /\ CopiesAreSeen

\* A row of a track without its routes
Bare(w) == [fields |-> w.fields, file |-> w.file, pay |-> 0, items |-> w.items]

\* The parts of a track's row
LEMMA RowParts ==
    ASSUME NEW w \in TrackRow
    PROVE  /\ w = [fields |-> w.fields, file |-> w.file, pay |-> w.pay, items |-> w.items]
           /\ w.fields \in Fields /\ w.file \in 0..1 /\ w.pay \in Lists /\ w.items \in Lists
           /\ w # None /\ Bare(w) \in TrackRow /\ Bare(w) # None
<1>1. /\ w = [fields |-> w.fields, file |-> w.file, pay |-> w.pay, items |-> w.items]
      /\ w.fields \in Fields /\ w.file \in 0..1 /\ w.pay \in Lists /\ w.items \in Lists
  BY DEF TrackRow
<1>2. Bare(w) \in TrackRow
  BY <1>1 DEF Bare, TrackRow, Lists
<1> QED BY <1>1, <1>2, NoneAssumption

\* The tracks without their routes
BareTracks(ts) == [x \in Tracks |-> IF ts[x] = None THEN None ELSE Bare(ts[x])]

\* What a record carries
LEMMA CarriedParts ==
    ASSUME NEW r \in Record
    PROVE  /\ Carried(r) = [url |-> r.url, fields |-> r.fields, built |-> 0, lists |-> r.lists,
                            tracks |-> BareTracks(r.tracks)]
           /\ Carried(r) # None
<1> DEFINE ts == [x \in Tracks |-> IF r.tracks[x] = None THEN None ELSE [r.tracks[x] EXCEPT !.pay = 0]]
<1>1. \A x \in Tracks : r.tracks[x] # None => [r.tracks[x] EXCEPT !.pay = 0] = Bare(r.tracks[x])
  <2> TAKE x \in Tracks
  <2> HAVE r.tracks[x] # None
  <2> DEFINE w == r.tracks[x]
  <2>1. w \in TrackRow
    BY RecordParts
  <2> HIDE DEF w
  <2>2. [w EXCEPT !.pay = 0] = Bare(w)
    BY <2>1, RowParts DEF Bare
  <2> QED BY <2>2 DEF w
<1>2. ts = BareTracks(r.tracks)
  BY <1>1 DEF BareTracks
<1> HIDE DEF ts
<1> DEFINE r1 == [r EXCEPT !.built = 0]
           c == [url |-> r.url, fields |-> r.fields, built |-> 0, lists |-> r.lists, tracks |-> ts]
<1>3. r1 = [url |-> r.url, fields |-> r.fields, built |-> 0, lists |-> r.lists, tracks |-> r.tracks]
  BY RecordParts
<1>4. Carried(r) = [r1 EXCEPT !.tracks = ts]
  BY RecordParts DEF Carried, ts
<1>5. Carried(r) = c
  <2> HIDE DEF r1
  <2> QED BY <1>3, <1>4
<1>6. BareTracks(r.tracks) \in [Tracks -> TrackRow \cup {None}]
  BY RecordParts, RowParts DEF BareTracks
<1>7. c \in Record
  BY <1>2, <1>6, RecordParts, MakeRecord
<1> QED BY <1>2, <1>5, <1>7, NoneAssumption

\* Two records carry the same exactly when they are alike
LEMMA CarriedAlike ==
    ASSUME NEW a \in Record \cup {None}, NEW b \in Record \cup {None}
    PROVE  Carried(a) = Carried(b) <=> RecAlike(a, b)
<1>1. CASE a = None \/ b = None
  <2>1. Carried(None) = None
    BY DEF Carried
  <2>2. \A r \in Record : Carried(r) # None /\ r # None
    BY CarriedParts, NoneAssumption
  <2> QED BY <1>1, <2>1, <2>2 DEF RecAlike
<1>2. CASE a # None /\ b # None
  <2>1. a \in Record /\ b \in Record
    BY <1>2
  <2>2. /\ a.tracks \in [Tracks -> TrackRow \cup {None}] /\ b.tracks \in [Tracks -> TrackRow \cup {None}]
    BY <2>1, RecordParts
  <2>3. ASSUME NEW x \in Tracks
        PROVE  BareTracks(a.tracks)[x] = BareTracks(b.tracks)[x] <=> TrackAlike(a.tracks[x], b.tracks[x])
    <3> DEFINE v == a.tracks[x]
               w == b.tracks[x]
    <3>1. /\ BareTracks(a.tracks)[x] = IF v = None THEN None ELSE Bare(v)
          /\ BareTracks(b.tracks)[x] = IF w = None THEN None ELSE Bare(w)
      BY DEF BareTracks
    <3>2. v \in TrackRow \cup {None} /\ w \in TrackRow \cup {None}
      BY <2>2
    <3> HIDE DEF v, w
    <3>3. (v # None => Bare(v) # None) /\ (w # None => Bare(w) # None)
      BY <3>2, RowParts
    <3>4. v # None /\ w # None =>
             (Bare(v) = Bare(w) <=> v.fields = w.fields /\ v.file = w.file /\ v.items = w.items)
      BY DEF Bare
    <3>5. (IF v = None THEN None ELSE Bare(v)) = (IF w = None THEN None ELSE Bare(w)) <=> TrackAlike(v, w)
      BY <3>3, <3>4 DEF TrackAlike
    <3> QED BY <3>1, <3>5 DEF v, w
  <2>4. BareTracks(a.tracks) = BareTracks(b.tracks) <=>
           \A x \in Tracks : TrackAlike(a.tracks[x], b.tracks[x])
    <3>1. BareTracks(a.tracks) = BareTracks(b.tracks) <=>
             \A x \in Tracks : BareTracks(a.tracks)[x] = BareTracks(b.tracks)[x]
      BY DEF BareTracks
    <3> QED BY <2>3, <3>1
  <2>5. Carried(a) = Carried(b) <=>
           /\ a.url = b.url /\ a.fields = b.fields /\ a.lists = b.lists
           /\ BareTracks(a.tracks) = BareTracks(b.tracks)
    <3>1. /\ Carried(a) = [url |-> a.url, fields |-> a.fields, built |-> 0, lists |-> a.lists,
                            tracks |-> BareTracks(a.tracks)]
          /\ Carried(b) = [url |-> b.url, fields |-> b.fields, built |-> 0, lists |-> b.lists,
                            tracks |-> BareTracks(b.tracks)]
      BY <2>1, CarriedParts
    <3> QED BY <3>1
  <2> QED BY <1>2, <2>4, <2>5 DEF RecAlike
<1> QED BY <1>1, <1>2

\* The index of tables depends on their record and their index only
LEMMA SameIndex ==
    ASSUME NEW s, NEW t, s.rec = t.rec, s.index = t.index
    PROVE  IndexMatches(s) <=> IndexMatches(t)
BY DEF IndexMatches

\* Tables with other observations, blocks or copies
LEMMA RestParts ==
    ASSUME NEW t \in Tables, NEW c \in [Urls -> CopyRow \cup {None}], NEW o \in SUBSET Urls,
           NEW b \in SUBSET Urls
    PROVE  LET s == [rec |-> t.rec, index |-> t.index, copies |-> c, obs |-> o, blocks |-> b]
           IN /\ s \in Tables /\ s.rec = t.rec /\ s.index = t.index
              /\ Rest(s) = <<c, o, b>> /\ (IndexMatches(s) <=> IndexMatches(t))
<1> DEFINE s == [rec |-> t.rec, index |-> t.index, copies |-> c, obs |-> o, blocks |-> b]
<1>1. s \in Tables
  BY TableParts, MakeTables
<1>2. s.rec = t.rec /\ s.index = t.index /\ s.copies = c /\ s.obs = o /\ s.blocks = b
  OBVIOUS
<1> HIDE DEF s
<1>3. IndexMatches(s) <=> IndexMatches(t)
  BY <1>2, SameIndex
<1> QED BY <1>1, <1>2, <1>3 DEF Rest, s

-----------------------------------------------------------------------------
(* The actions *)

\* The invariant after a step that leaves the copies and what was said of them
LEMMA CopiesStay ==
    ASSUME ContentIInv, main'.copies = main.copies, main'.rec # None,
           UNCHANGED <<over, judged, seen>>
    PROVE  CopiesCounted' /\ CopiesAreSeen'
<1>1. CopyCount(main') = CopyCount(main)
  BY DEF CopyCount
<1>2. CopyCount(main) <= MaxCopies
  <2>1. {u \in Urls : main.copies[u] # None} \subseteq Urls
    OBVIOUS
  <2>2. CopyCount(main) \in Nat
    BY <2>1, FiniteAssumption, FS_Subset, FS_CardinalityType DEF CopyCount
  <2> QED BY <2>2, BoundsAssumption DEF ContentIInv, CopiesCounted
<1>3. CopiesCounted'
  BY <1>1, <1>2 DEF CopiesCounted
<1>4. CopiesAreSeen'
  BY DEF ContentIInv, CopiesAreSeen
<1> QED BY <1>3, <1>4

\* The tables of the primary and of the node, as an ingest finds them
LEMMA TwoTables ==
    ASSUME ContentIInv
    PROVE  /\ main \in Tables /\ node \in Tables /\ IndexMatches(main) /\ IndexMatches(node)
           /\ RecAlike(node.rec, main.rec) /\ Rest(node) = Rest(main)
           /\ node.copies = main.copies /\ node.obs = main.obs /\ node.blocks = main.blocks
           /\ main.rec = None <=> node.rec = None
BY DEF ContentIInv, TypeOK, IndexFollows, RecAlike, Rest

\* ingest_transaction on the primary: the record is the body, and the index follows
LEMMA WrittenParts ==
    ASSUME NEW m \in Tables, IndexMatches(m), NEW r \in Record
    PROVE  LET kept == [x \in Tracks |-> IF r.tracks[x] = None THEN None ELSE m.index.tracks[x]]
               w == SyncReadModels([m EXCEPT !.rec = r, !.index.tracks = kept])
           IN w \in Tables /\ IndexMatches(w) /\ w.rec = r /\ Rest(w) = Rest(m)
<1> DEFINE kept == [x \in Tracks |-> IF r.tracks[x] = None THEN None ELSE m.index.tracks[x]]
           i == [feed |-> m.index.feed, publisher |-> m.index.publisher, tracks |-> kept]
           t1 == [m EXCEPT !.rec = r]
           t == [t1 EXCEPT !.index.tracks = kept]
<1>1. /\ m.index \in Index /\ m.index.tracks \in [Tracks -> Fields \cup {None}]
      /\ m.index = [feed |-> m.index.feed, publisher |-> m.index.publisher, tracks |-> m.index.tracks]
      /\ m.index.feed \in Fields \cup {None} /\ m.index.publisher \in Fields \cup {None}
  BY TableParts DEF Index
<1>2. kept \in [Tracks -> Fields \cup {None}] /\ \A x \in Tracks : r.tracks[x] = None => kept[x] = None
  BY <1>1
<1>3. [m EXCEPT !.rec = r, !.index.tracks = kept] = t
  BY DEF t1
<1> HIDE DEF kept
<1>4. i \in Index
  BY <1>1, <1>2 DEF Index
<1>5. [m.index EXCEPT !.tracks = kept] = i
  BY <1>1
<1> HIDE DEF i
<1>6. t1 = [rec |-> r, index |-> m.index, copies |-> m.copies, obs |-> m.obs, blocks |-> m.blocks]
  BY TableParts
<1> HIDE DEF t1
<1>7. t = [rec |-> r, index |-> i, copies |-> m.copies, obs |-> m.obs, blocks |-> m.blocks]
  BY <1>5, <1>6
<1> HIDE DEF t
<1>8. t \in Tables /\ t.rec = r /\ t.rec # None /\ t.index = i /\ Rest(t) = Rest(m)
  BY <1>4, <1>7, TableParts, MakeTables, NoneAssumption DEF Rest
<1>9. \A x \in Tracks : t.rec.tracks[x] = None => t.index.tracks[x] = None
  <2>1. i.tracks = kept
    BY DEF i
  <2> QED BY <1>2, <1>8, <2>1
<1>10. /\ SyncReadModels(t) \in Tables /\ IndexMatches(SyncReadModels(t))
       /\ SyncReadModels(t).rec = r /\ Rest(SyncReadModels(t)) = Rest(m)
  BY <1>8, <1>9, SyncParts
<1> QED BY <1>3, <1>10 DEF kept

\* Observations that are added to tables
LEMMA ObservedParts ==
    ASSUME NEW t \in Tables, NEW us \in SUBSET Urls
    PROVE  LET s == [t EXCEPT !.obs = t.obs \cup us]
           IN /\ s \in Tables /\ s.rec = t.rec /\ (IndexMatches(s) <=> IndexMatches(t))
              /\ Rest(s) = <<t.copies, t.obs \cup us, t.blocks>>
<1> DEFINE o == t.obs \cup us
           s == [rec |-> t.rec, index |-> t.index, copies |-> t.copies, obs |-> o, blocks |-> t.blocks]
<1>1. o \in SUBSET Urls
  BY TableParts
<1> HIDE DEF o
<1>2. [t EXCEPT !.obs = o] = s
  BY TableParts
<1>3. /\ s \in Tables /\ s.rec = t.rec /\ (IndexMatches(s) <=> IndexMatches(t))
      /\ Rest(s) = <<t.copies, o, t.blocks>>
  BY <1>1, TableParts, RestParts
<1> HIDE DEF s
<1> QED BY <1>2, <1>3 DEF o

\* An ingest leaves the node with what the primary has
LEMMA WriteStep ==
    ASSUME ContentIInv, NEW u \in Urls, NEW b \in Bodies, Write(u, b, {u}),
           UNCHANGED <<over, judged, seen>>
    PROVE  ContentIInv'
<1> DEFINE r == [url |-> u, fields |-> b.fields, built |-> b.built,
                 lists |-> b.lists, tracks |-> b.tracks]
           kept == [x \in Tracks |-> IF r.tracks[x] = None THEN None ELSE main.index.tracks[x]]
           written == SyncReadModels([main EXCEPT !.rec = r, !.index.tracks = kept])
           applied == ApplyIngest(node, main.rec, r)
<1>1. r \in Record
  BY BodiesAssumption, MakeRecord DEF Body, TrackRows
<1>2. /\ \/ /\ main' = [written EXCEPT !.obs = written.obs \cup {u}]
            /\ node' = ApplyEach(applied, UrlOrder, ObserveEvents({u}))
         \/ main' = written /\ node' = applied
      /\ acts' = acts \/ (acts < MaxActs /\ acts' = acts + 1)
  BY DEF Write, Act
<1> HIDE DEF r
<1>3. written \in Tables /\ IndexMatches(written) /\ written.rec = r /\ Rest(written) = Rest(main)
  BY <1>1, TwoTables, WrittenParts
<1>4. /\ applied \in Tables /\ IndexMatches(applied) /\ Rest(applied) = Rest(node)
      /\ applied.rec # None /\ RecAlike(applied.rec, r)
  <2>1. main.rec \in Record \cup {None}
    BY TwoTables, TableParts
  <2> QED BY <1>1, <2>1, TwoTables, IngestReplay
<1> HIDE DEF written, applied
<1>5. Rest(applied) = Rest(written) /\ applied.obs = main.obs /\ written.obs = main.obs
  BY <1>3, <1>4, TwoTables DEF Rest
<1>6. /\ main' \in Tables /\ IndexMatches(main') /\ main'.rec = r /\ main'.copies = main.copies
      /\ node' \in Tables /\ IndexMatches(node') /\ RecAlike(node'.rec, r) /\ Rest(node') = Rest(main')
  <2>1. CASE main' = written /\ node' = applied
    BY <1>3, <1>4, <1>5, <2>1 DEF Rest
  <2>2. CASE /\ main' = [written EXCEPT !.obs = written.obs \cup {u}]
             /\ node' = ApplyEach(applied, UrlOrder, ObserveEvents({u}))
    <3>0. {u} \in SUBSET Urls
      OBVIOUS
    <3>1. node' = [applied EXCEPT !.obs = applied.obs \cup {u}]
      BY <1>4, <1>5, <2>2, <3>0, ObsReplay
    <3>2. /\ main' \in Tables /\ main'.rec = written.rec /\ IndexMatches(main')
          /\ Rest(main') = <<written.copies, written.obs \cup {u}, written.blocks>>
      BY <1>3, <2>2, <3>0, ObservedParts
    <3>3. /\ node' \in Tables /\ node'.rec = applied.rec /\ IndexMatches(node')
          /\ Rest(node') = <<applied.copies, applied.obs \cup {u}, applied.blocks>>
      BY <1>4, <3>0, <3>1, ObservedParts
    <3>4. Rest(node') = Rest(main')
      BY <1>5, <3>2, <3>3 DEF Rest
    <3>5. main'.copies = main.copies
      BY <1>3, <3>2 DEF Rest
    <3> QED BY <1>3, <1>4, <3>2, <3>3, <3>4, <3>5
  <2> QED BY <1>2, <2>1, <2>2
<1>7. main'.rec # None
  BY <1>1, <1>6, NoneAssumption
<1>8. CopiesCounted' /\ CopiesAreSeen'
  BY <1>6, <1>7, CopiesStay
<1>9. TypeOK'
  <2>1. acts' \in 0..MaxActs
    BY <1>2, BoundsAssumption DEF ContentIInv, TypeOK
  <2> QED BY <1>6, <2>1 DEF ContentIInv, TypeOK
<1>10. IndexFollows' /\ RecAlike(node.rec, main.rec)' /\ (Rest(node) = Rest(main))'
  BY <1>6 DEF IndexFollows
<1> QED BY <1>8, <1>9, <1>10 DEF ContentIInv

\* A new record, an update and a move
LEMMA IngestStep ==
    ASSUME ContentIInv, NEW b \in Bodies,
           (\E u \in Urls : Admit(u, b) \/ Move(u, b)) \/ Update(b)
    PROVE  ContentIInv'
<1>1. CASE \E u \in Urls : Admit(u, b) \/ Move(u, b)
  BY <1>1, WriteStep DEF Admit, Move
<1>2. CASE Update(b)
  <2>1. main.rec # None /\ Write(main.rec.url, b, {main.rec.url}) /\ UNCHANGED <<over, judged, seen>>
    BY <1>2 DEF Update
  <2>2. main.rec.url \in Urls
    BY <2>1, TwoTables, TableParts, RecordParts
  <2> QED BY <2>1, <2>2, WriteStep
<1> QED BY <1>1, <1>2

\* The number of copy rows among the copies of a record
Count(cs) == Cardinality({u \in Urls : cs[u] # None})

\* The copies after record_feed_copy_for_ingest has looked at a body
Put(cs, u, s) ==
    IF IF cs[u] = None THEN ~(Count(cs) >= MaxCopies) ELSE CopyChanged(cs[u], s)
    THEN [cs EXCEPT ![u] = [sum |-> s.sum, list |-> s.list, look |-> s.look,
                            done |-> IF cs[u] = None THEN None ELSE cs[u].done]]
    ELSE cs

\* It is a row with the digests of the body, and the old resolution, or none at all;
\* the limit is kept and other rows are not touched
LEMMA PutParts ==
    ASSUME NEW cs \in [Urls -> CopyRow \cup {None}], NEW u \in Urls, NEW s \in CopyBody,
           Count(cs) <= MaxCopies
    PROVE  LET p == Put(cs, u, s)
           IN /\ p \in [Urls -> CopyRow \cup {None}] /\ Count(p) <= MaxCopies
              /\ \A v \in Urls : v # u => p[v] = cs[v]
              /\ p[u] # None => /\ p[u].sum = s.sum /\ p[u].list = s.list
                                /\ p[u].done = IF cs[u] = None THEN None ELSE cs[u].done
<1> DEFINE old == IF cs[u] = None THEN None ELSE cs[u].done
           row == [sum |-> s.sum, list |-> s.list, look |-> s.look, done |-> old]
           p == Put(cs, u, s)
           S == {v \in Urls : cs[v] # None}
           T == {v \in Urls : p[v] # None}
<1>1. row \in CopyRow /\ row # None
  <2>1. old \in Digests \cup {None}
    BY DEF CopyRow
  <2> HIDE DEF old
  <2>2. row \in CopyRow
    BY <2>1 DEF CopyRow, CopyBody
  <2> QED BY <2>2, NoneAssumption
<1>2. row.sum = s.sum /\ row.list = s.list /\ row.done = old
  OBVIOUS
<1>3. p = IF IF cs[u] = None THEN ~(Count(cs) >= MaxCopies) ELSE CopyChanged(cs[u], s)
          THEN [cs EXCEPT ![u] = row] ELSE cs
  BY DEF Put
<1>4. Count(cs) \in Nat /\ IsFiniteSet(S) /\ MaxCopies \in Nat \ {0}
  <2>1. S \subseteq Urls
    OBVIOUS
  <2> QED BY <2>1, FiniteAssumption, BoundsAssumption, FS_Subset, FS_CardinalityType DEF Count
<1> HIDE DEF row, p, old
<1>5. CASE cs[u] = None /\ ~(Count(cs) >= MaxCopies)
  <2>1. p = [cs EXCEPT ![u] = row]
    BY <1>3, <1>5
  <2>2. T = S \cup {u} /\ u \notin S
    BY <1>1, <1>5, <2>1
  <2>3. Cardinality(S \cup {u}) = Cardinality(S) + 1
    BY <1>4, <2>2, FS_AddElement
  <2>4. Count(p) <= MaxCopies
    BY <1>4, <1>5, <2>2, <2>3 DEF Count
  <2> QED BY <1>1, <1>2, <2>1, <2>4 DEF p, old
<1>6. CASE cs[u] # None /\ CopyChanged(cs[u], s)
  <2>1. p = [cs EXCEPT ![u] = row]
    BY <1>3, <1>6
  <2>2. T = S
    BY <1>1, <1>6, <2>1
  <2>3. Count(p) <= MaxCopies
    BY <2>2 DEF Count
  <2> QED BY <1>1, <1>2, <2>1, <2>3 DEF p, old
<1>7. CASE \/ cs[u] = None /\ Count(cs) >= MaxCopies
           \/ cs[u] # None /\ ~CopyChanged(cs[u], s)
  <2>1. p = cs
    BY <1>3, <1>7
  <2>2. p[u] # None => /\ p[u].sum = s.sum /\ p[u].list = s.list
                       /\ p[u].done = IF cs[u] = None THEN None ELSE cs[u].done
    BY <1>7, <2>1 DEF CopyChanged
  <2> QED BY <2>1, <2>2 DEF p
<1> QED BY <1>5, <1>6, <1>7

\* The copy event puts the row where it is signed and where it is applied
LEMMA CopyStep ==
    ASSUME NEW t \in Tables, NEW m, m.copies = t.copies, NEW u \in Urls, NEW s \in CopyBody,
           Count(t.copies) <= MaxCopies
    PROVE  ApplyAll(t, CopyEvents(m, u, s)) =
             [rec |-> t.rec, index |-> t.index, copies |-> Put(t.copies, u, s),
              obs |-> t.obs, blocks |-> t.blocks]
<1> DEFINE e == CopyObserved(u, s)
           writes == IF t.copies[u] = None THEN ~(Count(t.copies) >= MaxCopies)
                     ELSE CopyChanged(t.copies[u], s)
           row == [sum |-> s.sum, list |-> s.list, look |-> s.look,
                   done |-> IF t.copies[u] = None THEN None ELSE t.copies[u].done]
<1>1. CopyEvents(m, u, s) = IF writes THEN <<e>> ELSE <<>>
  BY DEF CopyEvents, IsFull, CopyCount, Count
<1>2. Put(t.copies, u, s) = IF writes THEN [t.copies EXCEPT ![u] = row] ELSE t.copies
  BY DEF Put
<1>3. ApplyEvent(t, e) = [t EXCEPT !.copies[u] = row]
  <2>1. ApplyEvent(t, e) = UpsertCopy(t, u, s)
    BY AppliesCopy
  <2> QED BY <2>1 DEF UpsertCopy
<1> HIDE DEF e, writes, row
<1>4. [t EXCEPT !.copies[u] = row] =
        [rec |-> t.rec, index |-> t.index, copies |-> [t.copies EXCEPT ![u] = row],
         obs |-> t.obs, blocks |-> t.blocks]
  BY TableParts
<1>5. CASE writes
  <2>1. ApplyAll(t, CopyEvents(m, u, s)) = ApplyEvent(t, e)
    BY <1>1, <1>5, OneEvent
  <2> QED BY <1>2, <1>3, <1>4, <1>5, <2>1
<1>6. CASE ~writes
  <2>1. ApplyAll(t, CopyEvents(m, u, s)) = t
    BY <1>1, <1>6, NoEvent
  <2>2. Put(t.copies, u, s) = t.copies
    BY <1>2, <1>6
  <2> QED BY <2>1, <2>2, TableParts
<1> QED BY <1>5, <1>6

\* A summary of a body is one
LEMMA SummaryParts ==
    ASSUME NEW b \in Bodies PROVE CopySummary(b) \in CopyBody
<1>1. b \in Body /\ "routes" \in Families /\ "items" \in Families
  BY BodiesAssumption
<1>2. b.fields \in Fields /\ b.lists \in [Families -> Lists] /\ b.tracks \in [Tracks -> TrackRow \cup {None}]
  BY <1>1 DEF Body, TrackRows
<1> DEFINE ps == [x \in Tracks |-> IF b.tracks[x] = None THEN None ELSE b.tracks[x].pay]
<1>3. ps \in [Tracks -> Lists \cup {None}]
  <2>1. \A x \in Tracks : b.tracks[x] # None => b.tracks[x].pay \in Lists
    BY <1>2, RowParts
  <2> QED BY <2>1
<1>4. CopySummary(b) = [sum |-> [routes |-> b.lists["routes"], pays |-> ps],
                        list |-> b.lists["items"], look |-> b.fields]
  BY DEF CopySummary
<1> HIDE DEF ps
<1>5. [routes |-> b.lists["routes"], pays |-> ps] \in Summary
  BY <1>1, <1>2, <1>3 DEF Summary
<1> QED BY <1>1, <1>2, <1>4, <1>5 DEF CopyBody

\* A mirror body: two URLs, each with its row or refused, and the node in another order
LEMMA MirrorStep ==
    ASSUME ContentIInv, NEW c \in Urls, NEW s \in Urls, NEW b \in Bodies, Mirror(c, s, b)
    PROVE  ContentIInv'
<1> DEFINE S == CopySummary(b)
           first == CopyEvents(main, c, S)
           mid == ApplyAll(main, first)
           second == IF s = c THEN <<>> ELSE CopyEvents(mid, s, S)
           last == ApplyAll(mid, second)
           refused == Cardinality({u \in {c, s} : last.copies[u] = None})
           n0 == ApplyEach(node, UrlOrder, ObserveEvents({c, s}))
           n1 == ApplyAll(n0, first)
           cs == main.copies
           cs1 == Put(cs, c, S)
           cs2 == IF s = c THEN cs1 ELSE Put(cs1, s, S)
<1>1. /\ main.rec # None /\ over + refused <= MaxOver
      /\ main' = [last EXCEPT !.obs = last.obs \cup {c, s}]
      /\ node' = ApplyAll(n1, second)
      /\ over' = over + refused
      /\ seen' = [u \in Urls |-> IF u \in {c, s} /\ last.copies[u] # None THEN S ELSE seen[u]]
      /\ judged' = judged /\ acts' = acts
  BY DEF Mirror
<1>2. S \in CopyBody /\ {c, s} \in SUBSET Urls
  BY SummaryParts
<1>3. /\ main \in Tables /\ node \in Tables /\ IndexMatches(main) /\ IndexMatches(node)
      /\ RecAlike(node.rec, main.rec) /\ Rest(node) = Rest(main)
      /\ node.copies = cs /\ node.obs = main.obs /\ node.blocks = main.blocks
  BY TwoTables
<1>4. cs \in [Urls -> CopyRow \cup {None}] /\ Count(cs) <= MaxCopies
  BY <1>1, <1>3, TableParts DEF ContentIInv, CopiesCounted, CopyCount, Count
<1>5. /\ cs1 \in [Urls -> CopyRow \cup {None}] /\ Count(cs1) <= MaxCopies
      /\ \A v \in Urls : v # c => cs1[v] = cs[v]
      /\ cs1[c] # None => /\ cs1[c].sum = S.sum /\ cs1[c].list = S.list
                          /\ cs1[c].done = IF cs[c] = None THEN None ELSE cs[c].done
  <2> HIDE DEF S, cs
  <2> QED BY <1>2, <1>4, PutParts
<1> HIDE DEF S, first, cs
<1>6. mid = [rec |-> main.rec, index |-> main.index, copies |-> cs1, obs |-> main.obs, blocks |-> main.blocks]
  BY <1>2, <1>3, <1>4, CopyStep DEF first, cs
<1>7. n0 = [node EXCEPT !.obs = node.obs \cup {c, s}]
  BY <1>2, <1>3, ObsReplay
<1>8. /\ n0 \in Tables /\ n0.rec = node.rec /\ IndexMatches(n0)
      /\ Rest(n0) = <<cs, main.obs \cup {c, s}, main.blocks>>
  BY <1>2, <1>3, <1>7, ObservedParts
<1>9. n0.copies = cs /\ n0.obs = main.obs \cup {c, s} /\ n0.blocks = main.blocks
  BY <1>8 DEF Rest
<1> HIDE DEF n0
<1>10. n1 = [rec |-> n0.rec, index |-> n0.index, copies |-> cs1, obs |-> n0.obs, blocks |-> n0.blocks]
  BY <1>2, <1>4, <1>8, <1>9, CopyStep DEF first, cs
<1> HIDE DEF cs1, mid, n1
<1>11. /\ mid \in Tables /\ mid.rec = main.rec /\ mid.index = main.index /\ IndexMatches(mid)
       /\ Rest(mid) = <<cs1, main.obs, main.blocks>>
  BY <1>3, <1>5, <1>6, TableParts, RestParts
<1>12. /\ n1 \in Tables /\ n1.rec = node.rec /\ IndexMatches(n1)
       /\ Rest(n1) = <<cs1, main.obs \cup {c, s}, main.blocks>>
  BY <1>5, <1>8, <1>9, <1>10, TableParts, RestParts
<1>13. /\ mid.copies = cs1 /\ mid.obs = main.obs /\ mid.blocks = main.blocks
       /\ n1.copies = cs1 /\ n1.obs = main.obs \cup {c, s} /\ n1.blocks = main.blocks
  BY <1>11, <1>12 DEF Rest
<1>14. /\ cs2 \in [Urls -> CopyRow \cup {None}] /\ Count(cs2) <= MaxCopies
       /\ \A v \in Urls : v \notin {c, s} => cs2[v] = cs[v]
       /\ \A v \in {c, s} : cs2[v] # None =>
            /\ cs2[v].sum = S.sum /\ cs2[v].list = S.list
            /\ cs2[v].done = IF cs[v] = None THEN None ELSE cs[v].done
  <2>1. CASE s = c
    BY <1>5, <2>1
  <2>2. CASE s # c
    <3> DEFINE p == Put(cs1, s, S)
    <3>1. /\ p \in [Urls -> CopyRow \cup {None}] /\ Count(p) <= MaxCopies
          /\ \A v \in Urls : v # s => p[v] = cs1[v]
          /\ p[s] # None => /\ p[s].sum = S.sum /\ p[s].list = S.list
                            /\ p[s].done = IF cs1[s] = None THEN None ELSE cs1[s].done
      BY <1>2, <1>5, PutParts
    <3>2. cs2 = p
      BY <2>2
    <3> HIDE DEF p, cs2
    <3>3. p[c] = cs1[c] /\ cs1[s] = cs[s]
      BY <1>5, <2>2, <3>1
    <3>4. \A v \in Urls : v \notin {c, s} => p[v] = cs[v]
      BY <1>5, <3>1
    <3> QED BY <1>5, <2>2, <3>1, <3>2, <3>3, <3>4
  <2> QED BY <2>1, <2>2
<1>15. /\ last = [rec |-> mid.rec, index |-> mid.index, copies |-> cs2, obs |-> mid.obs, blocks |-> mid.blocks]
       /\ node' = [rec |-> n1.rec, index |-> n1.index, copies |-> cs2, obs |-> n1.obs, blocks |-> n1.blocks]
  <2>1. CASE s = c
    <3>1. second = <<>> /\ cs2 = cs1
      BY <2>1
    <3> HIDE DEF second, cs2
    <3>2. last = mid /\ node' = n1
      BY <1>1, <3>1, NoEvent
    <3> QED BY <1>11, <1>12, <1>13, <3>1, <3>2, TableParts
  <2>2. CASE s # c
    <3>1. second = CopyEvents(mid, s, S) /\ cs2 = Put(cs1, s, S)
      BY <2>2
    <3> HIDE DEF second, cs2
    <3>2. Count(mid.copies) <= MaxCopies /\ Count(n1.copies) <= MaxCopies /\ mid.copies = n1.copies
      BY <1>5, <1>13
    <3>3. ApplyAll(mid, CopyEvents(mid, s, S)) =
            [rec |-> mid.rec, index |-> mid.index, copies |-> Put(mid.copies, s, S),
             obs |-> mid.obs, blocks |-> mid.blocks]
      BY <1>2, <1>11, <3>2, CopyStep
    <3>4. ApplyAll(n1, CopyEvents(mid, s, S)) =
            [rec |-> n1.rec, index |-> n1.index, copies |-> Put(n1.copies, s, S),
             obs |-> n1.obs, blocks |-> n1.blocks]
      BY <1>2, <1>12, <3>2, CopyStep
    <3> QED BY <1>1, <1>13, <3>1, <3>3, <3>4
  <2> QED BY <2>1, <2>2
<1> HIDE DEF second, last, cs2
<1>16. /\ last \in Tables /\ last.rec = main.rec /\ IndexMatches(last)
       /\ Rest(last) = <<cs2, main.obs, main.blocks>>
  BY <1>11, <1>13, <1>14, <1>15, TableParts, RestParts
<1>17. last.copies = cs2 /\ last.obs = main.obs /\ last.blocks = main.blocks
  BY <1>16 DEF Rest
<1>18. /\ node' \in Tables /\ node'.rec = node.rec /\ IndexMatches(node')
       /\ Rest(node') = <<cs2, main.obs \cup {c, s}, main.blocks>>
  BY <1>12, <1>13, <1>14, <1>15, TableParts, RestParts
<1>19. /\ main' \in Tables /\ main'.rec = main.rec /\ IndexMatches(main')
       /\ Rest(main') = <<cs2, main.obs \cup {c, s}, main.blocks>>
  BY <1>1, <1>2, <1>16, <1>17, ObservedParts
<1>20. main'.copies = cs2
  BY <1>19 DEF Rest
<1>21. over' \in 0..MaxOver
  <2> DEFINE Z == {u \in {c, s} : last.copies[u] = None}
  <2>1. IsFiniteSet({c, s})
    BY FiniteAssumption, FS_Subset
  <2>2. Z \subseteq {c, s}
    OBVIOUS
  <2> HIDE DEF Z
  <2>3. Cardinality(Z) \in Nat
    BY <2>1, <2>2, FS_Subset, FS_CardinalityType
  <2>4. refused = Cardinality(Z)
    BY DEF Z
  <2> HIDE DEF refused
  <2> QED BY <1>1, <2>3, <2>4, BoundsAssumption DEF ContentIInv, TypeOK
<1> HIDE DEF refused
<1>22. seen' \in [Urls -> CopyBody \cup {None}]
  BY <1>1, <1>2 DEF ContentIInv, TypeOK
<1>23. TypeOK'
  BY <1>1, <1>18, <1>19, <1>21, <1>22 DEF ContentIInv, TypeOK
<1>24. CopiesCounted'
  <2>1. CopyCount(main') = Count(cs2)
    BY <1>20 DEF CopyCount, Count
  <2> QED BY <1>1, <1>14, <1>19, <2>1 DEF CopiesCounted
<1>25. CopiesAreSeen'
  <2> SUFFICES ASSUME NEW u \in Urls, cs2[u] # None
               PROVE  /\ cs2[u].sum = seen'[u].sum /\ cs2[u].list = seen'[u].list
                      /\ cs2[u].done \in {None, judged[u]}
    BY <1>1, <1>20 DEF CopiesAreSeen
  <2>0. cs[u] # None => /\ cs[u].sum = seen[u].sum /\ cs[u].list = seen[u].list
                        /\ cs[u].done \in {None, judged[u]}
    BY DEF ContentIInv, CopiesAreSeen, cs
  <2>1. CASE u \in {c, s}
    <3>1. seen'[u] = S
      BY <1>1, <1>17, <2>1
    <3> QED BY <1>14, <2>0, <2>1, <3>1
  <2>2. CASE u \notin {c, s}
    <3>1. seen'[u] = seen[u]
      BY <1>1, <2>2
    <3> QED BY <1>14, <2>0, <2>2, <3>1
  <2> QED BY <2>1, <2>2
<1>26. IndexFollows' /\ RecAlike(node.rec, main.rec)' /\ (Rest(node) = Rest(main))'
  BY <1>3, <1>18, <1>19 DEF IndexFollows
<1> QED BY <1>23, <1>24, <1>25, <1>26 DEF ContentIInv

\* relocate_feed: the record has another URL and no build date
LEMMA RelocatedParts ==
    ASSUME NEW t \in Tables, t.rec # None, IndexMatches(t), NEW u \in Urls
    PROVE  LET s == Relocated(t, u)
           IN /\ s \in Tables /\ IndexMatches(s) /\ Rest(s) = Rest(t) /\ s.rec \in Record
              /\ s.rec.url = u /\ s.rec.fields = t.rec.fields
              /\ s.rec.lists = t.rec.lists /\ s.rec.tracks = t.rec.tracks
<1> DEFINE r1 == [url |-> u, fields |-> t.rec.fields, built |-> t.rec.built,
                  lists |-> t.rec.lists, tracks |-> t.rec.tracks]
           r == [url |-> u, fields |-> t.rec.fields, built |-> 0,
                 lists |-> t.rec.lists, tracks |-> t.rec.tracks]
           t1 == [t EXCEPT !.rec.url = u]
           s == Relocated(t, u)
<1>1. t.rec \in Record
  BY TableParts
<1>2. [t.rec EXCEPT !.url = u] = r1 /\ [r1 EXCEPT !.built = 0] = r
  BY <1>1, RecordParts
<1>3. s = [t1 EXCEPT !.rec.built = 0]
  BY DEF Relocated
<1>4. r \in Record
  BY <1>1, RecordParts, MakeRecord
<1>5. r.url = u /\ r.fields = t.rec.fields /\ r.lists = t.rec.lists /\ r.tracks = t.rec.tracks
  OBVIOUS
<1> HIDE DEF r1, r
<1>6. t1 = [rec |-> r1, index |-> t.index, copies |-> t.copies, obs |-> t.obs, blocks |-> t.blocks]
  BY <1>2, TableParts
<1> HIDE DEF t1
<1>7. s = [rec |-> r, index |-> t.index, copies |-> t.copies, obs |-> t.obs, blocks |-> t.blocks]
  BY <1>2, <1>3, <1>6
<1> HIDE DEF s
<1>8. s \in Tables /\ s.rec = r /\ s.index = t.index /\ Rest(s) = Rest(t)
  BY <1>4, <1>7, TableParts, MakeTables DEF Rest
<1>9. IndexMatches(s)
  BY <1>4, <1>5, <1>8, NoneAssumption DEF IndexMatches
<1> QED BY <1>4, <1>5, <1>8, <1>9 DEF s

\* set_feed_copy_resolution of a row that is there
LEMMA ResolvedParts ==
    ASSUME NEW t \in Tables, NEW u \in Urls, t.copies[u] # None, NEW d \in Digests
    PROVE  LET s == ResolveCopy(t, u, d)
               cs == [t.copies EXCEPT ![u] = [sum |-> t.copies[u].sum, list |-> t.copies[u].list,
                                              look |-> t.copies[u].look, done |-> d]]
           IN /\ s \in Tables /\ s.rec = t.rec /\ s.index = t.index
              /\ (IndexMatches(s) <=> IndexMatches(t))
              /\ cs \in [Urls -> CopyRow \cup {None}] /\ Rest(s) = <<cs, t.obs, t.blocks>>
<1> DEFINE row == [sum |-> t.copies[u].sum, list |-> t.copies[u].list,
                   look |-> t.copies[u].look, done |-> d]
           cs == [t.copies EXCEPT ![u] = row]
           s == ResolveCopy(t, u, d)
<1>1. t.copies \in [Urls -> CopyRow \cup {None}] /\ t.copies[u] \in CopyRow
  BY TableParts
<1>2. row \in CopyRow /\ [t.copies[u] EXCEPT !.done = d] = row
  BY <1>1 DEF CopyRow
<1> HIDE DEF row
<1>3. cs \in [Urls -> CopyRow \cup {None}] /\ [t.copies EXCEPT ![u].done = d] = cs
  BY <1>1, <1>2
<1> HIDE DEF cs
<1>4. s = [rec |-> t.rec, index |-> t.index, copies |-> cs, obs |-> t.obs, blocks |-> t.blocks]
  BY <1>3, TableParts DEF ResolveCopy
<1> HIDE DEF s
<1>5. /\ s \in Tables /\ s.rec = t.rec /\ s.index = t.index
      /\ (IndexMatches(s) <=> IndexMatches(t)) /\ Rest(s) = <<cs, t.obs, t.blocks>>
  BY <1>3, <1>4, TableParts, RestParts
<1> QED BY <1>3, <1>5 DEF s, cs, row

\* delete_feed_sql: nothing of the record is left
LEMMA DeletedParts ==
    ASSUME NEW t \in Tables, IndexMatches(t), t.rec # None
    PROVE  LET s == DeleteFeed(t)
           IN /\ s \in Tables /\ IndexMatches(s) /\ s.rec = None
              /\ Rest(s) = <<NoCopies, t.obs, t.blocks>>
<1> DEFINE it == [x \in Tracks |-> IF t.rec.tracks[x] = None THEN t.index.tracks[x] ELSE None]
           i == [feed |-> None, publisher |-> None, tracks |-> it]
           t1 == [t EXCEPT !.rec = None]
           t2 == [t1 EXCEPT !.index = i]
           s == DeleteFeed(t)
<1>1. \A x \in Tracks : it[x] = None
  BY DEF IndexMatches
<1>2. s = [t2 EXCEPT !.copies = NoCopies]
  BY TableParts DEF DeleteFeed
<1>3. it \in [Tracks -> Fields \cup {None}]
  BY <1>1
<1> HIDE DEF it
<1>4. i \in Index
  BY <1>3 DEF Index
<1>5. i.feed = None /\ i.publisher = None /\ i.tracks = it
  OBVIOUS
<1> HIDE DEF i
<1>6. t1 = [rec |-> None, index |-> t.index, copies |-> t.copies, obs |-> t.obs, blocks |-> t.blocks]
  BY TableParts
<1> HIDE DEF t1
<1>7. t2 = [rec |-> None, index |-> i, copies |-> t.copies, obs |-> t.obs, blocks |-> t.blocks]
  BY <1>6
<1> HIDE DEF t2, s
<1>8. s = [rec |-> None, index |-> i, copies |-> NoCopies, obs |-> t.obs, blocks |-> t.blocks]
  BY <1>2, <1>7
<1>9. NoCopies \in [Urls -> CopyRow \cup {None}]
  BY DEF NoCopies
<1>10. s \in Tables /\ s.rec = None /\ s.index = i /\ Rest(s) = <<NoCopies, t.obs, t.blocks>>
  BY <1>4, <1>8, <1>9, TableParts, MakeTables DEF Rest
<1>11. IndexMatches(s)
  BY <1>1, <1>5, <1>10 DEF IndexMatches
<1> QED BY <1>10, <1>11 DEF s

\* insert_feed_block of a URL that is not blocked
LEMMA BlockedParts ==
    ASSUME NEW t \in Tables, NEW u \in Urls, u \notin t.blocks
    PROVE  LET s == BlockUrl(t, u)
           IN /\ s \in Tables /\ s.rec = t.rec /\ (IndexMatches(s) <=> IndexMatches(t))
              /\ Rest(s) = <<[t.copies EXCEPT ![u] = None], t.obs, t.blocks \cup {u}>>
<1> DEFINE bs == t.blocks \cup {u}
           cs == [t.copies EXCEPT ![u] = None]
           t1 == [t EXCEPT !.blocks = bs]
           s == BlockUrl(t, u)
<1>1. bs \in SUBSET Urls /\ cs \in [Urls -> CopyRow \cup {None}]
  BY TableParts
<1>2. s = [t1 EXCEPT !.copies[u] = None]
  BY DEF BlockUrl
<1> HIDE DEF bs
<1>3. t1 = [rec |-> t.rec, index |-> t.index, copies |-> t.copies, obs |-> t.obs, blocks |-> bs]
  BY TableParts
<1> HIDE DEF t1, s
<1>4. s = [rec |-> t.rec, index |-> t.index, copies |-> cs, obs |-> t.obs, blocks |-> bs]
  BY <1>2, <1>3
<1> HIDE DEF cs
<1>5. /\ s \in Tables /\ s.rec = t.rec /\ (IndexMatches(s) <=> IndexMatches(t))
      /\ Rest(s) = <<cs, t.obs, bs>>
  BY <1>1, <1>4, TableParts, RestParts
<1> QED BY <1>5 DEF s, cs, bs

\* delete_feed_block
LEMMA UnblockedParts ==
    ASSUME NEW t \in Tables, NEW u \in Urls
    PROVE  LET s == [t EXCEPT !.blocks = @ \ {u}]
           IN /\ s \in Tables /\ s.rec = t.rec /\ (IndexMatches(s) <=> IndexMatches(t))
              /\ Rest(s) = <<t.copies, t.obs, t.blocks \ {u}>>
<1> DEFINE bs == t.blocks \ {u}
           s == [t EXCEPT !.blocks = @ \ {u}]
<1>1. bs \in SUBSET Urls
  BY TableParts
<1>2. s = [t EXCEPT !.blocks = bs]
  OBVIOUS
<1> HIDE DEF bs, s
<1>3. s = [rec |-> t.rec, index |-> t.index, copies |-> t.copies, obs |-> t.obs, blocks |-> bs]
  BY <1>2, TableParts
<1>4. /\ s \in Tables /\ s.rec = t.rec /\ (IndexMatches(s) <=> IndexMatches(t))
      /\ Rest(s) = <<t.copies, t.obs, bs>>
  BY <1>1, <1>3, TableParts, RestParts
<1> QED BY <1>4 DEF s, bs

\* PATCH of a track on the primary: another file, the same text and items
LEMMA PatchedParts ==
    ASSUME NEW t \in Tables, IndexMatches(t), t.rec # None, NEW x \in Tracks, t.rec.tracks[x] # None,
           NEW f \in 0..1
    PROVE  LET s == [t EXCEPT !.rec.tracks[x].file = f]
               row == [fields |-> t.rec.tracks[x].fields, file |-> f,
                       pay |-> t.rec.tracks[x].pay, items |-> t.rec.tracks[x].items]
           IN /\ Based(s, t) /\ s.rec.lists = t.rec.lists /\ row \in TrackRow
              /\ s.rec.tracks = [t.rec.tracks EXCEPT ![x] = row]
<1> DEFINE w == [fields |-> t.rec.tracks[x].fields, file |-> f,
                 pay |-> t.rec.tracks[x].pay, items |-> t.rec.tracks[x].items]
           ts == [t.rec.tracks EXCEPT ![x] = w]
           n == [url |-> t.rec.url, fields |-> t.rec.fields, built |-> t.rec.built,
                 lists |-> t.rec.lists, tracks |-> ts]
           s == [t EXCEPT !.rec.tracks[x].file = f]
<1>1. t.rec \in Record /\ t.rec.tracks \in [Tracks -> TrackRow \cup {None}] /\ t.rec.tracks[x] \in TrackRow
  BY TableParts, RecordParts
<1>2. /\ w \in TrackRow /\ w # None /\ w.fields = t.rec.tracks[x].fields
      /\ [t.rec.tracks[x] EXCEPT !.file = f] = w
  <2>1. w \in TrackRow /\ w.fields = t.rec.tracks[x].fields /\ [t.rec.tracks[x] EXCEPT !.file = f] = w
    BY <1>1 DEF TrackRow
  <2> QED BY <2>1, NoneAssumption
<1> HIDE DEF w
<1>3. s = [rec |-> n, index |-> t.index, copies |-> t.copies, obs |-> t.obs, blocks |-> t.blocks]
  <2>1. [t.rec.tracks EXCEPT ![x].file = f] = ts
    BY <1>1, <1>2
  <2>2. [t.rec EXCEPT !.tracks[x].file = f] = n
    <3> HIDE DEF ts
    <3> QED BY <1>1, <2>1, RecordParts
  <2> HIDE DEF n
  <2> QED BY <2>2, TableParts
<1> HIDE DEF s
<1>4. ts \in [Tracks -> TrackRow \cup {None}] /\ ts[x] = w /\ \A y \in Tracks : y # x => ts[y] = t.rec.tracks[y]
  BY <1>1, <1>2
<1>5. n \in Record /\ n # None
  <2> HIDE DEF ts
  <2>1. n \in Record
    BY <1>1, <1>4, RecordParts, MakeRecord
  <2> QED BY <2>1, NoneAssumption
<1>6. s \in Tables /\ s.rec = n /\ s.index = t.index /\ Rest(s) = Rest(t)
  <2> HIDE DEF n
  <2> QED BY <1>3, <1>5, TableParts, MakeTables DEF Rest
<1>7. IndexMatches(s)
  <2>1. s.rec.tracks = ts /\ s.rec.fields = t.rec.fields
    BY <1>6
  <2>2. \A y \in Tracks : (ts[y] = None <=> t.rec.tracks[y] = None) /\ ts[y].fields = t.rec.tracks[y].fields
    <3> HIDE DEF ts
    <3> QED BY <1>2, <1>4
  <2> HIDE DEF ts, n
  <2> QED BY <1>5, <1>6, <2>1, <2>2 DEF IndexMatches
<1> QED BY <1>2, <1>5, <1>6, <1>7 DEF Based, s, w

\* A relocation on both sides
LEMMA RelocatePair ==
    ASSUME ContentIInv, main.rec # None, NEW u \in Urls
    PROVE  LET m == Relocated(main, u)
               n == ApplyEvent(node, FeedUpserted(m.rec))
           IN /\ m \in Tables /\ n \in Tables /\ IndexMatches(m) /\ IndexMatches(n)
              /\ Rest(m) = Rest(main) /\ Rest(n) = Rest(main) /\ m.rec # None
              /\ RecAlike(n.rec, m.rec)
<1> DEFINE m == Relocated(main, u)
           r == m.rec
           n == ApplyEvent(node, FeedUpserted(r))
<1>1. /\ main \in Tables /\ node \in Tables /\ IndexMatches(main) /\ IndexMatches(node)
      /\ RecAlike(node.rec, main.rec) /\ Rest(node) = Rest(main) /\ node.rec # None
  BY TwoTables
<1>2. /\ m \in Tables /\ IndexMatches(m) /\ Rest(m) = Rest(main) /\ r \in Record
      /\ r.url = u /\ r.fields = main.rec.fields
      /\ r.lists = main.rec.lists /\ r.tracks = main.rec.tracks
  BY <1>1, RelocatedParts
<1> HIDE DEF m, r
<1>3. /\ n \in Tables /\ IndexMatches(n) /\ Rest(n) = Rest(node) /\ n.rec # None
      /\ n.rec.url = r.url /\ n.rec.fields = r.fields
      /\ n.rec.lists = node.rec.lists /\ n.rec.tracks = node.rec.tracks
  BY <1>1, <1>2, FeedRowParts
<1> HIDE DEF n
<1>4. r # None
  BY <1>2, NoneAssumption
<1>5. RecAlike(n.rec, r)
  BY <1>1, <1>2, <1>3, <1>4 DEF RecAlike
<1> QED BY <1>1, <1>2, <1>3, <1>4, <1>5 DEF n, r, m

\* The count of bounded steps keeps its type
LEMMA ActKeeps ==
    ASSUME ContentIInv, Act PROVE acts' \in 0..MaxActs
BY BoundsAssumption DEF ContentIInv, TypeOK, Act

\* A step that changes the record on both sides alike and leaves the copies
LEMMA RecordStep ==
    ASSUME ContentIInv, UNCHANGED <<over, judged, seen>>, acts' \in 0..MaxActs,
           main' \in Tables, node' \in Tables, IndexMatches(main'), IndexMatches(node'),
           Rest(main') = Rest(main), Rest(node') = Rest(main), main'.rec # None,
           RecAlike(node'.rec, main'.rec)
    PROVE  ContentIInv'
<1>1. main'.copies = main.copies
  BY DEF Rest
<1>2. CopiesCounted' /\ CopiesAreSeen'
  BY <1>1, CopiesStay
<1>3. TypeOK'
  BY DEF ContentIInv, TypeOK
<1>4. IndexFollows' /\ RecAlike(node.rec, main.rec)' /\ (Rest(node) = Rest(main))'
  BY DEF IndexFollows
<1> QED BY <1>2, <1>3, <1>4 DEF ContentIInv

\* PATCH of the feed's URL
LEMMA RelocateStep ==
    ASSUME ContentIInv, NEW u \in Urls, Relocate(u)
    PROVE  ContentIInv'
<1> DEFINE e == FeedUpserted(main'.rec)
<1>1. /\ main.rec # None /\ Act /\ main' = Relocated(main, u)
      /\ node' = ApplyAll(node, <<e>>) /\ UNCHANGED <<over, judged, seen>>
  BY DEF Relocate, Sign
<1>2. node' = ApplyEvent(node, e)
  <2> HIDE DEF e
  <2> QED BY <1>1, OneEvent
<1>3. /\ main' \in Tables /\ node' \in Tables /\ IndexMatches(main') /\ IndexMatches(node')
      /\ Rest(main') = Rest(main) /\ Rest(node') = Rest(main) /\ main'.rec # None
      /\ RecAlike(node'.rec, main'.rec)
  BY <1>1, <1>2, RelocatePair
<1> QED BY <1>1, <1>3, ActKeeps, RecordStep

\* The decision on a copy, with or without a relocation
LEMMA ResolveStep ==
    ASSUME ContentIInv, NEW u \in Urls, NEW decision, Resolve(u, decision)
    PROVE  ContentIInv'
<1> DEFINE d == [sum |-> main.copies[u].sum, list |-> main.copies[u].list]
           cs == main.copies
           ds == [cs EXCEPT ![u] = [sum |-> cs[u].sum, list |-> cs[u].list, look |-> cs[u].look, done |-> d]]
<1>1. /\ main.rec # None /\ cs[u] # None /\ Act
      /\ judged' = [judged EXCEPT ![u] = d] /\ over' = over /\ seen' = seen
      /\ \/ /\ main' = ResolveCopy(Relocated(main, u), u, d)
            /\ node' = ApplyAll(node, <<FeedUpserted(main'.rec), CopyResolved(u, d)>>)
         \/ /\ main' = ResolveCopy(main, u, d)
            /\ node' = ApplyAll(node, <<CopyResolved(u, d)>>)
  BY DEF Resolve, Sign
<1>2. /\ main \in Tables /\ node \in Tables /\ IndexMatches(main) /\ IndexMatches(node)
      /\ RecAlike(node.rec, main.rec) /\ Rest(node) = Rest(main)
  BY TwoTables
<1>3. cs \in [Urls -> CopyRow \cup {None}] /\ cs[u] \in CopyRow
  BY <1>1, <1>2, TableParts
<1>4. d \in Digests
  BY <1>3 DEF CopyRow, Digests
<1> HIDE DEF d
<1>5. ASSUME NEW t \in Tables, t.copies = cs
      PROVE  /\ ResolveCopy(t, u, d) \in Tables /\ ResolveCopy(t, u, d).rec = t.rec
             /\ (IndexMatches(ResolveCopy(t, u, d)) <=> IndexMatches(t))
             /\ ds \in [Urls -> CopyRow \cup {None}]
             /\ Rest(ResolveCopy(t, u, d)) = <<ds, t.obs, t.blocks>>
  BY <1>1, <1>4, <1>5, ResolvedParts
<1> HIDE DEF ds
<1>6. /\ main' \in Tables /\ node' \in Tables /\ IndexMatches(main') /\ IndexMatches(node')
      /\ Rest(main') = <<ds, main.obs, main.blocks>> /\ Rest(node') = Rest(main')
      /\ main'.rec # None /\ RecAlike(node'.rec, main'.rec) /\ ds \in [Urls -> CopyRow \cup {None}]
  <2>1. CASE /\ main' = ResolveCopy(main, u, d)
             /\ node' = ApplyAll(node, <<CopyResolved(u, d)>>)
    <3> DEFINE e == CopyResolved(u, d)
    <3>1. ApplyEvent(node, e) = ResolveCopy(node, u, d)
      BY AppliesResolved
    <3> HIDE DEF e
    <3>2. node' = ResolveCopy(node, u, d)
      BY <2>1, <3>1, OneEvent DEF e
    <3>3. node.copies = cs /\ node.obs = main.obs /\ node.blocks = main.blocks
      BY <1>2 DEF Rest
    <3> QED BY <1>1, <1>2, <1>5, <2>1, <3>2, <3>3
  <2>2. CASE /\ main' = ResolveCopy(Relocated(main, u), u, d)
             /\ node' = ApplyAll(node, <<FeedUpserted(main'.rec), CopyResolved(u, d)>>)
    <3> DEFINE m == Relocated(main, u)
               n == ApplyEvent(node, FeedUpserted(m.rec))
               e == CopyResolved(u, d)
               f == FeedUpserted(main'.rec)
    <3>1. /\ m \in Tables /\ n \in Tables /\ IndexMatches(m) /\ IndexMatches(n)
          /\ Rest(m) = Rest(main) /\ Rest(n) = Rest(main) /\ m.rec # None /\ RecAlike(n.rec, m.rec)
      BY <1>1, RelocatePair
    <3> HIDE DEF m
    <3>2. /\ m.copies = cs /\ m.obs = main.obs /\ m.blocks = main.blocks
          /\ n.copies = cs /\ n.obs = main.obs /\ n.blocks = main.blocks
      <4> HIDE DEF n
      <4> QED BY <3>1 DEF Rest
    <3>3. /\ main' \in Tables /\ main'.rec = m.rec /\ IndexMatches(main')
          /\ Rest(main') = <<ds, main.obs, main.blocks>> /\ ds \in [Urls -> CopyRow \cup {None}]
      BY <1>5, <2>2, <3>1, <3>2 DEF m
    <3>4. ApplyEvent(node, f) = n
      BY <3>3
    <3>5. ApplyEvent(n, e) = ResolveCopy(n, u, d)
      BY AppliesResolved
    <3> HIDE DEF n, e, f
    <3>6. ApplyAll(node, <<f, e>>) = ApplyEvent(ApplyEvent(node, f), e)
      BY TwoEvents
    <3>7. node' = ResolveCopy(n, u, d)
      BY <2>2, <3>4, <3>5, <3>6 DEF e, f
    <3>8. /\ node' \in Tables /\ node'.rec = n.rec /\ IndexMatches(node')
          /\ Rest(node') = <<ds, main.obs, main.blocks>>
      BY <1>5, <3>1, <3>2, <3>7
    <3> QED BY <3>1, <3>3, <3>8
  <2> QED BY <1>1, <2>1, <2>2
<1>7. main'.copies = ds
  BY <1>6 DEF Rest
<1>8. /\ \A v \in Urls : v # u => ds[v] = cs[v]
      /\ ds[u] = [sum |-> cs[u].sum, list |-> cs[u].list, look |-> cs[u].look, done |-> d]
  BY <1>3 DEF ds
<1>9. ds[u].sum = cs[u].sum /\ ds[u].list = cs[u].list /\ ds[u].done = d
  BY <1>8
<1>10. ds[u] # None
  <2>1. ds[u] \in CopyRow
    BY <1>3, <1>4, <1>8 DEF CopyRow
  <2> QED BY <2>1, NoneAssumption
<1>11. judged' \in [Urls -> Digests \cup {None}] /\ judged'[u] = d /\ \A v \in Urls : v # u => judged'[v] = judged[v]
  BY <1>1, <1>4 DEF ContentIInv, TypeOK
<1>12. CopiesAreSeen'
  <2> SUFFICES ASSUME NEW v \in Urls, ds[v] # None
               PROVE  /\ ds[v].sum = seen[v].sum /\ ds[v].list = seen[v].list
                      /\ ds[v].done \in {None, judged'[v]}
    BY <1>1, <1>7 DEF CopiesAreSeen
  <2>1. cs[v] # None => /\ cs[v].sum = seen[v].sum /\ cs[v].list = seen[v].list
                        /\ cs[v].done \in {None, judged[v]}
    BY DEF ContentIInv, CopiesAreSeen
  <2>2. CASE v = u
    BY <1>1, <1>9, <1>11, <2>1, <2>2
  <2>3. CASE v # u
    BY <1>8, <1>11, <2>1, <2>3
  <2> QED BY <2>2, <2>3
<1>13. CopiesCounted'
  <2>1. {v \in Urls : ds[v] # None} = {v \in Urls : cs[v] # None}
    BY <1>1, <1>8, <1>10
  <2>2. CopyCount(main') = CopyCount(main)
    BY <1>7, <2>1 DEF CopyCount
  <2> QED BY <1>1, <1>6, <2>2 DEF ContentIInv, CopiesCounted
<1>14. TypeOK'
  BY <1>1, <1>6, <1>11, ActKeeps DEF ContentIInv, TypeOK
<1>15. IndexFollows' /\ RecAlike(node.rec, main.rec)' /\ (Rest(node) = Rest(main))'
  BY <1>6 DEF IndexFollows
<1> QED BY <1>12, <1>13, <1>14, <1>15 DEF ContentIInv

\* PATCH and DELETE of a track
LEMMA TrackActs ==
    ASSUME ContentIInv, NEW x \in Tracks, RemoveTrack(x) \/ \E f \in 0..1 : PatchTrack(x, f)
    PROVE  ContentIInv'
<1>1. /\ main \in Tables /\ node \in Tables /\ IndexMatches(main) /\ IndexMatches(node)
      /\ RecAlike(node.rec, main.rec) /\ Rest(node) = Rest(main)
  BY TwoTables
<1>2. /\ main.rec # None /\ main.rec.tracks[x] # None /\ acts' \in 0..MaxActs
      /\ UNCHANGED <<over, judged, seen>>
  BY ActKeeps DEF RemoveTrack, PatchTrack
<1>3. /\ node.rec # None /\ node.rec.tracks[x] # None /\ node.rec.lists = main.rec.lists
      /\ node.rec.url = main.rec.url /\ node.rec.fields = main.rec.fields
      /\ \A y \in Tracks : TrackAlike(node.rec.tracks[y], main.rec.tracks[y])
  BY <1>1, <1>2 DEF RecAlike, TrackAlike
<1>4. /\ main.rec.tracks \in [Tracks -> TrackRow \cup {None}]
      /\ node.rec.tracks \in [Tracks -> TrackRow \cup {None}]
  BY <1>1, <1>2, <1>3, TableParts, RecordParts
<1>5. CASE RemoveTrack(x)
  <2> DEFINE e == TrackRemoved(x)
  <2>1. main' = DeleteTrack(main, x) /\ node' = ApplyAll(node, <<e>>)
    BY <1>5 DEF RemoveTrack, Sign
  <2>2. ApplyEvent(node, e) = DeleteTrack(node, x)
    BY <1>3, AppliesRemoval
  <2> HIDE DEF e
  <2>3. node' = DeleteTrack(node, x)
    BY <2>1, <2>2, OneEvent
  <2>4. /\ Based(main', main) /\ main'.rec.lists = main.rec.lists
        /\ main'.rec.tracks = [main.rec.tracks EXCEPT ![x] = None]
    BY <1>1, <1>2, <2>1, TrackGoneParts
  <2>5. /\ Based(node', node) /\ node'.rec.lists = node.rec.lists
        /\ node'.rec.tracks = [node.rec.tracks EXCEPT ![x] = None]
    BY <1>1, <1>3, <2>3, TrackGoneParts
  <2>6. \A y \in Tracks : TrackAlike(node'.rec.tracks[y], main'.rec.tracks[y])
    BY <1>3, <1>4, <2>4, <2>5 DEF TrackAlike
  <2>7. /\ main' \in Tables /\ IndexMatches(main') /\ Rest(main') = Rest(main) /\ main'.rec # None
        /\ node' \in Tables /\ IndexMatches(node') /\ Rest(node') = Rest(main) /\ node'.rec # None
    BY <1>1, <2>4, <2>5 DEF Based
  <2>8. RecAlike(node'.rec, main'.rec)
    BY <1>3, <2>4, <2>5, <2>6, <2>7 DEF RecAlike, Based
  <2> QED BY <1>2, <2>7, <2>8, RecordStep
<1>6. CASE \E f \in 0..1 : PatchTrack(x, f)
  <2>0. PICK f \in 0..1 : PatchTrack(x, f)
    BY <1>6
  <2> DEFINE row == [fields |-> main.rec.tracks[x].fields, file |-> f,
                     pay |-> main.rec.tracks[x].pay, items |-> main.rec.tracks[x].items]
             w == main'.rec.tracks[x]
             v == [w EXCEPT !.items = 0]
             e == TrackUpserted(x, w)
  <2>1. main' = [main EXCEPT !.rec.tracks[x].file = f] /\ node' = ApplyAll(node, <<e>>)
    BY <2>0 DEF PatchTrack, Sign
  <2>2. /\ Based(main', main) /\ main'.rec.lists = main.rec.lists /\ row \in TrackRow
        /\ main'.rec.tracks = [main.rec.tracks EXCEPT ![x] = row]
    BY <1>1, <1>2, <2>1, PatchedParts
  <2>3. row.fields = main.rec.tracks[x].fields /\ row.items = main.rec.tracks[x].items
    OBVIOUS
  <2> HIDE DEF row
  <2>4. w = row /\ \A y \in Tracks : y # x => main'.rec.tracks[y] = main.rec.tracks[y]
    BY <1>4, <2>2
  <2>5. ApplyEvent(node, e) = SyncReadModels(UpsertTrack(node, x, v))
    BY AppliesTrack
  <2> HIDE DEF e
  <2>6. node' = SyncReadModels(UpsertTrack(node, x, v))
    BY <2>1, <2>5, OneEvent
  <2> HIDE DEF w
  <2>7. v \in TrackRow /\ v.items = 0 /\ v.fields = w.fields /\ v.file = w.file
    BY <2>2, <2>4 DEF TrackRow, Lists
  <2> HIDE DEF v
  <2> DEFINE q == [v EXCEPT !.items = ItemsOf(node.rec.tracks[x])]
  <2>8. Based(node', node) /\ node'.rec.lists = node.rec.lists /\ node'.rec.tracks = [node.rec.tracks EXCEPT ![x] = q]
    BY <1>1, <1>3, <2>6, <2>7, TrackRowParts
  <2>9. ItemsOf(node.rec.tracks[x]) = row.items /\ row.items \in Lists
    <3>1. node.rec.tracks[x].items = main.rec.tracks[x].items
      BY <1>3 DEF TrackAlike
    <3> QED BY <1>3, <2>2, <2>3, <3>1 DEF ItemsOf, TrackRow
  <2>10. q \in TrackRow /\ q.fields = v.fields /\ q.file = v.file /\ q.items = row.items
    BY <2>7, <2>9 DEF TrackRow
  <2> HIDE DEF q
  <2>11. TrackAlike(q, row)
    BY <2>2, <2>4, <2>7, <2>10, NoneAssumption DEF TrackAlike
  <2>12. \A y \in Tracks : TrackAlike(node'.rec.tracks[y], main'.rec.tracks[y])
    <3> TAKE y \in Tracks
    <3>1. CASE y = x
      BY <1>4, <2>4, <2>8, <2>11, <3>1 DEF w
    <3>2. CASE y # x
      BY <1>3, <1>4, <2>4, <2>8, <3>2
    <3> QED BY <3>1, <3>2
  <2>13. /\ main' \in Tables /\ IndexMatches(main') /\ Rest(main') = Rest(main) /\ main'.rec # None
         /\ node' \in Tables /\ IndexMatches(node') /\ Rest(node') = Rest(main) /\ node'.rec # None
    BY <1>1, <2>2, <2>8 DEF Based
  <2>14. RecAlike(node'.rec, main'.rec)
    BY <1>3, <2>2, <2>8, <2>12, <2>13 DEF RecAlike, Based
  <2> QED BY <1>2, <2>13, <2>14, RecordStep
<1> QED BY <1>5, <1>6

\* A retirement takes record, index and copies on both sides
LEMMA RetireStep ==
    ASSUME ContentIInv, Retire
    PROVE  ContentIInv'
<1>1. /\ main \in Tables /\ node \in Tables /\ IndexMatches(main) /\ IndexMatches(node)
      /\ Rest(node) = Rest(main) /\ (main.rec = None <=> node.rec = None)
  BY TwoTables
<1> DEFINE e == FeedRetired
<1>2. /\ main.rec # None /\ Act /\ main' = DeleteFeed(main) /\ node' = ApplyAll(node, <<e>>)
      /\ over' = 0 /\ judged' = NoCopies /\ seen' = NoCopies
  BY DEF Retire, Sign
<1>3. ApplyEvent(node, e) = DeleteFeed(node)
  BY <1>1, <1>2, AppliesRetired
<1> HIDE DEF e
<1>4. node' = DeleteFeed(node)
  BY <1>2, <1>3, OneEvent
<1>5. /\ main' \in Tables /\ IndexMatches(main') /\ main'.rec = None
      /\ Rest(main') = <<NoCopies, main.obs, main.blocks>>
  BY <1>1, <1>2, DeletedParts
<1>6. /\ node' \in Tables /\ IndexMatches(node') /\ node'.rec = None
      /\ Rest(node') = <<NoCopies, node.obs, node.blocks>>
  BY <1>1, <1>2, <1>4, DeletedParts
<1>7. Rest(node') = Rest(main') /\ main'.copies = NoCopies
  BY <1>1, <1>5, <1>6 DEF Rest
<1>8. CopiesAreSeen'
  BY <1>7 DEF CopiesAreSeen, NoCopies
<1>9. CopiesCounted'
  <2>1. {u \in Urls : main'.copies[u] # None} = {}
    BY <1>7 DEF NoCopies
  <2>2. CopyCount(main') = 0
    BY <2>1, FS_EmptySet DEF CopyCount
  <2> QED BY <1>2, <1>5, <2>2 DEF CopiesCounted
<1>10. TypeOK'
  BY <1>2, <1>5, <1>6, ActKeeps, BoundsAssumption DEF TypeOK, NoCopies
<1>11. IndexFollows' /\ RecAlike(node.rec, main.rec)' /\ (Rest(node) = Rest(main))'
  BY <1>5, <1>6, <1>7 DEF IndexFollows, RecAlike
<1> QED BY <1>8, <1>9, <1>10, <1>11 DEF ContentIInv

\* A block takes the copy at its URL on both sides
LEMMA BlockStep ==
    ASSUME ContentIInv, NEW u \in Urls, Block(u)
    PROVE  ContentIInv'
<1>1. /\ main \in Tables /\ node \in Tables /\ IndexMatches(main) /\ IndexMatches(node)
      /\ RecAlike(node.rec, main.rec) /\ Rest(node) = Rest(main)
      /\ node.copies = main.copies /\ node.obs = main.obs /\ node.blocks = main.blocks
  BY TwoTables
<1> DEFINE e == Blocked(u)
           cs == main.copies
           ds == [cs EXCEPT ![u] = None]
<1>2. /\ u \notin main.blocks /\ Act /\ main' = BlockUrl(main, u) /\ node' = ApplyAll(node, <<e>>)
      /\ over' = over /\ judged' = [judged EXCEPT ![u] = None] /\ seen' = [seen EXCEPT ![u] = None]
  BY DEF Block, Sign
<1>3. ApplyEvent(node, e) = BlockUrl(node, u)
  BY AppliesBlock
<1> HIDE DEF e
<1>4. node' = BlockUrl(node, u)
  BY <1>2, <1>3, OneEvent
<1>5. /\ main' \in Tables /\ main'.rec = main.rec /\ IndexMatches(main')
      /\ Rest(main') = <<ds, main.obs, main.blocks \cup {u}>>
  BY <1>1, <1>2, BlockedParts
<1>6. /\ node' \in Tables /\ node'.rec = node.rec /\ IndexMatches(node')
      /\ Rest(node') = <<ds, main.obs, main.blocks \cup {u}>>
  BY <1>1, <1>2, <1>4, BlockedParts
<1>7. main'.copies = ds
  BY <1>5 DEF Rest
<1>8. cs \in [Urls -> CopyRow \cup {None}]
  BY <1>1, TableParts
<1>9. ds[u] = None /\ \A v \in Urls : v # u => ds[v] = cs[v]
  BY <1>8
<1> HIDE DEF ds
<1>10. /\ judged' \in [Urls -> Digests \cup {None}] /\ seen' \in [Urls -> CopyBody \cup {None}]
       /\ \A v \in Urls : v # u => judged'[v] = judged[v] /\ seen'[v] = seen[v]
  BY <1>2 DEF ContentIInv, TypeOK
<1>11. CopiesAreSeen'
  BY <1>7, <1>9, <1>10 DEF ContentIInv, CopiesAreSeen
<1>12. CopiesCounted'
  <2> DEFINE S == {v \in Urls : cs[v] # None}
             T == {v \in Urls : ds[v] # None}
  <2>1. T \subseteq S /\ S \subseteq Urls
    BY <1>9
  <2>2. CopyCount(main') = Cardinality(T) /\ CopyCount(main) = Cardinality(S)
    BY <1>7 DEF CopyCount
  <2> HIDE DEF S, T
  <2>3. IsFiniteSet(S)
    BY <2>1, FiniteAssumption, FS_Subset
  <2>4. Cardinality(T) \in Nat /\ Cardinality(S) \in Nat /\ Cardinality(T) <= Cardinality(S)
    BY <2>1, <2>3, FS_Subset, FS_CardinalityType
  <2> QED BY <1>2, <1>5, <2>2, <2>4, BoundsAssumption DEF ContentIInv, CopiesCounted
<1>13. TypeOK'
  BY <1>2, <1>5, <1>6, <1>10, ActKeeps DEF ContentIInv, TypeOK
<1>14. IndexFollows' /\ RecAlike(node.rec, main.rec)' /\ (Rest(node) = Rest(main))'
  BY <1>1, <1>5, <1>6 DEF IndexFollows
<1> QED BY <1>11, <1>12, <1>13, <1>14 DEF ContentIInv

\* A block is lifted on both sides
LEMMA UnblockStep ==
    ASSUME ContentIInv, NEW u \in Urls, Unblock(u)
    PROVE  ContentIInv'
<1>1. /\ main \in Tables /\ node \in Tables /\ IndexMatches(main) /\ IndexMatches(node)
      /\ RecAlike(node.rec, main.rec) /\ Rest(node) = Rest(main)
      /\ node.copies = main.copies /\ node.obs = main.obs /\ node.blocks = main.blocks
  BY TwoTables
<1> DEFINE e == Unblocked(u)
<1>2. /\ Act /\ main' = [main EXCEPT !.blocks = @ \ {u}] /\ node' = ApplyAll(node, <<e>>)
      /\ UNCHANGED <<over, judged, seen>>
  BY DEF Unblock, Sign
<1>3. ApplyEvent(node, e) = [node EXCEPT !.blocks = @ \ {u}]
  BY AppliesUnblock
<1> HIDE DEF e
<1>4. node' = [node EXCEPT !.blocks = @ \ {u}]
  BY <1>2, <1>3, OneEvent
<1>5. /\ main' \in Tables /\ main'.rec = main.rec /\ IndexMatches(main')
      /\ Rest(main') = <<main.copies, main.obs, main.blocks \ {u}>>
  BY <1>1, <1>2, UnblockedParts
<1>6. /\ node' \in Tables /\ node'.rec = node.rec /\ IndexMatches(node')
      /\ Rest(node') = <<main.copies, main.obs, main.blocks \ {u}>>
  BY <1>1, <1>4, UnblockedParts
<1>7. main'.copies = main.copies
  BY <1>5 DEF Rest
<1>8. CopiesAreSeen' /\ CopiesCounted'
  BY <1>2, <1>5, <1>7 DEF ContentIInv, CopiesAreSeen, CopiesCounted, CopyCount
<1>9. TypeOK'
  BY <1>2, <1>5, <1>6, ActKeeps DEF ContentIInv, TypeOK
<1>10. IndexFollows' /\ RecAlike(node.rec, main.rec)' /\ (Rest(node) = Rest(main))'
  BY <1>1, <1>5, <1>6 DEF IndexFollows
<1> QED BY <1>8, <1>9, <1>10 DEF ContentIInv

\* Every step keeps the invariant
LEMMA ContentStep == ContentIInv /\ [Next]_vars => ContentIInv'
<1> SUFFICES ASSUME ContentIInv, [Next]_vars PROVE ContentIInv'
  OBVIOUS
<1>1. CASE Next
  BY <1>1, IngestStep, MirrorStep, RelocateStep, ResolveStep, TrackActs, RetireStep, BlockStep, UnblockStep DEF Next
<1>2. CASE UNCHANGED vars
  BY <1>2 DEF vars, ContentIInv, TypeOK, IndexFollows, CopiesCounted, CopiesAreSeen
<1> QED BY <1>1, <1>2

\* Nothing is there at first
LEMMA ContentInit == Init => ContentIInv
<1> SUFFICES ASSUME Init PROVE ContentIInv
  OBVIOUS
<1> DEFINE i == [feed |-> None, publisher |-> None, tracks |-> NoTracks]
<1>1. i \in Index
  BY DEF Index, NoTracks
<1>2. /\ main = [rec |-> None, index |-> i, copies |-> NoCopies, obs |-> {}, blocks |-> {}]
      /\ node = main /\ over = 0 /\ judged = NoCopies /\ seen = NoCopies /\ acts = 0
  BY DEF Init
<1>3. i.feed = None /\ i.publisher = None /\ \A x \in Tracks : i.tracks[x] = None
  BY DEF NoTracks
<1> HIDE DEF i
<1>4. NoCopies \in [Urls -> CopyRow \cup {None}] /\ \A u \in Urls : NoCopies[u] = None
  BY DEF NoCopies
<1>5. main \in Tables
  BY <1>1, <1>2, <1>4, MakeTables
<1>6. main.rec = None /\ main.index = i /\ main.copies = NoCopies
  BY <1>2
<1>7. IndexMatches(main)
  BY <1>3, <1>6 DEF IndexMatches
<1>8. CopyCount(main) = 0
  <2>1. {u \in Urls : main.copies[u] # None} = {}
    BY <1>4, <1>6
  <2> QED BY <2>1, FS_EmptySet DEF CopyCount
<1>9. TypeOK
  BY <1>2, <1>5, BoundsAssumption DEF TypeOK, NoCopies
<1>10. CopiesCounted /\ CopiesAreSeen
  BY <1>2, <1>4, <1>6, <1>8 DEF CopiesCounted, CopiesAreSeen
<1>11. IndexFollows /\ RecAlike(node.rec, main.rec) /\ Rest(node) = Rest(main)
  BY <1>2, <1>6, <1>7 DEF IndexFollows, RecAlike
<1> QED BY <1>9, <1>10, <1>11 DEF ContentIInv

-----------------------------------------------------------------------------
(* The theorems *)

\* The inductive invariant holds in every state
THEOREM ContentInvariant == Spec => []ContentIInv
BY ContentInit, ContentStep, PTL DEF Spec

\* However bodies, operator changes and retirements follow each other, a node that
\* applies the events has the feed row, lists, tracks and items of the primary and
\* its copies, observations and blocks (db.rs build_diff_events, apply.rs)
THEOREM NodesHaveTheTables == Spec => []ContentInv
<1>1. ContentIInv => ContentInv
  <2> SUFFICES ASSUME ContentIInv PROVE ContentInv
    OBVIOUS
  <2>1. /\ main.rec \in Record \cup {None} /\ node.rec \in Record \cup {None}
        /\ RecAlike(node.rec, main.rec)
        /\ node.copies = main.copies /\ node.obs = main.obs /\ node.blocks = main.blocks
    BY TwoTables, TableParts
  <2>2. Carried(node.rec) = Carried(main.rec)
    BY <2>1, CarriedAlike
  <2> QED BY <2>1, <2>2 DEF ContentInv, NodeHasTheTables, ContentIInv
<1> QED BY <1>1, ContentInvariant, PTL

\* Both search indexes hold exactly the rows that the medium calls for
\* (db.rs sync_source_read_models_for_feed)
THEOREM IndexesFollow == Spec => []IndexFollows
<1>1. ContentIInv => IndexFollows
  BY DEF ContentIInv
<1> QED BY <1>1, ContentInvariant, PTL

\* The copy rows of a GUID stay within the limit on both sides and go with the
\* record (api.rs record_feed_copy_for_ingest)
THEOREM CopiesStayBounded == Spec => []CopiesBounded
<1>1. ContentIInv => CopiesBounded
  <2> SUFFICES ASSUME ContentIInv PROVE CopiesBounded
    OBVIOUS
  <2>1. node.copies = main.copies /\ (main.rec = None <=> node.rec = None)
    BY TwoTables
  <2>2. CopyCount(node) = CopyCount(main)
    BY <2>1 DEF CopyCount
  <2> QED BY <2>1, <2>2 DEF ContentIInv, CopiesCounted, CopiesBounded
<1> QED BY <1>1, ContentInvariant, PTL

\* A copy is hidden only while the last body of its URL is the one the operator
\* decided on (db.rs copy_resolution_holds)
THEOREM ResolutionsAreForTheirBody == Spec => []ResolutionIsForThisBody
<1>1. ContentIInv => ResolutionIsForThisBody
  <2> SUFFICES ASSUME ContentIInv, NEW u \in Urls, main.copies[u] # None,
                      ResolutionHolds(main.copies[u])
               PROVE  judged[u] = [sum |-> seen[u].sum, list |-> seen[u].list]
    BY TwoTables DEF ResolutionIsForThisBody
  <2> DEFINE row == main.copies[u]
  <2>1. row \in CopyRow
    BY TwoTables, TableParts
  <2>2. [sum |-> row.sum, list |-> row.list] \in Digests
    BY <2>1 DEF CopyRow, Digests
  <2>3. row.done = [sum |-> row.sum, list |-> row.list] /\ row.done # None
    BY <2>2, NoneAssumption DEF ResolutionHolds
  <2>4. row.sum = seen[u].sum /\ row.list = seen[u].list /\ row.done \in {None, judged[u]}
    BY DEF ContentIInv, CopiesAreSeen
  <2> HIDE DEF row
  <2> QED BY <2>3, <2>4
<1> QED BY <1>1, ContentInvariant, PTL

=============================================================================
