------------------------- MODULE ArtistNamesProofs -------------------------
(***************************************************************************)
(* Machine-checked proofs about PublisherLinks and ArtistNames, for any    *)
(* feeds, URLs, bodies and opened tables, and any number of writes.        *)
(***************************************************************************)
EXTENDS ArtistNames, FiniteSetTheorems, WellFoundedInduction, TLAPS

-----------------------------------------------------------------------------
(* Items and their resolution *)

\* The items of a feed are a sequence of items, empty when the feed is not held
LEMMA ItemsParts ==
    ASSUME NEW t, IsTables(t), NEW g \in Guids
    PROVE  /\ Items(t, g) \in Seq(Item)
           /\ DOMAIN Items(t, g) \subseteq Nat
           /\ \A k \in DOMAIN Items(t, g) : Items(t, g)[k] \in Item /\ Held(t, g)
<1>1. CASE Held(t, g)
  <2>1. t.feeds[g] \in Record
    BY <1>1 DEF IsTables, Held
  <2>2. t.feeds[g].body.items \in Seq(Item)
    BY <2>1, BodiesAssumption DEF Record, Body
  <2> QED BY <1>1, <2>2 DEF Items
<1>2. CASE ~Held(t, g)
  BY <1>2 DEF Items
<1> QED BY <1>1, <1>2

\* The positions of links and of named feeds are positions of items
LEMMA PositionParts ==
    ASSUME NEW t, NEW g
    PROVE  /\ Links(t, g) \subseteq DOMAIN Items(t, g)
           /\ \A m : Naming(t, g, m) \subseteq DOMAIN Items(t, g)
BY DEF Links, Naming

\* An item resolves to a feed that is held, by its GUID or by a URL of the feed
LEMMA ResolveParts ==
    ASSUME NEW t, IsTables(t), NEW i \in Item
    PROVE  /\ Resolve(t, i) \in Guids \cup {None}
           /\ Resolve(t, i) # None =>
                /\ Held(t, Resolve(t, i))
                /\ i.guid = Resolve(t, i) \/ i.url \in UrlsOf(t, Resolve(t, i))
<1>0. i.guid \in Guids /\ i.url \in Urls \cup {None} /\ None \notin Guids /\ None \notin Urls
  BY NoneAssumption DEF Item
<1>1. CASE Held(t, i.guid)
  <2>1. Resolve(t, i) = i.guid
    BY <1>1 DEF Resolve
  <2> QED BY <1>0, <1>1, <2>1
<1>2. CASE ~Held(t, i.guid) /\ i.url = None
  <2>1. Resolve(t, i) = None
    BY <1>2 DEF Resolve
  <2> QED BY <2>1
<1>3. CASE ~Held(t, i.guid) /\ i.url # None
  <2> DEFINE o == t.obs[i.url]
             S == StoredAt(t, i.url)
  <2>1. o \in Guids \cup {None} /\ i.url \in Urls
    BY <1>0, <1>3 DEF IsTables
  <2>2. Resolve(t, i) = IF o # None /\ Held(t, o) THEN o
                        ELSE IF S # {} THEN CHOOSE g \in S : TRUE ELSE None
    BY <1>3 DEF Resolve
  <2>3. CASE o # None /\ Held(t, o)
    BY <2>1, <2>2, <2>3 DEF UrlsOf
  <2>4. CASE ~(o # None /\ Held(t, o)) /\ S # {}
    <3>1. Resolve(t, i) \in S
      BY <2>2, <2>4
    <3> QED BY <3>1 DEF StoredAt, UrlsOf
  <2>5. CASE ~(o # None /\ Held(t, o)) /\ S = {}
    BY <2>2, <2>5
  <2> QED BY <2>3, <2>4, <2>5
<1> QED BY <1>1, <1>2, <1>3

\* A set of positions has a first one
LEMMA FirstPosition ==
    ASSUME NEW S \in SUBSET Nat, S # {}
    PROVE  \E k \in S : \A n \in S : k <= n
<1>1. PICK k \in S : \A n \in S : <<n, k>> \notin OpToRel(<, Nat)
  BY NatLessThanWellFounded, WFMin
<1>2. \A n \in S : ~(n < k)
  BY <1>1 DEF OpToRel
<1> QED BY <1>2

\* FirstBack finds a position whenever there is one
LEMMA FirstBackParts ==
    ASSUME NEW t, IsTables(t), NEW g \in Guids, NEW h,
           NEW S, S \subseteq DOMAIN Items(t, g)
    PROVE  /\ FirstBack(t, g, h, S) # None =>
                FirstBack(t, g, h, S) \in S /\ Resolve(t, Items(t, g)[FirstBack(t, g, h, S)]) = h
           /\ (\E k \in S : Resolve(t, Items(t, g)[k]) = h) => FirstBack(t, g, h, S) # None
<1> DEFINE ks == {k \in S : Resolve(t, Items(t, g)[k]) = h}
<1>1. ks \in SUBSET Nat
  BY ItemsParts
<1>2. FirstBack(t, g, h, S) = IF ks = {} THEN None ELSE CHOOSE k \in ks : \A n \in ks : k <= n
  BY DEF FirstBack
<1>3. CASE ks = {}
  BY <1>2, <1>3
<1>4. CASE ks # {}
  <2>1. \E k \in ks : \A n \in ks : k <= n
    <3> HIDE DEF ks
    <3> QED BY <1>1, <1>4, FirstPosition
  <2>2. FirstBack(t, g, h, S) \in ks
    <3> HIDE DEF ks
    <3> QED BY <1>2, <1>4, <2>1
  <2>3. FirstBack(t, g, h, S) # None
    BY <1>1, <2>2, NoneAssumption
  <2> QED BY <2>2, <2>3
<1> QED BY <1>3, <1>4

-----------------------------------------------------------------------------
(* The rows of a feed *)

\* The rows in which a feed names its publishers
LEMMA NamedRows ==
    ASSUME NEW t, IsTables(t), NEW g \in Guids
    PROVE  Named(Rows(t, g)) = {MusicToPublisher(t, g, k) : k \in Links(t, g)}
<1>1. \A k \in Links(t, g) : Row(t, g, k) = MusicToPublisher(t, g, k)
                             /\ MusicToPublisher(t, g, k).direction = "music_to_publisher"
  BY DEF Links, IsLink, Row, MusicToPublisher
<1>2. \A k : Items(t, g)[k].medium = "music" =>
               Row(t, g, k).direction = "publisher_to_music"
  BY DEF Row, PublisherToMusic
<1> QED BY <1>1, <1>2 DEF Named, Rows, Links

\* The rows in which a feed lists music feeds
LEMMA AlbumRows ==
    ASSUME NEW t, IsTables(t), NEW g \in Guids
    PROVE  Albums(Rows(t, g)) = {PublisherToMusic(t, g, k) : k \in Naming(t, g, "music")}
<1>1. \A k \in Naming(t, g, "music") :
         Row(t, g, k) = PublisherToMusic(t, g, k)
         /\ PublisherToMusic(t, g, k).direction = "publisher_to_music"
  BY DEF Naming, Row, PublisherToMusic
<1>2. \A k : IsLink(Items(t, g)[k]) => Row(t, g, k).direction = "music_to_publisher"
  BY DEF IsLink, Row, MusicToPublisher
<1> QED BY <1>1, <1>2 DEF Albums, Rows, Naming

\* What a row of a release says of its publisher
LEMMA NamedParts ==
    ASSUME NEW t, IsTables(t), NEW a \in Guids, NEW k \in Links(t, a)
    PROVE  LET i == Items(t, a)[k]
               p == Resolve(t, i)
               r == MusicToPublisher(t, a, k)
           IN /\ i \in Item /\ p \in Guids \cup {None}
              /\ r.held <=> p # None
              /\ r.publisher = IF p = None THEN i.guid ELSE p
              /\ r.mrel = i.rel
              /\ p = None => ~r.twoWay
              /\ p # None =>
                   /\ r.twoWay <=> FirstBack(t, p, a, Naming(t, p, "music")) # None
                   /\ r.prel = RelAt(t, p, FirstBack(t, p, a, Naming(t, p, "music")))
<1>1. Items(t, a)[k] \in Item
  BY ItemsParts, PositionParts
<1>2. Resolve(t, Items(t, a)[k]) \in Guids \cup {None}
  BY <1>1, ResolveParts
<1> QED BY <1>1, <1>2 DEF MusicToPublisher

\* What a row of a publisher says of a release
LEMMA AlbumParts ==
    ASSUME NEW t, IsTables(t), NEW p \in Guids, NEW k \in Naming(t, p, "music")
    PROVE  LET i == Items(t, p)[k]
               a == Resolve(t, i)
               r == PublisherToMusic(t, p, k)
           IN /\ i \in Item /\ a \in Guids \cup {None}
              /\ r.held <=> a # None
              /\ r.music = IF a = None THEN i.guid ELSE a
              /\ r.prel = i.rel
              /\ a = None => ~r.twoWay
              /\ a # None =>
                   /\ r.twoWay <=> FirstBack(t, a, p, Links(t, a)) # None
                   /\ r.mrel = RelAt(t, a, FirstBack(t, a, p, Links(t, a)))
<1>1. Items(t, p)[k] \in Item
  BY ItemsParts, PositionParts
<1>2. Resolve(t, Items(t, p)[k]) \in Guids \cup {None}
  BY <1>1, ResolveParts
<1> QED BY <1>1, <1>2 DEF PublisherToMusic

-----------------------------------------------------------------------------
(* The views of a link agree, whatever the tables *)

\* The release names the publisher in a link and the publisher lists the release
Mutual(t, a, p) ==
    /\ \E k \in Links(t, a) : Resolve(t, Items(t, a)[k]) = p
    /\ \E n \in Naming(t, p, "music") : Resolve(t, Items(t, p)[n]) = a

\* The view of the release shows a link in both directions when it is mutual
LEMMA ReleaseSeesMutual ==
    ASSUME NEW t, IsTables(t), NEW a \in Guids, NEW p \in Guids
    PROVE  (\E r \in Named(Rows(t, a)) : r.publisher = p /\ r.twoWay) <=> Mutual(t, a, p)
<1>0. None \notin Guids
  BY NoneAssumption
<1>1. ASSUME NEW r \in Named(Rows(t, a)), r.publisher = p, r.twoWay PROVE Mutual(t, a, p)
  <2>1. PICK k \in Links(t, a) : r = MusicToPublisher(t, a, k)
    BY NamedRows
  <2>2. Resolve(t, Items(t, a)[k]) = p /\ FirstBack(t, p, a, Naming(t, p, "music")) # None
    BY <1>1, <2>1, NamedParts
  <2>3. /\ FirstBack(t, p, a, Naming(t, p, "music")) \in Naming(t, p, "music")
        /\ Resolve(t, Items(t, p)[FirstBack(t, p, a, Naming(t, p, "music"))]) = a
    BY <2>2, PositionParts, FirstBackParts
  <2> QED BY <2>2, <2>3 DEF Mutual
<1>2. ASSUME Mutual(t, a, p)
      PROVE  \E r \in Named(Rows(t, a)) : r.publisher = p /\ r.twoWay
  <2>1. PICK k \in Links(t, a) : Resolve(t, Items(t, a)[k]) = p
    BY <1>2 DEF Mutual
  <2>2. FirstBack(t, p, a, Naming(t, p, "music")) # None
    BY <1>2, PositionParts, FirstBackParts DEF Mutual
  <2>3. /\ MusicToPublisher(t, a, k).publisher = p /\ MusicToPublisher(t, a, k).twoWay
    BY <1>0, <2>1, <2>2, NamedParts
  <2>4. MusicToPublisher(t, a, k) \in Named(Rows(t, a))
    BY NamedRows
  <2> QED BY <2>3, <2>4
<1> QED BY <1>1, <1>2

\* The view of the publisher shows a link in both directions when it is mutual
LEMMA PublisherSeesMutual ==
    ASSUME NEW t, IsTables(t), NEW a \in Guids, NEW p \in Guids
    PROVE  (\E r \in Albums(Rows(t, p)) : r.music = a /\ r.twoWay) <=> Mutual(t, a, p)
<1>0. None \notin Guids
  BY NoneAssumption
<1>1. ASSUME NEW r \in Albums(Rows(t, p)), r.music = a, r.twoWay PROVE Mutual(t, a, p)
  <2>1. PICK k \in Naming(t, p, "music") : r = PublisherToMusic(t, p, k)
    BY AlbumRows
  <2>2. Resolve(t, Items(t, p)[k]) = a /\ FirstBack(t, a, p, Links(t, a)) # None
    BY <1>1, <2>1, AlbumParts
  <2>3. /\ FirstBack(t, a, p, Links(t, a)) \in Links(t, a)
        /\ Resolve(t, Items(t, a)[FirstBack(t, a, p, Links(t, a))]) = p
    BY <2>2, PositionParts, FirstBackParts
  <2> QED BY <2>2, <2>3 DEF Mutual
<1>2. ASSUME Mutual(t, a, p)
      PROVE  \E r \in Albums(Rows(t, p)) : r.music = a /\ r.twoWay
  <2>1. PICK k \in Naming(t, p, "music") : Resolve(t, Items(t, p)[k]) = a
    BY <1>2 DEF Mutual
  <2>2. FirstBack(t, a, p, Links(t, a)) # None
    BY <1>2, PositionParts, FirstBackParts DEF Mutual
  <2>3. /\ PublisherToMusic(t, p, k).music = a /\ PublisherToMusic(t, p, k).twoWay
    BY <1>0, <2>1, <2>2, AlbumParts
  <2>4. PublisherToMusic(t, p, k) \in Albums(Rows(t, p))
    BY AlbumRows
  <2> QED BY <2>3, <2>4
<1> QED BY <1>1, <1>2

\* The album's row and the publisher's row of a link agree
LEMMA SidesAgree == IsTables(tables) => BothSidesAgree
<1> SUFFICES ASSUME IsTables(tables), NEW a \in Guids, NEW p \in Guids
             PROVE  (\E r \in Named(Rows(tables, a)) : r.publisher = p /\ r.twoWay)
                    <=> (\E r \in Albums(Rows(tables, p)) : r.music = a /\ r.twoWay)
  BY DEF BothSidesAgree
<1> QED BY ReleaseSeesMutual, PublisherSeesMutual

\* The feeds a release names in its own view
LEMMA NamedPublishers ==
    ASSUME NEW t, IsTables(t), NEW a \in Guids, NEW g \in Guids
    PROVE  /\ (\E r \in Named(Rows(t, a)) : r.publisher = g) <=>
                \E i \in LinkItems(t, a) :
                    Resolve(t, i) = g \/ (Resolve(t, i) = None /\ i.guid = g)
           /\ (\E r \in Named(Rows(t, a)) : r.held /\ r.publisher = g) <=>
                \E i \in LinkItems(t, a) : Resolve(t, i) = g
<1>0. None \notin Guids
  BY NoneAssumption
<1>1. \A k \in Links(t, a) :
         LET i == Items(t, a)[k]
             r == MusicToPublisher(t, a, k)
         IN /\ r.publisher = IF Resolve(t, i) = None THEN i.guid ELSE Resolve(t, i)
            /\ r.held <=> Resolve(t, i) # None
  BY NamedParts
<1> QED BY <1>0, <1>1, NamedRows DEF LinkItems

\* The items in which a feed links to a publisher are items
LEMMA LinkItemsParts ==
    ASSUME NEW t, IsTables(t), NEW a \in Guids
    PROVE  \A i \in LinkItems(t, a) : i \in Item /\ Held(t, a)
BY ItemsParts, PositionParts DEF LinkItems

\* The search from the named feed finds the releases that name it
LEMMA SearchAgrees == IsTables(tables) => SearchFindsTheView
<1> SUFFICES ASSUME IsTables(tables), NEW g \in Guids, NEW a \in Guids
             PROVE  a \in FeedsNaming(tables, g)
                    <=> \E r \in Named(Rows(tables, a)) : r.publisher = g
  BY DEF SearchFindsTheView, FeedsNaming
<1>0. None \notin Guids
  BY NoneAssumption
<1>1. ASSUME NEW i \in LinkItems(tables, a), Resolve(tables, i) = g
      PROVE  Held(tables, g) /\ (i.guid = g \/ i.url \in UrlsOf(tables, g))
  BY <1>0, <1>1, LinkItemsParts, ResolveParts
<1>2. a \in FeedsNaming(tables, g) <=>
        \/ \E i \in LinkItems(tables, a) : i.guid = g /\ Resolve(tables, i) \in {g, None}
        \/ /\ Held(tables, g)
           /\ \E i \in LinkItems(tables, a) :
                 i.url \in UrlsOf(tables, g) /\ Resolve(tables, i) = g
  BY DEF FeedsNaming
<1> QED BY <1>1, <1>2, NamedPublishers

\* The artists counted for a publisher are those of the albums that name it
LEMMA CountAgrees == IsTables(tables) => CountFollowsTheView
<1> DEFINE View(x) == {r.publisher : r \in {y \in Named(Rows(tables, x)) : y.held}}
           named == [x \in Guids |-> View(x)]
           Seen(p) == {x \in Guids : p \in named[x] /\ tables.feeds[x].body.by = "itunes_author"}
           Found(p) == {x \in {a \in Guids : \E i \in LinkItems(tables, a) :
                             (i.guid = p \/ i.url \in UrlsOf(tables, p)) /\ Resolve(tables, i) = p} :
                           tables.feeds[x].body.by = "itunes_author"}
<1> SUFFICES ASSUME IsTables(tables), NEW p \in Guids
             PROVE  DistinctArtists(tables, p) = {tables.feeds[a].body.artist : a \in Seen(p)}
  BY DEF CountFollowsTheView
<1>0. None \notin Guids
  BY NoneAssumption
<1>1. ASSUME NEW a \in Guids, NEW i \in LinkItems(tables, a), Resolve(tables, i) = p
      PROVE  i.guid = p \/ i.url \in UrlsOf(tables, p)
  BY <1>0, <1>1, LinkItemsParts, ResolveParts
<1>2. \A a \in Guids : p \in View(a) <=>
        \E r \in Named(Rows(tables, a)) : r.held /\ r.publisher = p
  OBVIOUS
<1>3. \A a \in Guids : p \in View(a) <=>
        \E i \in LinkItems(tables, a) :
            (i.guid = p \/ i.url \in UrlsOf(tables, p)) /\ Resolve(tables, i) = p
  <2> HIDE DEF View
  <2> QED BY <1>1, <1>2, NamedPublishers
<1>4. Seen(p) = Found(p)
  <2> HIDE DEF View
  <2> QED BY <1>3
<1>5. DistinctArtists(tables, p) = {tables.feeds[a].body.artist : a \in Found(p)}
  BY DEF DistinctArtists
<1> HIDE DEF Seen, Found
<1> QED BY <1>4, <1>5

\* A position is the only one in which a feed names another one
LEMMA OnlyPosition ==
    ASSUME NEW t, IsTables(t), NEW g \in Guids, NEW h \in Guids, NamesOnce(t, g, h),
           NEW k \in DOMAIN Items(t, g), NEW n \in DOMAIN Items(t, g),
           Resolve(t, Items(t, g)[k]) = h, Resolve(t, Items(t, g)[n]) = h
    PROVE  k = n
<1> DEFINE S == {m \in DOMAIN Items(t, g) : Resolve(t, Items(t, g)[m]) = h}
<1>1. IsFiniteSet(DOMAIN Items(t, g))
  <2>1. Items(t, g) \in Seq(Item)
    BY ItemsParts
  <2>2. DOMAIN Items(t, g) = 1..Len(Items(t, g)) /\ Len(Items(t, g)) \in Nat
    BY <2>1
  <2> QED BY <2>2, FS_Interval
<1>2. IsFiniteSet(S) /\ Cardinality(S) <= 1 /\ k \in S /\ n \in S
  BY <1>1, FS_Subset DEF NamesOnce
<1> HIDE DEF S
<1>3. Cardinality(S) \in Nat /\ Cardinality(S) # 0
  BY <1>2, FS_CardinalityType, FS_EmptySet
<1>4. Cardinality(S) = 1
  BY <1>2, <1>3
<1>5. PICK x : S = {x}
  BY <1>2, <1>4, FS_Singleton
<1> QED BY <1>2, <1>5

\* The two rows of one link carry the same roles when neither feed names the other
\* twice, so one is confirmed when the other is
LEMMA RowsMirror ==
    ASSUME NEW t, IsTables(t), NEW a \in Guids, NEW p \in Guids,
           NamesOnce(t, a, p), NamesOnce(t, p, a),
           NEW k \in Links(t, a), Resolve(t, Items(t, a)[k]) = p,
           NEW n \in Naming(t, p, "music"), Resolve(t, Items(t, p)[n]) = a
    PROVE  /\ MusicToPublisher(t, a, k).prel = PublisherToMusic(t, p, n).prel
           /\ MusicToPublisher(t, a, k).mrel = PublisherToMusic(t, p, n).mrel
           /\ MusicToPublisher(t, a, k).twoWay /\ PublisherToMusic(t, p, n).twoWay
<1> DEFINE b == FirstBack(t, p, a, Naming(t, p, "music"))
           c == FirstBack(t, a, p, Links(t, a))
<1>0. None \notin Guids
  BY NoneAssumption
<1>1. b # None /\ b \in Naming(t, p, "music") /\ Resolve(t, Items(t, p)[b]) = a
  BY PositionParts, FirstBackParts
<1>2. c # None /\ c \in Links(t, a) /\ Resolve(t, Items(t, a)[c]) = p
  BY PositionParts, FirstBackParts
<1>3. b = n
  BY <1>1, OnlyPosition, PositionParts
<1>4. c = k
  BY <1>2, OnlyPosition, PositionParts
<1>5. RelAt(t, p, b) = Items(t, p)[n].rel /\ RelAt(t, a, c) = Items(t, a)[k].rel
  BY <1>1, <1>2, <1>3, <1>4 DEF RelAt
<1>6. /\ MusicToPublisher(t, a, k).prel = RelAt(t, p, b)
      /\ MusicToPublisher(t, a, k).mrel = Items(t, a)[k].rel
      /\ MusicToPublisher(t, a, k).twoWay
  BY <1>0, <1>1, NamedParts
<1>7. /\ PublisherToMusic(t, p, n).prel = Items(t, p)[n].rel
      /\ PublisherToMusic(t, p, n).mrel = RelAt(t, a, c)
      /\ PublisherToMusic(t, p, n).twoWay
  BY <1>0, <1>2, AlbumParts
<1> QED BY <1>5, <1>6, <1>7

\* A release and a publisher with a confirmed link, from either side
LEMMA ConfirmedBothSides ==
    ASSUME NEW t, IsTables(t), \A g, h \in Guids : NamesOnce(t, g, h),
           NEW a \in Guids, NEW p \in Guids
    PROVE  (\E r \in Named(Rows(t, a)) : r.publisher = p /\ Confirmed(r))
           <=> (\E r \in Albums(Rows(t, p)) : r.music = a /\ Confirmed(r))
<1>0. None \notin Guids
  BY NoneAssumption
<1>1. ASSUME NEW r \in Named(Rows(t, a)), r.publisher = p, Confirmed(r)
      PROVE  \E q \in Albums(Rows(t, p)) : q.music = a /\ Confirmed(q)
  <2>1. PICK k \in Links(t, a) : r = MusicToPublisher(t, a, k)
    BY NamedRows
  <2>2. r.twoWay
    BY <1>1 DEF Confirmed
  <2>3. Resolve(t, Items(t, a)[k]) = p
    BY <1>1, <2>1, <2>2, NamedParts
  <2>4. PICK n \in Naming(t, p, "music") : Resolve(t, Items(t, p)[n]) = a
    BY <1>1, <2>2, ReleaseSeesMutual DEF Mutual
  <2>5. Confirmed(PublisherToMusic(t, p, n))
    BY <1>1, <2>1, <2>3, <2>4, RowsMirror DEF Confirmed
  <2>6. PublisherToMusic(t, p, n).music = a
    BY <1>0, <2>4, AlbumParts
  <2> QED BY <2>5, <2>6, AlbumRows
<1>2. ASSUME NEW r \in Albums(Rows(t, p)), r.music = a, Confirmed(r)
      PROVE  \E q \in Named(Rows(t, a)) : q.publisher = p /\ Confirmed(q)
  <2>1. PICK n \in Naming(t, p, "music") : r = PublisherToMusic(t, p, n)
    BY AlbumRows
  <2>2. r.twoWay
    BY <1>2 DEF Confirmed
  <2>3. Resolve(t, Items(t, p)[n]) = a
    BY <1>2, <2>1, <2>2, AlbumParts
  <2>4. PICK k \in Links(t, a) : Resolve(t, Items(t, a)[k]) = p
    BY <1>2, <2>2, PublisherSeesMutual DEF Mutual
  <2>5. Confirmed(MusicToPublisher(t, a, k))
    BY <1>2, <2>1, <2>3, <2>4, RowsMirror DEF Confirmed
  <2>6. MusicToPublisher(t, a, k).publisher = p
    BY <1>0, <2>4, NamedParts
  <2> QED BY <2>5, <2>6, NamedRows
<1> QED BY <1>1, <1>2

\* Credit through an album is shared both ways
LEMMA CreditShared == IsTables(tables) => CreditIsMutual
<1> SUFFICES ASSUME IsTables(tables), \A g, h \in Guids : NamesOnce(tables, g, h),
                    NEW p \in Guids, NEW q \in Guids, q \in CoCredited(tables, p)
             PROVE  p \in CoCredited(tables, q)
  BY DEF CreditIsMutual
<1>1. PICK y \in Albums(Rows(tables, p)) :
        /\ Confirmed(y)
        /\ \E x \in Named(Rows(tables, y.music)) : Confirmed(x) /\ x.publisher = q
        /\ q # p
  BY DEF CoCredited
<1>2. y.music \in Guids
  <2>1. PICK n \in Naming(tables, p, "music") : y = PublisherToMusic(tables, p, n)
    BY AlbumRows
  <2> QED BY <2>1, AlbumParts DEF Item
<1>3. PICK z \in Albums(Rows(tables, q)) : z.music = y.music /\ Confirmed(z)
  BY <1>1, <1>2, ConfirmedBothSides
<1>4. PICK w \in Named(Rows(tables, y.music)) : w.publisher = p /\ Confirmed(w)
  BY <1>1, <1>2, ConfirmedBothSides
<1> QED BY <1>1, <1>3, <1>4 DEF CoCredited

-----------------------------------------------------------------------------
(* Tables that the list cannot tell apart *)

\* The same feeds with the same URLs, media, artists and items, and the same
\* observations; only where an artist text came from may differ, which a write
\* changes without an event and which decides whether "Unknown Artist" is a name
Alike(t, s) ==
    /\ t.obs = s.obs
    /\ \A g \in Guids :
         /\ Held(t, g) <=> Held(s, g)
         /\ Held(t, g) =>
              /\ t.feeds[g].url = s.feeds[g].url
              /\ t.feeds[g].body.medium = s.feeds[g].body.medium
              /\ t.feeds[g].body.artist = s.feeds[g].body.artist
              /\ t.feeds[g].body.items = s.feeds[g].body.items

\* Such tables have the same items, and resolve them alike
LEMMA AlikeItems ==
    ASSUME NEW t, NEW s, IsTables(t), IsTables(s), Alike(t, s)
    PROVE  /\ \A g \in Guids : Items(t, g) = Items(s, g)
           /\ \A i \in Item : Resolve(t, i) = Resolve(s, i)
<1>1. \A g \in Guids : Items(t, g) = Items(s, g)
  BY DEF Alike, Items
<1>2. ASSUME NEW i \in Item PROVE Resolve(t, i) = Resolve(s, i)
  <2>0. i.guid \in Guids /\ i.url \in Urls \cup {None} /\ None \notin Urls
    BY NoneAssumption DEF Item
  <2>1. \A g \in Guids : Held(t, g) <=> Held(s, g)
    BY DEF Alike
  <2>2. StoredAt(t, i.url) = StoredAt(s, i.url)
    BY <2>1 DEF StoredAt, Alike
  <2>3. t.obs[i.url] = s.obs[i.url]
    BY DEF Alike
  <2>4. CASE Held(t, i.guid)
    BY <2>0, <2>1, <2>4 DEF Resolve
  <2>5. CASE ~Held(t, i.guid) /\ i.url = None
    BY <2>0, <2>1, <2>5 DEF Resolve
  <2>6. CASE ~Held(t, i.guid) /\ i.url # None
    <3>1. t.obs[i.url] \in Guids \cup {None}
      BY <2>0, <2>6 DEF IsTables
    <3>2. t.obs[i.url] # None => (Held(t, t.obs[i.url]) <=> Held(s, t.obs[i.url]))
      BY <2>1, <3>1
    <3>3. Resolve(t, i) = IF t.obs[i.url] # None /\ Held(t, t.obs[i.url]) THEN t.obs[i.url]
                          ELSE IF StoredAt(t, i.url) # {} THEN CHOOSE g \in StoredAt(t, i.url) : TRUE
                          ELSE None
      BY <2>6 DEF Resolve
    <3>4. ~Held(s, i.guid)
      BY <2>0, <2>1, <2>6
    <3>5. Resolve(s, i) = IF s.obs[i.url] # None /\ Held(s, s.obs[i.url]) THEN s.obs[i.url]
                          ELSE IF StoredAt(s, i.url) # {} THEN CHOOSE g \in StoredAt(s, i.url) : TRUE
                          ELSE None
      BY <2>6, <3>4 DEF Resolve
    <3> QED BY <2>2, <2>3, <3>2, <3>3, <3>5
  <2> QED BY <2>4, <2>5, <2>6
<1> QED BY <1>1, <1>2

\* The first position that names a feed is the same in both
LEMMA AlikeFirstBack ==
    ASSUME NEW t, NEW s, IsTables(t), IsTables(s), Alike(t, s),
           NEW g \in Guids, NEW h, NEW S, S \subseteq DOMAIN Items(t, g)
    PROVE  FirstBack(t, g, h, S) = FirstBack(s, g, h, S)
<1>1. \A k \in S : Items(t, g)[k] \in Item /\ Items(t, g) = Items(s, g)
  BY ItemsParts, AlikeItems
<1>2. \A k \in S : Resolve(t, Items(t, g)[k]) = Resolve(s, Items(s, g)[k])
  BY <1>1, AlikeItems
<1> DEFINE ks == {k \in S : Resolve(t, Items(t, g)[k]) = h}
           ls == {k \in S : Resolve(s, Items(s, g)[k]) = h}
<1>3. ks = ls
  BY <1>2
<1>4. /\ FirstBack(t, g, h, S) = IF ks = {} THEN None ELSE CHOOSE k \in ks : \A n \in ks : k <= n
      /\ FirstBack(s, g, h, S) = IF ls = {} THEN None ELSE CHOOSE k \in ls : \A n \in ls : k <= n
  BY DEF FirstBack
<1> HIDE DEF ks, ls
<1> QED BY <1>3, <1>4

\* Every feed has the same rows in both
LEMMA AlikeRows ==
    ASSUME NEW t, NEW s, IsTables(t), IsTables(s), Alike(t, s), NEW g \in Guids
    PROVE  Rows(t, g) = Rows(s, g)
<1>1. Items(t, g) = Items(s, g)
  BY AlikeItems
<1>2. ASSUME NEW k \in DOMAIN Items(t, g) PROVE Row(t, g, k) = Row(s, g, k)
  <2> DEFINE i == Items(t, g)[k]
             x == Resolve(t, i)
  <2>1. i \in Item /\ i = Items(s, g)[k]
    BY <1>1, <1>2, ItemsParts
  <2>2. x = Resolve(s, Items(s, g)[k]) /\ x \in Guids \cup {None}
    BY <2>1, AlikeItems, ResolveParts
  <2>3. x # None => /\ Items(t, x) = Items(s, x)
                    /\ Naming(t, x, "music") = Naming(s, x, "music")
                    /\ Links(t, x) = Links(s, x)
    BY <2>2, AlikeItems DEF Naming, Links
  <2>4. x # None => FirstBack(t, x, g, Naming(t, x, "music")) = FirstBack(s, x, g, Naming(s, x, "music"))
    BY <2>2, <2>3, AlikeFirstBack, PositionParts
  <2>5. x # None => FirstBack(t, x, g, Links(t, x)) = FirstBack(s, x, g, Links(s, x))
    BY <2>2, <2>3, AlikeFirstBack, PositionParts
  <2>6. MusicToPublisher(t, g, k) = MusicToPublisher(s, g, k)
    <3>1. CASE x = None
      BY <1>1, <2>1, <2>2, <3>1 DEF MusicToPublisher, RelAt
    <3>2. CASE x # None
      BY <1>1, <2>1, <2>2, <2>3, <2>4, <3>2 DEF MusicToPublisher, RelAt
    <3> QED BY <3>1, <3>2
  <2>7. PublisherToMusic(t, g, k) = PublisherToMusic(s, g, k)
    <3>1. CASE x = None
      BY <1>1, <2>1, <2>2, <3>1 DEF PublisherToMusic, RelAt
    <3>2. CASE x # None
      BY <1>1, <2>1, <2>2, <2>3, <2>5, <3>2 DEF PublisherToMusic, RelAt
    <3> QED BY <3>1, <3>2
  <2> QED BY <1>1, <2>6, <2>7 DEF Row
<1> QED BY <1>1, <1>2 DEF Rows

\* The releases a publisher lists are feeds, and the roles it states are roles
LEMMA AlbumTypes ==
    ASSUME NEW t, IsTables(t), NEW g \in Guids, NEW r \in Albums(Rows(t, g))
    PROVE  /\ r.music \in Guids /\ r.prel \subseteq Roles
           /\ r.held => Held(t, r.music)
<1>0. None \notin Guids
  BY NoneAssumption
<1>1. PICK k \in Naming(t, g, "music") : r = PublisherToMusic(t, g, k)
  BY AlbumRows
<1> DEFINE i == Items(t, g)[k]
           a == Resolve(t, i)
<1>2. /\ i \in Item /\ a \in Guids \cup {None} /\ (r.held <=> a # None)
      /\ r.music = (IF a = None THEN i.guid ELSE a) /\ r.prel = i.rel
  BY <1>1, AlbumParts
<1>3. a # None => Held(t, a)
  BY <1>2, ResolveParts
<1>4. i.guid \in Guids /\ i.rel \subseteq Roles
  BY <1>2 DEF Item
<1> HIDE DEF i, a
<1> QED BY <1>0, <1>2, <1>3, <1>4

\* A feed has finitely many rows
LEMMA RowsFinite ==
    ASSUME NEW t, IsTables(t), NEW g \in Guids
    PROVE  IsFiniteSet(Rows(t, g))
<1> DEFINE S == {n \in DOMAIN Items(t, g) : Items(t, g)[n].medium = "music" \/ IsLink(Items(t, g)[n])}
           f == [k \in S |-> Row(t, g, k)]
<1>1. IsFiniteSet(DOMAIN Items(t, g))
  <2>1. Items(t, g) \in Seq(Item)
    BY ItemsParts
  <2>2. DOMAIN Items(t, g) = 1..Len(Items(t, g)) /\ Len(Items(t, g)) \in Nat
    BY <2>1
  <2> QED BY <2>2, FS_Interval
<1>2. IsFiniteSet(S)
  BY <1>1, FS_Subset
<1>3. f \in Surjection(S, Rows(t, g))
  <2>1. Rows(t, g) = {Row(t, g, k) : k \in S}
    BY DEF Rows
  <2> HIDE DEF S
  <2> QED BY <2>1 DEF Surjection
<1> HIDE DEF S, f
<1> QED BY <1>2, <1>3, FS_Surjection

\* What a build reads of a publisher has the type of the facts
LEMMA LinkFactsType ==
    ASSUME NEW t, IsTables(t), NEW g \in Guids
    PROVE  LinkFacts(t, Rows(t, g)) \in Facts
<1> DEFINE rows == Rows(t, g)
           sure == {r \in Albums(rows) : Confirmed(r)}
           firsts == {r \in sure : r.rank = 1}
           stated == UNION {r.prel : r \in sure}
           agreed == UNION {r.prel : r \in {x \in sure : Agreement(x.prel, x.mrel) = "both"}}
           artists == ConfirmedArtists(t, rows)
<1>1. sure \subseteq rows /\ firsts \subseteq rows
  BY DEF Albums
<1>2. IsFiniteSet(sure) /\ IsFiniteSet(firsts)
  BY <1>1, RowsFinite, FS_Subset
<1>3. Cardinality(sure) \in Nat /\ Cardinality(firsts) \in Nat
  BY <1>2, FS_CardinalityType
<1>4. stated \subseteq Roles /\ agreed \subseteq Roles
  <2>1. \A r \in Albums(rows) : r.prel \subseteq Roles
    BY AlbumTypes
  <2> QED BY <2>1
<1>5. artists \subseteq Names \cup {Unknown}
  <2>1. artists = {t.feeds[r.music].body.artist :
                     r \in {x \in Albums({y \in rows : Confirmed(y)}) :
                             x.held /\ t.feeds[x.music].body.by # "placeholder"}}
    BY DEF ConfirmedArtists, ArtistsOf
  <2>2. ASSUME NEW x \in Albums({y \in rows : Confirmed(y)}), x.held,
               t.feeds[x.music].body.by # "placeholder"
        PROVE  t.feeds[x.music].body.artist \in Names \cup {Unknown}
    <3>1. x \in Albums(rows)
      BY <2>2 DEF Albums
    <3>2. x.music \in Guids /\ Held(t, x.music)
      BY <2>2, <3>1, AlbumTypes
    <3>3. t.feeds[x.music].body \in Bodies
      BY <3>2 DEF IsTables, Held, Record
    <3> QED BY <2>2, <3>3, BodiesAssumption DEF Body
  <2> HIDE DEF artists, rows
  <2> QED BY <2>1, <2>2
<1>6. LinkFacts(t, rows) = [links |-> Cardinality(sure), stated |-> stated, agreed |-> agreed,
                            artists |-> artists, first |-> Cardinality(firsts)]
  BY DEF LinkFacts
<1> HIDE DEF rows, sure, firsts, stated, agreed, artists
<1>7. LinkFacts(t, rows) \in Facts
  BY <1>3, <1>4, <1>5, <1>6 DEF Facts
<1> QED BY <1>7 DEF rows

\* The facts of a publisher without the text of the placeholder
LEMMA KnownIs ==
    ASSUME NEW t, NEW rows
    PROVE  Known(LinkFacts(t, rows)) =
             [links |-> LinkFacts(t, rows).links, stated |-> LinkFacts(t, rows).stated,
              agreed |-> LinkFacts(t, rows).agreed,
              artists |-> ConfirmedArtists(t, rows) \ {Unknown},
              first |-> LinkFacts(t, rows).first]
<1> DEFINE f == LinkFacts(t, rows)
<1>1. f = [links |-> f.links, stated |-> f.stated, agreed |-> f.agreed,
           artists |-> f.artists, first |-> f.first]
  BY DEF LinkFacts
<1>2. f.artists = ConfirmedArtists(t, rows)
  BY DEF LinkFacts
<1> HIDE DEF f
<1>3. Known(f) = [links |-> f.links, stated |-> f.stated, agreed |-> f.agreed,
                  artists |-> ConfirmedArtists(t, rows) \ {Unknown}, first |-> f.first]
  BY <1>1, <1>2 DEF Known
<1> QED BY <1>3 DEF f

\* A build reads the same facts from both, up to that text
LEMMA AlikeFacts ==
    ASSUME NEW t, NEW s, IsTables(t), IsTables(s), Alike(t, s), NEW g \in Guids
    PROVE  Known(LinkFacts(t, Rows(t, g))) = Known(LinkFacts(s, Rows(s, g)))
<1> DEFINE rows == Rows(t, g)
           C == {y \in rows : Confirmed(y)}
           A(z) == {x \in Albums(C) : x.held /\ z.feeds[x.music].body.by # "placeholder"}
<1>1. Rows(s, g) = rows
  BY AlikeRows
<1>2. ASSUME NEW x \in Albums(C), x.held, t.feeds[x.music].body.artist # Unknown
             \/ s.feeds[x.music].body.artist # Unknown
      PROVE  /\ t.feeds[x.music].body.artist = s.feeds[x.music].body.artist
             /\ t.feeds[x.music].body.by # "placeholder"
             /\ s.feeds[x.music].body.by # "placeholder"
  <2>1. x \in Albums(rows)
    BY <1>2 DEF Albums
  <2>2. x.music \in Guids /\ Held(t, x.music)
    BY <1>2, <2>1, AlbumTypes
  <2>3. Held(s, x.music) /\ t.feeds[x.music].body.artist = s.feeds[x.music].body.artist
    BY <2>2 DEF Alike
  <2>4. t.feeds[x.music].body \in Bodies /\ s.feeds[x.music].body \in Bodies
    BY <2>2, <2>3 DEF IsTables, Held, Record
  <2> QED BY <1>2, <2>3, <2>4, BodiesAssumption
<1>3. /\ ConfirmedArtists(t, rows) = {t.feeds[r.music].body.artist : r \in A(t)}
      /\ ConfirmedArtists(s, rows) = {s.feeds[r.music].body.artist : r \in A(s)}
  BY DEF ConfirmedArtists, ArtistsOf
<1>4. ConfirmedArtists(t, rows) \ {Unknown} = ConfirmedArtists(s, rows) \ {Unknown}
  <2> HIDE DEF C, rows
  <2>1. ASSUME NEW r \in A(t), t.feeds[r.music].body.artist # Unknown
        PROVE  r \in A(s) /\ t.feeds[r.music].body.artist = s.feeds[r.music].body.artist
    BY <1>2, <2>1
  <2>2. ASSUME NEW r \in A(s), s.feeds[r.music].body.artist # Unknown
        PROVE  r \in A(t) /\ t.feeds[r.music].body.artist = s.feeds[r.music].body.artist
    BY <1>2, <2>2
  <2> HIDE DEF A
  <2> QED BY <1>3, <2>1, <2>2
<1>5. /\ LinkFacts(t, rows).links = LinkFacts(s, rows).links
      /\ LinkFacts(t, rows).stated = LinkFacts(s, rows).stated
      /\ LinkFacts(t, rows).agreed = LinkFacts(s, rows).agreed
      /\ LinkFacts(t, rows).first = LinkFacts(s, rows).first
  BY DEF LinkFacts
<1>6. Known(LinkFacts(t, rows)) = Known(LinkFacts(s, rows))
  <2> HIDE DEF rows
  <2> QED BY <1>4, <1>5, KnownIs
<1> QED BY <1>1, <1>6

-----------------------------------------------------------------------------
(* The list in memory *)

\* The rows of the music feeds, as a build reads them
MusicRows(t) == {<<t.feeds[g].body.artist, g>> : g \in OfMedium(t, "music")}

\* A list is well formed
ListOK(l) ==
    /\ l = [publishers |-> l.publishers, names |-> l.names]
    /\ \A g \in DOMAIN l.publishers : l.publishers[g] \in Facts

\* The copy is well formed and not newer than the log
CopyOK ==
    copy # None =>
      /\ copy = [list |-> copy.list, seq |-> copy.seq, age |-> copy.age]
      /\ ListOK(copy.list)
      /\ copy.seq \in Nat /\ copy.seq <= seq

\* So is the build
BuildOK ==
    build # Idle =>
      /\ build = [step |-> build.step, seq |-> build.seq, todo |-> build.todo, list |-> build.list]
      /\ build.step \in {"publishers", "facts", "music"}
      /\ ListOK(build.list)
      /\ build.seq \in Nat /\ build.seq <= seq
      /\ build.step = "publishers" => build.list = [publishers |-> <<>>, names |-> {}]

\* As long as the log has not moved since it began, what a build has read so far
\* is what the tables say now, up to the text of the placeholder
ReadsAreCurrent ==
    build # Idle /\ build.seq = seq =>
      /\ build.step = "facts" =>
           /\ build.todo \subseteq OfMedium(tables, "publisher")
           /\ KnownFacts(build.list.publishers) =
                [g \in OfMedium(tables, "publisher") \ build.todo |->
                    Known(LinkFacts(tables, Rows(tables, g)))]
           /\ build.list.names = {}
      /\ build.step = "music" =>
           /\ build.todo \subseteq MusicRows(tables)
           /\ KnownFacts(build.list.publishers) = KnownFacts(ArtistList(tables).publishers)
           /\ build.list.names =
                {r \in MusicRows(tables) \ build.todo : IsNameLevel(Rows(tables, r[2]))}

\* The inductive invariant
NamesIInv ==
    /\ IsTables(tables) /\ seq \in Nat /\ writes \in 0..MaxWrites
    /\ CopyOK /\ BuildOK
    /\ ReadsAreCurrent /\ SameSeqIsCurrent

\* The list of tables, through the rows of the music feeds
LEMMA ListByRows ==
    ASSUME NEW t
    PROVE  ArtistList(t) =
             [publishers |-> [g \in OfMedium(t, "publisher") |-> LinkFacts(t, Rows(t, g))],
              names |-> {r \in MusicRows(t) : IsNameLevel(Rows(t, r[2]))}]
<1>1. {<<t.feeds[g].body.artist, g>> : g \in {h \in OfMedium(t, "music") : IsNameLevel(Rows(t, h))}}
      = {r \in MusicRows(t) : IsNameLevel(Rows(t, r[2]))}
  BY DEF MusicRows
<1> QED BY <1>1 DEF ArtistList

\* What the list says of publishers, up to the text of the placeholder
LEMMA KnownOfList ==
    ASSUME NEW t
    PROVE  KnownFacts(ArtistList(t).publishers) =
             [g \in OfMedium(t, "publisher") |-> Known(LinkFacts(t, Rows(t, g)))]
<1> DEFINE D == OfMedium(t, "publisher")
           F(g) == LinkFacts(t, Rows(t, g))
<1>1. ArtistList(t).publishers = [g \in D |-> F(g)]
  BY DEF ArtistList
<1> HIDE DEF D, F
<1>2. KnownFacts(ArtistList(t).publishers) = [g \in D |-> Known(F(g))]
  BY <1>1 DEF KnownFacts
<1> QED BY <1>2 DEF D, F

\* Everything a build reads is the same in tables that are alike, up to that text
LEMMA AlikeReads ==
    ASSUME NEW t, NEW s, IsTables(t), IsTables(s), Alike(t, s)
    PROVE  /\ \A m : OfMedium(t, m) = OfMedium(s, m)
           /\ MusicRows(t) = MusicRows(s)
           /\ \A g \in Guids :
                Known(LinkFacts(t, Rows(t, g))) = Known(LinkFacts(s, Rows(s, g)))
           /\ \A r \in MusicRows(t) : IsNameLevel(Rows(t, r[2])) = IsNameLevel(Rows(s, r[2]))
           /\ KnownFacts(ArtistList(t).publishers) = KnownFacts(ArtistList(s).publishers)
           /\ KnownList(ArtistList(t)) = KnownList(ArtistList(s))
<1>1. \A m : OfMedium(t, m) = OfMedium(s, m)
  BY DEF OfMedium, Alike
<1>2. MusicRows(t) = MusicRows(s)
  <2>1. \A g \in OfMedium(t, "music") : t.feeds[g].body.artist = s.feeds[g].body.artist
    BY DEF OfMedium, Alike
  <2>2. OfMedium(t, "music") = OfMedium(s, "music")
    BY <1>1
  <2> QED BY <2>1, <2>2 DEF MusicRows
<1>3. \A g \in Guids : Known(LinkFacts(t, Rows(t, g))) = Known(LinkFacts(s, Rows(s, g)))
  BY AlikeFacts
<1>4. \A r \in MusicRows(t) : IsNameLevel(Rows(t, r[2])) = IsNameLevel(Rows(s, r[2]))
  <2>1. \A r \in MusicRows(t) : r[2] \in Guids
    BY DEF MusicRows, OfMedium
  <2>2. \A r \in MusicRows(t) : Rows(t, r[2]) = Rows(s, r[2])
    BY <2>1, AlikeRows
  <2> QED BY <2>2
<1>5. KnownFacts(ArtistList(t).publishers) = KnownFacts(ArtistList(s).publishers)
  <2>1. /\ OfMedium(t, "publisher") \subseteq Guids
        /\ OfMedium(t, "publisher") = OfMedium(s, "publisher")
    BY <1>1 DEF OfMedium
  <2>2. [g \in OfMedium(t, "publisher") |-> Known(LinkFacts(t, Rows(t, g)))]
        = [g \in OfMedium(s, "publisher") |-> Known(LinkFacts(s, Rows(s, g)))]
    BY <1>3, <2>1
  <2> QED BY <2>2, KnownOfList
<1>6. ArtistList(t).names = ArtistList(s).names
  <2>1. {r \in MusicRows(t) : IsNameLevel(Rows(t, r[2]))}
        = {r \in MusicRows(s) : IsNameLevel(Rows(s, r[2]))}
    BY <1>2, <1>4
  <2>2. /\ ArtistList(t).names = {r \in MusicRows(t) : IsNameLevel(Rows(t, r[2]))}
        /\ ArtistList(s).names = {r \in MusicRows(s) : IsNameLevel(Rows(s, r[2]))}
    BY ListByRows
  <2> QED BY <2>1, <2>2
<1>7. KnownList(ArtistList(t)) = KnownList(ArtistList(s))
  BY <1>5, <1>6 DEF KnownList
<1> QED BY <1>1, <1>2, <1>3, <1>4, <1>5, <1>7

\* What a write does to the tables: they stay tables, and either the log grows or
\* the list cannot tell the new tables from the old ones
Wrote ==
    /\ IsTables(tables')
    /\ seq' \in Nat
    /\ seq' > seq \/ (seq' = seq /\ Alike(tables, tables'))

\* A stored record keeps the URLs apart when no other record has its URL
LEMMA PutParts ==
    ASSUME NEW t, IsTables(t), NEW g \in Guids, NEW u \in Urls, NEW b \in Bodies,
           StoredAt(t, u) \subseteq {g}, NEW o \in [Urls -> Guids \cup {None}]
    PROVE  LET s == [feeds |-> [t.feeds EXCEPT ![g] = [url |-> u, body |-> b]], obs |-> o]
           IN /\ IsTables(s)
              /\ ~BodyChanged(t.feeds[g], [url |-> u, body |-> b]) /\ o = t.obs => Alike(t, s)
<1> DEFINE new == [url |-> u, body |-> b]
           s == [feeds |-> [t.feeds EXCEPT ![g] = new], obs |-> o]
<1>1. new \in Record /\ new.url = u /\ new.body = b
  BY DEF Record
<1>2. t.feeds \in [Guids -> Record \cup {None}]
  BY DEF IsTables
<1>3. s.feeds \in [Guids -> Record \cup {None}] /\ s.obs = o
  BY <1>1, <1>2
<1>4. s.feeds[g] = new /\ \A h \in Guids : h # g => s.feeds[h] = t.feeds[h]
  BY <1>2
<1>5. ASSUME NEW h \in Guids, NEW j \in Guids,
             s.feeds[h] # None, s.feeds[j] # None, s.feeds[h].url = s.feeds[j].url
      PROVE  h = j
  <2>1. \A x \in Guids : t.feeds[x] # None /\ t.feeds[x].url = u => x = g
    BY DEF StoredAt, Held
  <2>2. CASE h # g /\ j # g
    <3>1. s.feeds[h] = t.feeds[h] /\ s.feeds[j] = t.feeds[j]
      BY <1>4, <2>2
    <3> HIDE DEF s
    <3> QED BY <1>5, <3>1 DEF IsTables
  <2>3. CASE h = g \/ j = g
    <3> HIDE DEF s, new
    <3> QED BY <1>1, <1>4, <1>5, <2>1, <2>3
  <2> QED BY <2>2, <2>3
<1>6. IsTables(s)
  <2>1. s \in [feeds : [Guids -> Record \cup {None}], obs : [Urls -> Guids \cup {None}]]
    BY <1>3
  <2> HIDE DEF s
  <2> QED BY <1>5, <2>1 DEF IsTables
<1>7. ASSUME ~BodyChanged(t.feeds[g], new), o = t.obs
      PROVE  Alike(t, s)
  <2>1. /\ t.feeds[g] # None /\ t.feeds[g].url = u /\ t.feeds[g].body.medium = b.medium
        /\ t.feeds[g].body.artist = b.artist /\ t.feeds[g].body.items = b.items
    BY <1>1, <1>7 DEF BodyChanged
  <2>2. new # None
    BY <1>1, NoneAssumption
  <2> HIDE DEF s, new
  <2> QED BY <1>1, <1>3, <1>4, <1>7, <2>1, <2>2 DEF Alike, Held
<1> QED BY <1>6, <1>7

\* An ingest keeps the tables, and adds an event unless the list cannot tell
LEMMA IngestWrites ==
    ASSUME NamesIInv, NEW g \in Guids, NEW u \in Urls, NEW b \in Bodies, Ingest(g, u, b)
    PROVE  Wrote
<1> DEFINE new == [url |-> u, body |-> b]
           events == IF BodyChanged(tables.feeds[g], new) THEN 1 ELSE 0
<1>1. IsTables(tables) /\ seq \in Nat /\ StoredAt(tables, u) \subseteq {g}
  BY DEF NamesIInv, Ingest
<1>2. tables = [feeds |-> tables.feeds, obs |-> tables.obs] /\ tables.obs \in [Urls -> Guids \cup {None}]
  BY <1>1 DEF IsTables
<1>3. CASE /\ tables' = [feeds |-> [tables.feeds EXCEPT ![g] = new], obs |-> [tables.obs EXCEPT ![u] = g]]
           /\ seq' = seq + events + (IF tables.obs[u] = g THEN 0 ELSE 1)
  <2> DEFINE o == [tables.obs EXCEPT ![u] = g]
  <2>1. o \in [Urls -> Guids \cup {None}]
    BY <1>2
  <2>2. /\ IsTables(tables')
        /\ ~BodyChanged(tables.feeds[g], new) /\ o = tables.obs => Alike(tables, tables')
    <3> HIDE DEF o
    <3> QED BY <1>1, <1>3, <2>1, PutParts DEF o
  <2>3. tables.obs[u] = g => o = tables.obs
    BY <1>2
  <2>4. seq' \in Nat /\ (seq' > seq \/ (seq' = seq /\ ~BodyChanged(tables.feeds[g], new) /\ tables.obs[u] = g))
    BY <1>1, <1>3
  <2> QED BY <2>2, <2>3, <2>4 DEF Wrote
<1>4. CASE tables' = [tables EXCEPT !.feeds[g] = new] /\ seq' = seq + events
  <2>1. tables' = [feeds |-> [tables.feeds EXCEPT ![g] = new], obs |-> tables.obs]
    BY <1>2, <1>4
  <2>2. /\ IsTables(tables')
        /\ ~BodyChanged(tables.feeds[g], new) => Alike(tables, tables')
    BY <1>1, <1>2, <2>1, PutParts
  <2>3. seq' \in Nat /\ (seq' > seq \/ (seq' = seq /\ ~BodyChanged(tables.feeds[g], new)))
    BY <1>1, <1>4
  <2> QED BY <2>2, <2>3 DEF Wrote
<1> QED BY <1>3, <1>4 DEF Ingest

\* An observation adds an event
LEMMA ObserveWrites ==
    ASSUME NamesIInv, NEW g \in Guids, NEW u \in Urls, Observe(g, u)
    PROVE  Wrote
<1>1. IsTables(tables) /\ seq \in Nat
  BY DEF NamesIInv
<1>2. /\ tables = [feeds |-> tables.feeds, obs |-> tables.obs]
      /\ tables.obs \in [Urls -> Guids \cup {None}] /\ tables.feeds \in [Guids -> Record \cup {None}]
  BY <1>1 DEF IsTables
<1>3. tables' = [feeds |-> tables.feeds, obs |-> [tables.obs EXCEPT ![u] = g]] /\ seq' = seq + 1
  BY <1>2 DEF Observe
<1>4. IsTables(tables')
  BY <1>1, <1>2, <1>3 DEF IsTables
<1> QED BY <1>1, <1>3, <1>4 DEF Wrote

\* So does a retirement
LEMMA RetireWrites ==
    ASSUME NamesIInv, NEW g \in Guids, Retire(g)
    PROVE  Wrote
<1>1. IsTables(tables) /\ seq \in Nat
  BY DEF NamesIInv
<1>2. /\ tables = [feeds |-> tables.feeds, obs |-> tables.obs]
      /\ tables.obs \in [Urls -> Guids \cup {None}] /\ tables.feeds \in [Guids -> Record \cup {None}]
  BY <1>1 DEF IsTables
<1>3. tables' = [feeds |-> [tables.feeds EXCEPT ![g] = None], obs |-> tables.obs] /\ seq' = seq + 1
  BY <1>2 DEF Retire
<1>4. \A h \in Guids : tables'.feeds[h] # None => tables'.feeds[h] = tables.feeds[h]
  BY <1>2, <1>3
<1>5. tables' \in [feeds : [Guids -> Record \cup {None}], obs : [Urls -> Guids \cup {None}]]
  BY <1>2, <1>3
<1>6. IsTables(tables')
  BY <1>1, <1>4, <1>5 DEF IsTables
<1> QED BY <1>1, <1>3, <1>6 DEF Wrote

\* A write keeps the invariant: the copy and the build stay behind it, or they
\* read the same in the new tables
LEMMA WritesKeep ==
    ASSUME NamesIInv, Wrote, writes' \in 0..MaxWrites, UNCHANGED <<copy, build>>
    PROVE  NamesIInv'
<1>1. /\ IsTables(tables) /\ seq \in Nat /\ seq' \in Nat /\ IsTables(tables')
      /\ seq' > seq \/ (seq' = seq /\ Alike(tables, tables'))
      /\ copy' = copy /\ build' = build
  BY DEF NamesIInv, Wrote
<1>2. CopyOK'
  BY <1>1 DEF NamesIInv, CopyOK
<1>3. BuildOK'
  BY <1>1 DEF NamesIInv, BuildOK
<1>4. CASE seq' > seq
  <2>1. ReadsAreCurrent'
    BY <1>1, <1>4 DEF NamesIInv, BuildOK, ReadsAreCurrent
  <2>2. SameSeqIsCurrent'
    BY <1>1, <1>4 DEF NamesIInv, CopyOK, SameSeqIsCurrent
  <2> QED BY <1>1, <1>2, <1>3, <2>1, <2>2 DEF NamesIInv
<1>5. CASE seq' = seq /\ Alike(tables, tables')
  <2>0. /\ OfMedium(tables, "publisher") = OfMedium(tables', "publisher")
        /\ MusicRows(tables) = MusicRows(tables')
        /\ \A g \in Guids :
             Known(LinkFacts(tables, Rows(tables, g))) = Known(LinkFacts(tables', Rows(tables', g)))
        /\ \A r \in MusicRows(tables) :
             IsNameLevel(Rows(tables, r[2])) = IsNameLevel(Rows(tables', r[2]))
        /\ KnownFacts(ArtistList(tables).publishers) = KnownFacts(ArtistList(tables').publishers)
        /\ KnownList(ArtistList(tables)) = KnownList(ArtistList(tables'))
    BY <1>1, <1>5, AlikeReads
  <2>1. ReadsAreCurrent'
    <3> SUFFICES ASSUME build # Idle, build.seq = seq
                 PROVE  /\ build.step = "facts" =>
                             /\ build.todo \subseteq OfMedium(tables', "publisher")
                             /\ KnownFacts(build.list.publishers) =
                                  [g \in OfMedium(tables', "publisher") \ build.todo |->
                                      Known(LinkFacts(tables', Rows(tables', g)))]
                             /\ build.list.names = {}
                        /\ build.step = "music" =>
                             /\ build.todo \subseteq MusicRows(tables')
                             /\ KnownFacts(build.list.publishers) =
                                  KnownFacts(ArtistList(tables').publishers)
                             /\ build.list.names =
                                  {r \in MusicRows(tables') \ build.todo :
                                      IsNameLevel(Rows(tables', r[2]))}
      BY <1>1, <1>5 DEF ReadsAreCurrent
    <3> DEFINE D == OfMedium(tables, "publisher") \ build.todo
               M == MusicRows(tables) \ build.todo
    <3>1. [g \in D |-> Known(LinkFacts(tables, Rows(tables, g)))]
          = [g \in D |-> Known(LinkFacts(tables', Rows(tables', g)))]
      <4>1. D \subseteq Guids
        BY DEF OfMedium
      <4> HIDE DEF D
      <4> QED BY <2>0, <4>1
    <3>2. {r \in M : IsNameLevel(Rows(tables, r[2]))} = {r \in M : IsNameLevel(Rows(tables', r[2]))}
      BY <2>0
    <3> QED BY <1>1, <2>0, <3>1, <3>2 DEF NamesIInv, ReadsAreCurrent
  <2>2. SameSeqIsCurrent'
    BY <1>1, <1>5, <2>0 DEF NamesIInv, SameSeqIsCurrent
  <2> QED BY <1>1, <1>2, <1>3, <2>1, <2>2 DEF NamesIInv
<1> QED BY <1>1, <1>4, <1>5

\* The steps of a build keep the invariant
LEMMA BuildsKeep ==
    ASSUME NamesIInv, StartBuild \/ BuildStep
    PROVE  NamesIInv'
<1>1. /\ IsTables(tables) /\ seq \in Nat /\ writes \in 0..MaxWrites
      /\ CopyOK /\ BuildOK /\ ReadsAreCurrent /\ SameSeqIsCurrent
  BY DEF NamesIInv
<1>2. /\ IsTables(tables)' /\ (seq \in Nat)' /\ (writes \in 0..MaxWrites)'
      /\ tables' = tables /\ seq' = seq
  BY <1>1 DEF StartBuild, BuildStep, ReadPublishers, ReadFacts, ReadMusic, ReadRows, Store
<1>3. ASSUME copy' = copy PROVE CopyOK' /\ SameSeqIsCurrent'
  BY <1>1, <1>2, <1>3 DEF CopyOK, SameSeqIsCurrent
<1>4. CASE StartBuild
  <2>1. /\ copy' = copy
        /\ build' = [step |-> "publishers", seq |-> seq, todo |-> {},
                      list |-> [publishers |-> <<>>, names |-> {}]]
    BY <1>4 DEF StartBuild
  <2>2. BuildOK'
    BY <1>1, <1>2, <2>1 DEF BuildOK, ListOK
  <2>3. ReadsAreCurrent'
    BY <2>1 DEF ReadsAreCurrent
  <2> QED BY <1>2, <1>3, <2>1, <2>2, <2>3 DEF NamesIInv
<1>5. CASE ReadPublishers
  <2>1. build # Idle /\ build.step = "publishers" /\ copy' = copy
    BY <1>5 DEF ReadPublishers, Idle
  <2>2. build' = [step |-> "facts", seq |-> build.seq, todo |-> OfMedium(tables, "publisher"), list |-> build.list]
    BY <1>1, <1>5, <2>1 DEF ReadPublishers, BuildOK
  <2>3. BuildOK'
    BY <1>1, <1>2, <2>1, <2>2 DEF BuildOK
  <2>4. [g \in OfMedium(tables, "publisher") \ OfMedium(tables, "publisher") |->
           Known(LinkFacts(tables, Rows(tables, g)))] = <<>>
    <3>1. OfMedium(tables, "publisher") \ OfMedium(tables, "publisher") = {}
      OBVIOUS
    <3> QED BY <3>1
  <2>5. KnownFacts(<<>>) = <<>>
    BY DEF KnownFacts
  <2>6. build'.list.publishers = <<>> /\ build'.list.names = {}
    BY <1>1, <2>1, <2>2 DEF BuildOK
  <2>7. ReadsAreCurrent'
    BY <1>2, <2>2, <2>4, <2>5, <2>6 DEF ReadsAreCurrent
  <2> QED BY <1>2, <1>3, <2>1, <2>3, <2>7 DEF NamesIInv
<1>6. ASSUME NEW g \in Guids, ReadFacts(g) PROVE NamesIInv'
  <2> DEFINE old == build.list.publishers
             new == [h \in DOMAIN old \cup {g} |->
                       IF h = g THEN LinkFacts(tables, Rows(tables, g)) ELSE old[h]]
  <2>1. build # Idle /\ build.step = "facts" /\ copy' = copy /\ g \in build.todo
    BY <1>6 DEF ReadFacts, Idle
  <2>2. build' = [step |-> "facts", seq |-> build.seq, todo |-> build.todo \ {g},
                  list |-> [publishers |-> new, names |-> build.list.names]]
    <3>1. /\ build = [step |-> build.step, seq |-> build.seq, todo |-> build.todo, list |-> build.list]
          /\ build.list = [publishers |-> build.list.publishers, names |-> build.list.names]
      BY <1>1, <2>1 DEF BuildOK, ListOK
    <3>2. build' = [build EXCEPT !.todo = build.todo \ {g}, !.list.publishers = new]
      BY <1>6 DEF ReadFacts
    <3> HIDE DEF new
    <3> QED BY <2>1, <3>1, <3>2
  <2>3. BuildOK'
    <3>1. \A h \in DOMAIN new : new[h] \in Facts
      BY <1>1, <2>1, LinkFactsType DEF BuildOK, ListOK
    <3> HIDE DEF new
    <3>2. build'.list = [publishers |-> new, names |-> build.list.names]
      BY <2>2
    <3>3. ListOK(build'.list)
      BY <3>1, <3>2 DEF ListOK
    <3> QED BY <1>1, <1>2, <2>1, <2>2, <3>3 DEF BuildOK
  <2>4. ReadsAreCurrent'
    <3>1. CASE build.seq = seq
      <4> DEFINE P == OfMedium(tables, "publisher")
                 F(h) == LinkFacts(tables, Rows(tables, h))
      <4>1. /\ build.todo \subseteq P
            /\ KnownFacts(old) = [h \in P \ build.todo |-> Known(F(h))]
            /\ build.list.names = {}
        BY <1>1, <2>1, <3>1 DEF ReadsAreCurrent
      <4>2. (P \ build.todo) \cup {g} = P \ (build.todo \ {g})
        BY <2>1, <4>1
      <4>3. KnownFacts(new) = [h \in P \ (build.todo \ {g}) |-> Known(F(h))]
        <5>0. new = [h \in DOMAIN old \cup {g} |-> IF h = g THEN F(g) ELSE old[h]]
          OBVIOUS
        <5> HIDE DEF F, P, old, new
        <5>1. DOMAIN old = P \ build.todo
          BY <4>1 DEF KnownFacts
        <5>2. \A h \in P \ build.todo : Known(old[h]) = Known(F(h))
          BY <4>1, <5>1 DEF KnownFacts
        <5>3. /\ DOMAIN new = (P \ build.todo) \cup {g}
              /\ \A h \in DOMAIN new : Known(new[h]) = Known(F(h))
          BY <5>0, <5>1, <5>2
        <5>4. KnownFacts(new) = [h \in (P \ build.todo) \cup {g} |-> Known(F(h))]
          BY <5>3 DEF KnownFacts
        <5> QED BY <4>2, <5>4
      <4> HIDE DEF new
      <4> QED BY <1>2, <2>1, <2>2, <4>1, <4>3 DEF ReadsAreCurrent
    <3>2. CASE build.seq # seq
      <4> HIDE DEF new
      <4> QED BY <1>2, <2>2, <3>2 DEF ReadsAreCurrent
    <3> QED BY <3>1, <3>2
  <2> QED BY <1>2, <1>3, <2>1, <2>3, <2>4 DEF NamesIInv
<1>7. CASE ReadMusic
  <2>1. build # Idle /\ build.step = "facts" /\ copy' = copy /\ build.todo = {}
    BY <1>7 DEF ReadMusic, Idle
  <2>2. build' = [step |-> "music", seq |-> build.seq, todo |-> MusicRows(tables), list |-> build.list]
    BY <1>1, <1>7, <2>1 DEF ReadMusic, BuildOK, MusicRows
  <2>3. BuildOK'
    BY <1>1, <1>2, <2>1, <2>2 DEF BuildOK
  <2>4. ReadsAreCurrent'
    <3>1. CASE build.seq = seq
      <4>1. OfMedium(tables, "publisher") \ {} = OfMedium(tables, "publisher")
        OBVIOUS
      <4>2. /\ KnownFacts(build.list.publishers) = KnownFacts(ArtistList(tables).publishers)
            /\ build.list.names = {}
        BY <1>1, <2>1, <3>1, <4>1, KnownOfList DEF ReadsAreCurrent
      <4>3. {r \in MusicRows(tables) \ MusicRows(tables) : IsNameLevel(Rows(tables, r[2]))} = {}
        OBVIOUS
      <4> QED BY <1>2, <2>2, <4>2, <4>3 DEF ReadsAreCurrent
    <3>2. CASE build.seq # seq
      BY <1>2, <2>2, <3>2 DEF ReadsAreCurrent
    <3> QED BY <3>1, <3>2
  <2> QED BY <1>2, <1>3, <2>1, <2>3, <2>4 DEF NamesIInv
<1>8. ASSUME NEW r, ReadRows(r) PROVE NamesIInv'
  <2> DEFINE new == IF IsNameLevel(Rows(tables, r[2])) THEN build.list.names \cup {r} ELSE build.list.names
  <2>1. build # Idle /\ build.step = "music" /\ copy' = copy /\ r \in build.todo
    BY <1>8 DEF ReadRows, Idle
  <2>2. build' = [step |-> "music", seq |-> build.seq, todo |-> build.todo \ {r},
                  list |-> [publishers |-> build.list.publishers, names |-> new]]
    <3>1. /\ build = [step |-> build.step, seq |-> build.seq, todo |-> build.todo, list |-> build.list]
          /\ build.list = [publishers |-> build.list.publishers, names |-> build.list.names]
      BY <1>1, <2>1 DEF BuildOK, ListOK
    <3>2. build' = [build EXCEPT !.todo = build.todo \ {r}, !.list.names = new]
      BY <1>8 DEF ReadRows
    <3> HIDE DEF new
    <3> QED BY <2>1, <3>1, <3>2
  <2>3. BuildOK'
    <3> HIDE DEF new
    <3>1. build'.list = [publishers |-> build.list.publishers, names |-> new]
      BY <2>2
    <3>2. ListOK(build'.list)
      BY <1>1, <2>1, <3>1 DEF ListOK, BuildOK
    <3> QED BY <1>1, <1>2, <2>1, <2>2, <3>2 DEF BuildOK
  <2>4. ReadsAreCurrent'
    <3>1. CASE build.seq = seq
      <4> DEFINE N(x) == IsNameLevel(Rows(tables, x[2]))
                 M == MusicRows(tables)
      <4>1. /\ build.todo \subseteq M
            /\ KnownFacts(build.list.publishers) = KnownFacts(ArtistList(tables).publishers)
            /\ build.list.names = {x \in M \ build.todo : N(x)}
        BY <1>1, <2>1, <3>1 DEF ReadsAreCurrent
      <4>2. new = {x \in M \ (build.todo \ {r}) : N(x)}
        <5>1. new = IF N(r) THEN build.list.names \cup {r} ELSE build.list.names
          OBVIOUS
        <5> HIDE DEF N, M, new
        <5>2. \A x : x \in M \ (build.todo \ {r}) <=> x \in M \ build.todo \/ x = r
          BY <2>1, <4>1
        <5> QED BY <4>1, <5>1, <5>2
      <4> HIDE DEF new
      <4> QED BY <1>2, <2>1, <2>2, <4>1, <4>2 DEF ReadsAreCurrent
    <3>2. CASE build.seq # seq
      <4> HIDE DEF new
      <4> QED BY <1>2, <2>2, <3>2 DEF ReadsAreCurrent
    <3> QED BY <3>1, <3>2
  <2> QED BY <1>2, <1>3, <2>1, <2>3, <2>4 DEF NamesIInv
<1>9. CASE Store
  <2>1. /\ build # Idle /\ build.step = "music" /\ build.todo = {} /\ build' = Idle
        /\ copy' = [list |-> build.list, seq |-> build.seq, age |-> 0]
    BY <1>9 DEF Store, Idle
  <2>2. CopyOK'
    BY <1>1, <1>2, <2>1 DEF BuildOK, CopyOK
  <2>3. BuildOK' /\ ReadsAreCurrent'
    BY <2>1 DEF BuildOK, ReadsAreCurrent
  <2>4. SameSeqIsCurrent'
    <3>1. CASE build.seq = seq
      <4>1. MusicRows(tables) \ {} = MusicRows(tables)
        OBVIOUS
      <4>2. /\ KnownFacts(build.list.publishers) = KnownFacts(ArtistList(tables).publishers)
            /\ build.list.names = {r \in MusicRows(tables) : IsNameLevel(Rows(tables, r[2]))}
        BY <1>1, <2>1, <3>1, <4>1 DEF ReadsAreCurrent
      <4>3. KnownList(build.list) = KnownList(ArtistList(tables))
        BY <4>2, ListByRows DEF KnownList
      <4> QED BY <1>2, <2>1, <4>3 DEF SameSeqIsCurrent
    <3>2. CASE build.seq # seq
      BY <1>2, <2>1, <3>2 DEF SameSeqIsCurrent
    <3> QED BY <3>1, <3>2
  <2> QED BY <1>2, <2>2, <2>3, <2>4 DEF NamesIInv
<1> QED BY <1>4, <1>5, <1>6, <1>7, <1>8, <1>9 DEF BuildStep

\* A failed build, a restart and the clock keep the invariant
LEMMA OthersKeep ==
    ASSUME NamesIInv, BuildFails \/ Restart \/ Tick
    PROVE  NamesIInv'
<1>1. MaxWrites \in Nat
  BY BoundsAssumption
<1>2. CASE BuildFails \/ Restart
  <2>1. /\ tables' = tables /\ seq' = seq /\ writes' \in 0..MaxWrites /\ build' = Idle
        /\ copy' = copy \/ copy' = None
    BY <1>1, <1>2 DEF NamesIInv, BuildFails, Restart, Write
  <2> QED BY <2>1 DEF NamesIInv, CopyOK, BuildOK, ReadsAreCurrent, SameSeqIsCurrent
<1>3. CASE Tick
  <2>1. tables' = tables /\ seq' = seq /\ writes' = writes /\ build' = build /\ copy # None
    BY <1>3 DEF Tick
  <2>2. copy' = [list |-> copy.list, seq |-> copy.seq, age |-> copy.age + 1]
    BY <1>3, <2>1 DEF NamesIInv, CopyOK, Tick
  <2>3. CopyOK' /\ SameSeqIsCurrent'
    BY <2>1, <2>2 DEF NamesIInv, CopyOK, SameSeqIsCurrent
  <2>4. BuildOK' /\ ReadsAreCurrent'
    BY <2>1 DEF NamesIInv, BuildOK, ReadsAreCurrent
  <2> QED BY <2>1, <2>3, <2>4 DEF NamesIInv
<1> QED BY <1>2, <1>3

\* The inductive invariant holds at every step
LEMMA NamesInvariant == Spec => []NamesIInv
<1>1. Init => NamesIInv
  BY StartAssumption, BoundsAssumption
     DEF Init, NamesIInv, CopyOK, BuildOK, ReadsAreCurrent, SameSeqIsCurrent
<1>2. NamesIInv /\ [Next]_vars => NamesIInv'
  <2> SUFFICES ASSUME NamesIInv, [Next]_vars PROVE NamesIInv'
    OBVIOUS
  <2>1. ASSUME NEW g \in Guids, NEW u \in Urls, Observe(g, u) PROVE NamesIInv'
    <3>1. Wrote
      BY <2>1, ObserveWrites
    <3>2. writes' \in 0..MaxWrites /\ UNCHANGED <<copy, build>>
      BY <2>1, BoundsAssumption DEF Observe, Write, NamesIInv
    <3> QED BY <3>1, <3>2, WritesKeep
  <2>2. ASSUME NEW g \in Guids, NEW u \in Urls, NEW b \in Bodies, Ingest(g, u, b) PROVE NamesIInv'
    <3>1. Wrote
      BY <2>2, IngestWrites
    <3>2. writes' \in 0..MaxWrites /\ UNCHANGED <<copy, build>>
      BY <2>2, BoundsAssumption DEF Ingest, Write, NamesIInv
    <3> QED BY <3>1, <3>2, WritesKeep
  <2>3. ASSUME NEW g \in Guids, Retire(g) PROVE NamesIInv'
    <3>1. Wrote
      BY <2>3, RetireWrites
    <3>2. writes' \in 0..MaxWrites /\ UNCHANGED <<copy, build>>
      BY <2>3, BoundsAssumption DEF Retire, Write, NamesIInv
    <3> QED BY <3>1, <3>2, WritesKeep
  <2>4. CASE UNCHANGED vars
    BY <2>4 DEF vars, NamesIInv, CopyOK, BuildOK, ReadsAreCurrent, SameSeqIsCurrent
  <2> QED BY <2>1, <2>2, <2>3, <2>4, BuildsKeep, OthersKeep DEF Next
<1> QED BY <1>1, <1>2, PTL DEF Spec

\* A list that get_or_build gives out under the current seq is the list of the
\* tables, whatever commits between the reads of a build; only the artist text
\* "Unknown Artist" may differ, which counts by a column no event carries alone
THEOREM SameSeqStaysCurrent == Spec => []NamesInv
<1>1. NamesIInv => NamesInv
  BY DEF NamesIInv, NamesInv, TypeOK, CopyOK, ListOK
<1> QED BY <1>1, NamesInvariant, PTL

\* The album's view, the publisher's view and the two searches give one answer
\* about a link, whatever the items and the observations
THEOREM LinksAlwaysAgree == Spec => []LinksAgree
<1>1. NamesIInv => LinksAgree
  BY SidesAgree, SearchAgrees, CountAgrees DEF NamesIInv, LinksAgree
<1> QED BY <1>1, NamesInvariant, PTL

\* When no feed names another one twice, credit through an album is mutual
THEOREM CreditStaysMutual == Spec => []CreditIsMutual
<1>1. NamesIInv => CreditIsMutual
  BY CreditShared DEF NamesIInv
<1> QED BY <1>1, NamesInvariant, PTL
=============================================================================
