---------------------------- MODULE PublisherLinks ----------------------------
(***************************************************************************)
(* Links between music feeds and publisher feeds (archived ADR 0049, ADRs  *)
(* 0061, 0068 to 0071, 0076).  A feed names other feeds in its remote      *)
(* items, by GUID and often by URL, with the roles it states.  Nothing     *)
(* about a link is stored: each read resolves the items against the feeds  *)
(* and the URL observations of the moment, from the side it starts at.     *)
(* The same link is thus computed by several routes, in both directions,   *)
(* and by two searches that start from the named feed.                     *)
(*                                                                         *)
(* A rel text is the set of its roles (normalize_rel), an artist text its  *)
(* sort key.  A GUID that no record has is a member of Guids without one.  *)
(***************************************************************************)
EXTENDS Naturals, FiniteSets, Sequences, TLC

CONSTANTS
    Guids, Urls, Roles, Names,
    Unknown,   \* the placeholder "Unknown Artist"
    Bodies,    \* what the sources say: medium, artist and remote items
    None

Item == [medium : {"music", "publisher"}, source : {"podcast_publisher", "remote_item"},
         guid : Guids, url : Urls \cup {None}, rel : SUBSET Roles]
Body == [medium : {"music", "publisher"}, artist : Names \cup {Unknown},
         by : {"itunes_author", "itunes_owner", "placeholder"}, items : Seq(Item)]

\* derive_release_artist: a source without an artist gets the placeholder; an
\* itunes:author or owner may have the same text
ASSUME BodiesAssumption ==
    Bodies \subseteq Body /\ \A b \in Bodies : b.by = "placeholder" => b.artist = Unknown

\* feeds with feed_remote_items_raw, and feed_url_observations
Record == [url : Urls, body : Bodies]
ASSUME NoneAssumption == None \notin Guids \cup Urls \cup Nat \cup Record /\ "artist" \in Roles

IsTables(t) ==
    /\ t \in [feeds : [Guids -> Record \cup {None}], obs : [Urls -> Guids \cup {None}]]
    /\ \A g, h \in Guids :
         t.feeds[g] # None /\ t.feeds[h] # None /\ t.feeds[g].url = t.feeds[h].url => g = h

Held(t, g) == t.feeds[g] # None
Items(t, g) == IF Held(t, g) THEN t.feeds[g].body.items ELSE <<>>

-----------------------------------------------------------------------------
(* Resolution of one item *)

\* feed_indexed_by_stored_url
StoredAt(t, u) == {g \in Guids : Held(t, g) /\ t.feeds[g].url = u}

\* resolve_listed_feed: the GUID, else the observation of the URL when its feed
\* is held, else the feed stored at the URL
Resolve(t, i) ==
    CASE Held(t, i.guid) -> i.guid
      [] ~Held(t, i.guid) /\ i.url # None ->
           LET o == t.obs[i.url] IN
           IF o # None /\ Held(t, o) THEN o
           ELSE IF StoredAt(t, i.url) # {} THEN CHOOSE g \in StoredAt(t, i.url) : TRUE
           ELSE None
      [] OTHER -> None

\* is_album_publisher_link
IsLink(i) == i.medium = "publisher" /\ i.source = "podcast_publisher"

-----------------------------------------------------------------------------
(* The publisher view of one feed *)

\* role_agreement
Agreement(p, m) ==
    CASE p = {} /\ m = {} -> None
      [] p # {} /\ m # {} -> IF p = m THEN "both" ELSE "conflict"
      [] OTHER -> "one_side"

\* album_item_rank
Rank(items, k) ==
    IF k \in DOMAIN items /\ IsLink(items[k])
    THEN Cardinality({n \in 1..k : IsLink(items[n])}) ELSE None

\* The positions of the items that are links of a feed to its publisher
Links(t, g) == {k \in DOMAIN Items(t, g) : IsLink(Items(t, g)[k])}

\* The positions of the items for a feed of medium m
Naming(t, g, m) == {k \in DOMAIN Items(t, g) : Items(t, g)[k].medium = m}

\* The first of the positions in which g names h
FirstBack(t, g, h, positions) ==
    LET ks == {k \in positions : Resolve(t, Items(t, g)[k]) = h}
    IN IF ks = {} THEN None ELSE CHOOSE k \in ks : \A n \in ks : k <= n

RelAt(t, g, k) == IF k = None THEN {} ELSE Items(t, g)[k].rel

\* music_to_publisher_facts: a names its publisher in item k
MusicToPublisher(t, a, k) ==
    LET i == Items(t, a)[k]
        p == Resolve(t, i)
        back == IF p = None THEN None
                ELSE FirstBack(t, p, a, Naming(t, p, "music"))
    IN [pos |-> k, direction |-> "music_to_publisher", held |-> p # None,
        publisher |-> IF p = None THEN i.guid ELSE p, music |-> a,
        twoWay |-> back # None, prel |-> RelAt(t, p, back), mrel |-> i.rel,
        rank |-> Rank(Items(t, a), k)]

\* Mutant: any item of the album that names the publisher counts as its link
PublisherToMusic_AnyItem(t, p, k) ==
    LET i == Items(t, p)[k]
        a == Resolve(t, i)
        back == IF a = None THEN None
                ELSE FirstBack(t, a, p, Naming(t, a, "publisher"))
    IN [pos |-> k, direction |-> "publisher_to_music", held |-> a # None,
        publisher |-> p, music |-> IF a = None THEN i.guid ELSE a,
        twoWay |-> back # None, prel |-> i.rel, mrel |-> RelAt(t, a, back),
        rank |-> IF back = None THEN None ELSE Rank(Items(t, a), back)]

\* publisher_to_music_facts: p lists a music feed in item k
PublisherToMusic(t, p, k) ==
    LET i == Items(t, p)[k]
        a == Resolve(t, i)
        back == IF a = None THEN None ELSE FirstBack(t, a, p, Links(t, a))
    IN [pos |-> k, direction |-> "publisher_to_music", held |-> a # None,
        publisher |-> p, music |-> IF a = None THEN i.guid ELSE a,
        twoWay |-> back # None, prel |-> i.rel, mrel |-> RelAt(t, a, back),
        rank |-> IF back = None THEN None ELSE Rank(Items(t, a), back)]

\* build_publisher_row, by publisher_direction
Row(t, g, k) ==
    IF Items(t, g)[k].medium = "music" THEN PublisherToMusic(t, g, k)
    ELSE MusicToPublisher(t, g, k)

\* load_publisher
Rows(t, g) ==
    {Row(t, g, k) : k \in {n \in DOMAIN Items(t, g) :
        Items(t, g)[n].medium = "music" \/ IsLink(Items(t, g)[n])}}

Albums(rows) == {r \in rows : r.direction = "publisher_to_music"}
Named(rows) == {r \in rows : r.direction = "music_to_publisher"}

\* is_confirmed_link
Confirmed(r) == r.twoWay /\ Agreement(r.prel, r.mrel) # "conflict"

-----------------------------------------------------------------------------
(* What the routes derive from the rows *)

\* confirmed_and_unconfirmed_release_artists
ArtistsOf(t, rows) ==
    {t.feeds[r.music].body.artist :
        r \in {x \in Albums(rows) : x.held /\ t.feeds[x.music].body.by # "placeholder"}}
ConfirmedArtists(t, rows) == ArtistsOf(t, {r \in rows : Confirmed(r)})
UnconfirmedArtists(t, rows) ==
    ArtistsOf(t, {r \in rows : ~Confirmed(r)}) \ ConfirmedArtists(t, rows)

\* link_facts
LinkFacts(t, rows) ==
    LET sure == {r \in Albums(rows) : Confirmed(r)}
    IN [links |-> Cardinality(sure),
        stated |-> UNION {r.prel : r \in sure},
        agreed |-> UNION {r.prel : r \in {x \in sure : Agreement(x.prel, x.mrel) = "both"}},
        artists |-> ConfirmedArtists(t, rows),
        first |-> Cardinality({r \in sure : r.rank = 1})]

\* is_name_level_release
IsNameLevel(rows) ==
    \A r \in Named(rows) : r.held => Agreement(r.prel, r.mrel) = "both" /\ "artist" \notin r.mrel

\* Mutant: a link of the album in both directions is enough
CoCredited_TwoWay(t, p) ==
    {r.publisher : r \in UNION {{x \in Named(Rows(t, y.music)) : x.twoWay} :
                                y \in {z \in Albums(Rows(t, p)) : Confirmed(z)}}} \ {p}

\* co_credited_feeds
CoCredited(t, p) ==
    {r.publisher : r \in UNION {{x \in Named(Rows(t, y.music)) : Confirmed(x)} :
                                y \in {z \in Albums(Rows(t, p)) : Confirmed(z)}}} \ {p}

\* resolve_publisher_feed
PublisherFeed(t, g) ==
    LET links == SelectSeq(Items(t, g), IsLink)
    IN IF links = <<>> THEN None ELSE Resolve(t, Head(links))

\* The URLs that name a feed: the observed ones and its stored one
UrlsOf(t, g) == {u \in Urls : t.obs[u] = g} \cup (IF Held(t, g) THEN {t.feeds[g].url} ELSE {})

\* The items in which a names its publishers
LinkItems(t, a) == {Items(t, a)[k] : k \in Links(t, a)}

\* get_feeds_naming_feed
FeedsNaming(t, g) ==
    {a \in Guids : \E i \in LinkItems(t, a) : i.guid = g /\ Resolve(t, i) \in {g, None}}
    \cup (IF Held(t, g)
          THEN {a \in Guids : \E i \in LinkItems(t, a) : i.url \in UrlsOf(t, g) /\ Resolve(t, i) = g}
          ELSE {})

\* get_publisher_album_release_artists, as publisher_artist_count counts them
DistinctArtists(t, p) ==
    LET named == {a \in Guids : \E i \in LinkItems(t, a) :
                    (i.guid = p \/ i.url \in UrlsOf(t, p)) /\ Resolve(t, i) = p}
    IN {t.feeds[a].body.artist : a \in {b \in named : t.feeds[b].body.by = "itunes_author"}}
=============================================================================
