----------------------------- MODULE ArtistNames -----------------------------
(***************************************************************************)
(* The artist list in memory (ADR 0070 section 4a) over tables that change *)
(* under it.  A request takes the lock, reads the highest seq of the event *)
(* log, and uses the copy, or builds a new one.  A build is many reads,    *)
(* each of the tables of its moment: the publisher feeds, the rows of each *)
(* of them, the music feeds, the rows of each of them.  Writes commit      *)
(* between any two.  The rows of one feed are read in one step.            *)
(***************************************************************************)
EXTENDS PublisherLinks

CONSTANTS
    Start,      \* the tables a node may open
    MinAge,     \* ARTIST_NAME_CACHE_MIN_REBUILD_INTERVAL
    MaxWrites   \* bound: ingests, retirements, restarts and failed builds

ASSUME StartAssumption == \A t \in Start : IsTables(t)
ASSUME BoundsAssumption == MinAge \in Nat \ {0} /\ MaxWrites \in Nat

VARIABLES
    tables,  \* the feeds and URL observations
    seq,     \* the highest seq of events, from that of the opened log on
    copy,    \* ArtistNameCache: the list, its seq and its age, None without one
    build,   \* the build that holds the lock
    writes   \* history: the bounded steps so far

vars == <<tables, seq, copy, build, writes>>

Idle == [step |-> "idle"]
Facts == [links : Nat, stated : SUBSET Roles, agreed : SUBSET Roles,
          artists : SUBSET (Names \cup {Unknown}), first : Nat]

\* publisher_feed_rows, music_feed_artist_rows
OfMedium(t, m) == {g \in Guids : Held(t, g) /\ t.feeds[g].body.medium = m}

\* build_artist_name_list on tables that stand still
ArtistList(t) ==
    [publishers |-> [g \in OfMedium(t, "publisher") |-> LinkFacts(t, Rows(t, g))],
     names |-> {<<t.feeds[g].body.artist, g>> :
                    g \in {h \in OfMedium(t, "music") : IsNameLevel(Rows(t, h))}}]

\* A list without the text of the placeholder among the artists of its publishers
Known(f) == [f EXCEPT !.artists = @ \ {Unknown}]
KnownFacts(fs) == [g \in DOMAIN fs |-> Known(fs[g])]
KnownList(l) == [publishers |-> KnownFacts(l.publishers), names |-> l.names]

Init ==
    /\ tables \in Start
    /\ seq = 0
    /\ copy = None
    /\ build = Idle
    /\ writes = 0

Write == writes < MaxWrites /\ writes' = writes + 1

-----------------------------------------------------------------------------
(* Writes of the tables, each with its events *)

\* feed_fields_changed or feed_remote_items_changed; where the artist text came
\* from (by) is not compared
BodyChanged(old, new) ==
    \/ old = None
    \/ old.url # new.url \/ old.body.medium # new.body.medium
    \/ old.body.artist # new.body.artist \/ old.body.items # new.body.items

\* An admission, an update or a move, then the observation of the URL in a
\* transaction of its own, which a crash may lose
Ingest(g, u, b) ==
    LET new == [url |-> u, body |-> b]
        events == IF BodyChanged(tables.feeds[g], new) THEN 1 ELSE 0
    IN /\ Write
       /\ StoredAt(tables, u) \subseteq {g}
       /\ \/ /\ tables' = [feeds |-> [tables.feeds EXCEPT ![g] = new],
                           obs |-> [tables.obs EXCEPT ![u] = g]]
             /\ seq' = seq + events + (IF tables.obs[u] = g THEN 0 ELSE 1)
          \/ /\ tables' = [tables EXCEPT !.feeds[g] = new]
             /\ seq' = seq + events
       /\ UNCHANGED <<copy, build>>

\* A mirror submission: only the observation
Observe(g, u) ==
    /\ Write
    /\ Held(tables, g) /\ tables.obs[u] # g /\ StoredAt(tables, u) = {}
    /\ tables' = [tables EXCEPT !.obs[u] = g]
    /\ seq' = seq + 1
    /\ UNCHANGED <<copy, build>>

\* delete_feed_sql leaves the observations
Retire(g) ==
    /\ Write
    /\ Held(tables, g)
    /\ tables' = [tables EXCEPT !.feeds[g] = None]
    /\ seq' = seq + 1
    /\ UNCHANGED <<copy, build>>

-----------------------------------------------------------------------------
(* get_or_build *)

\* Mutant: a copy stays good for as long as it is young
Fresh_Young(c) == c # None /\ c.age < MinAge + 1

Fresh(c) == c # None /\ (c.seq = seq \/ c.age < MinAge)

\* A request that finds no usable copy starts a build
StartBuild ==
    /\ build = Idle /\ ~Fresh(copy)
    /\ build' = [step |-> "publishers", seq |-> seq, todo |-> {},
                 list |-> [publishers |-> <<>>, names |-> {}]]
    /\ UNCHANGED <<tables, seq, copy, writes>>

ReadPublishers ==
    /\ build.step = "publishers"
    /\ build' = [build EXCEPT !.step = "facts", !.todo = OfMedium(tables, "publisher")]
    /\ UNCHANGED <<tables, seq, copy, writes>>

\* load_publisher gives no rows for a feed that is gone by now
ReadFacts(g) ==
    /\ build.step = "facts" /\ g \in build.todo
    /\ build' = [build EXCEPT !.todo = @ \ {g},
                    !.list.publishers = [h \in DOMAIN @ \cup {g} |->
                        IF h = g THEN LinkFacts(tables, Rows(tables, g)) ELSE @[h]]]
    /\ UNCHANGED <<tables, seq, copy, writes>>

ReadMusic ==
    /\ build.step = "facts" /\ build.todo = {}
    /\ build' = [build EXCEPT !.step = "music",
                    !.todo = {<<tables.feeds[g].body.artist, g>> : g \in OfMedium(tables, "music")}]
    /\ UNCHANGED <<tables, seq, copy, writes>>

ReadRows(r) ==
    /\ build.step = "music" /\ r \in build.todo
    /\ build' = [build EXCEPT !.todo = @ \ {r},
                    !.list.names = IF IsNameLevel(Rows(tables, r[2])) THEN @ \cup {r} ELSE @]
    /\ UNCHANGED <<tables, seq, copy, writes>>

\* Mutant: the copy takes the seq of the moment it is stored
Store_LateSeq ==
    /\ build.step = "music" /\ build.todo = {}
    /\ copy' = [list |-> build.list, seq |-> seq, age |-> 0]
    /\ build' = Idle
    /\ UNCHANGED <<tables, seq, writes>>

Store ==
    /\ build.step = "music" /\ build.todo = {}
    /\ copy' = [list |-> build.list, seq |-> build.seq, age |-> 0]
    /\ build' = Idle
    /\ UNCHANGED <<tables, seq, writes>>

\* A read of the build fails: the request answers an error, the copy stays
BuildFails ==
    /\ build # Idle /\ Write
    /\ build' = Idle
    /\ UNCHANGED <<tables, seq, copy>>

\* The copy does not outlive the process
Restart ==
    /\ Write
    /\ copy' = None /\ build' = Idle
    /\ UNCHANGED <<tables, seq>>

Tick ==
    /\ copy # None /\ copy.age < MinAge
    /\ copy' = [copy EXCEPT !.age = @ + 1]
    /\ UNCHANGED <<tables, seq, build, writes>>

-----------------------------------------------------------------------------
BuildStep ==
    \/ ReadPublishers \/ ReadMusic \/ Store
    \/ \E g \in Guids : ReadFacts(g)
    \/ \E r \in (Names \cup {Unknown}) \X Guids : ReadRows(r)

Next ==
    \/ \E g \in Guids, u \in Urls : Observe(g, u) \/ \E b \in Bodies : Ingest(g, u, b)
    \/ \E g \in Guids : Retire(g)
    \/ StartBuild \/ BuildStep \/ BuildFails \/ Restart \/ Tick

\* Clients keep asking, the blocking task runs on, and time passes.
Fairness == WF_vars(StartBuild) /\ WF_vars(BuildStep) /\ WF_vars(Tick)

Spec == Init /\ [][Next]_vars /\ Fairness

-----------------------------------------------------------------------------
(* Properties *)

TypeOK ==
    /\ IsTables(tables)
    /\ copy # None => \A g \in DOMAIN copy.list.publishers : copy.list.publishers[g] \in Facts
    /\ writes \in 0..MaxWrites

\* A copy that get_or_build gives out because the seq did not change is the list
\* of the tables as they are: no write that commits between the reads of a build
\* is lost to the marker (query.rs ArtistNameCache::get_or_build).  The text
\* "Unknown Artist" alone may be missing among, or left in, the artists of a
\* publisher: it counts or not by release_artist_source, which a body changes
\* without an event (db.rs feed_fields_changed).
SameSeqIsCurrent ==
    copy # None /\ copy.seq = seq => KnownList(copy.list) = KnownList(ArtistList(tables))

\* When the writes stop, requests bring the copy to the list of the tables, up to
\* the text "Unknown Artist", and it stays there (query.rs ArtistNameCache).
CatchesUp == <>[](copy # None /\ KnownList(copy.list) = KnownList(ArtistList(tables)))

\* The album's row of a link and the publisher's row of it say the same of both
\* directions, however each side names the other and whatever the URL
\* observations say (query.rs music_to_publisher_facts, publisher_to_music_facts).
BothSidesAgree ==
    LET rows == [g \in Guids |-> Rows(tables, g)]
    IN \A a, p \in Guids :
         (\E r \in Named(rows[a]) : r.publisher = p /\ r.twoWay)
         <=> (\E r \in Albums(rows[p]) : r.music = a /\ r.twoWay)

\* The search from the named feed, over its GUID and its observed URLs, finds the
\* releases whose own view names it, held or not (db.rs get_feeds_naming_feed
\* "agrees with the named_feeds entries").
SearchFindsTheView ==
    LET named == [a \in Guids |-> {r.publisher : r \in Named(Rows(tables, a))}]
    IN \A g \in Guids : FeedsNaming(tables, g) = {a \in Guids : g \in named[a]}

\* The artists counted for a publisher feed are those of the itunes:author albums
\* whose own view names it (db.rs get_publisher_album_release_artists).
CountFollowsTheView ==
    LET named == [a \in Guids |-> {r.publisher : r \in {x \in Named(Rows(tables, a)) : x.held}}]
    IN \A p \in Guids :
         DistinctArtists(tables, p) =
             {tables.feeds[a].body.artist : a \in {x \in Guids :
                 p \in named[x] /\ tables.feeds[x].body.by = "itunes_author"}}

\* Two feeds of which neither names the other in two items
NamesOnce(t, g, h) == Cardinality({k \in DOMAIN Items(t, g) : Resolve(t, Items(t, g)[k]) = h}) <= 1

\* When no feed names another one twice, a link that one side counts as confirmed
\* the other side counts too, so credit is shared both ways (query.rs
\* is_confirmed_link, co_credited_feeds).
CreditIsMutual ==
    (\A g, h \in Guids : NamesOnce(tables, g, h)) =>
        LET credited == [p \in Guids |-> CoCredited(tables, p)]
        IN \A p, q \in Guids : q \in credited[p] => p \in credited[q]

\* Tables and list are well formed, and a list with the current seq is the list of
\* the tables, up to the text "Unknown Artist" (query.rs ArtistNameCache).
NamesInv == TypeOK /\ SameSeqIsCurrent

\* One link has one answer: both sides agree on it, and the two searches that start
\* at the named feed find what the views of the others show (query.rs, db.rs
\* get_feeds_naming_feed, get_publisher_album_release_artists).
LinksAgree == BothSidesAgree /\ SearchFindsTheView /\ CountFollowsTheView
=============================================================================
