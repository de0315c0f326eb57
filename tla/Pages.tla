-------------------------------- MODULE Pages --------------------------------
(***************************************************************************)
(* The lists of the query API, read page by page.  No route keeps state    *)
(* between two pages: the cursor names the place of a row, and the next    *)
(* page begins after it in the tables of its moment.  Several routes read  *)
(* more than once for one page (a set of GUIDs first, batches and a filter *)
(* for each row, feeds and then tracks, a summary for each GUID).  Writes  *)
(* commit between any two reads.                                           *)
(*                                                                         *)
(* A behaviour is one walk of a client over one route.  A row of a list is *)
(* a number, its GUID or rowid in the order of the route.  Rows that the   *)
(* ORDER BY of a statement does not tell apart come in any order.          *)
(***************************************************************************)
EXTENDS LiveItems

CONSTANTS
    Rows,        \* the rows of the list
    Dates,       \* their dates or names as numbers
    TrackGuid,   \* the GUID of each row as a track: two feeds may use one GUID
    FeedHits,    \* the rows that are feeds in a search; the others are tracks
    LiveFeed,    \* the feed of each row as a live item
    Offers,      \* the lists of live items that the feeds send
    Limits,      \* the values of the limit parameter
    LimitMax,    \* LIST_LIMIT_MAX
    Batch,       \* LINK_FACT_FILTER_BATCH
    ScanMax,     \* LINK_FACT_FILTER_SCAN_MAX
    MaxWrites,   \* bound: writes during the walk
    MaxNow       \* bound: the clock

Row == [key : Dates \cup {None}, keep : BOOLEAN]

ASSUME PagesAssumption ==
    /\ Rows \subseteq Nat /\ Dates \subseteq Nat \ {0} /\ FeedHits \subseteq Rows
    /\ IsFiniteSet(Rows) /\ TrackGuid \in [Rows -> Nat]
    /\ Limits \subseteq Nat /\ {LimitMax, Batch, ScanMax} \subseteq Nat \ {0}
    /\ MaxWrites \in Nat /\ MaxNow \in Nat
ASSUME NoneAssumption == None \notin Nat \cup ((Nat \cup {None}) \X Nat) \cup LiveItem \cup Row
ASSUME OffersAssumption ==
    /\ DOMAIN Offers \subseteq Nat /\ LiveFeed \in [Rows -> DOMAIN Offers]
    /\ \A f \in DOMAIN Offers : \A l \in Offers[f] :
         l \in Seq(LiveItem) /\ \A i \in Range(l) : LiveFeed[i.guid] = f

VARIABLES
    query,   \* the parameters of the walk
    table,   \* the rows
    now,     \* the clock of the views
    walk,    \* the request under way, with the cursor it came with
    given,   \* history: the rows given so far, each with its place
    stable,  \* history: the rows that matched, unchanged, since the walk began
    writes   \* history: the writes so far

vars == <<query, table, now, walk, given, stable, writes>>

Plain == {"recent", "guid_changes", "artist_tracks", "by_date", "live"}
Named == {"by_name", "recent_named"}
Routes == Plain \cup Named \cup {"filtered", "search", "copies"}

\* The key is a column without NULLs, but for newest_item_at, pub_date and
\* newest_first_seen
Undated == {"recent", "recent_named", "filtered", "by_date", "copies"}
RouteRow == {r \in Row : r.key = None => query.route \in Undated}

-----------------------------------------------------------------------------
(* Places and their order *)

\* COALESCE(key, -1)
SortKey(r) == IF r.key = None THEN 0 ELSE r.key

\* What the cursor of the route says of row x
Place(t, x) ==
    CASE query.route = "live" -> <<LiveFeed[x], x>>
      [] query.route = "artist_tracks" -> <<SortKey(t[x]), TrackGuid[x]>>
      [] query.route = "by_date" -> <<t[x].key, x>>
      [] OTHER -> <<SortKey(t[x]), x>>

Less(p, q) == p[1] < q[1] \/ (p[1] = q[1] /\ p[2] < q[2])

\* ORDER BY row_date DESC NULLS LAST, rowid ASC
NewerDate(p, q) ==
    \/ p[1] # None /\ (q[1] = None \/ p[1] > q[1])
    \/ p[1] = q[1] /\ p[2] < q[2]

\* The WHERE clause of search_by_date for cursor c
AfterDate(p, c) ==
    \/ c[1] # None /\ (p[1] = None \/ p[1] < c[1] \/ (p[1] = c[1] /\ p[2] > c[2]))
    \/ c[1] = None /\ p[1] = None /\ p[2] > c[2]

Ascending == {"by_name", "live", "search"}

Precedes(p, q) ==
    CASE query.route \in Ascending -> Less(p, q)
      [] query.route = "by_date" -> NewerDate(p, q)
      [] OTHER -> Less(q, p)

\* Mutant: the row of the cursor is given again
Follows_OrEqual(p, c) ==
    p = c \/ IF query.route = "by_date" THEN AfterDate(p, c) ELSE Precedes(c, p)

Follows(p, c) == IF query.route = "by_date" THEN AfterDate(p, c) ELSE Precedes(c, p)

\* The rows after the cursor; from counts only without one
After(p, at) == IF at = None THEN p[1] = None \/ p[1] >= query.from ELSE Follows(p, at)

\* The row passes the filter of the route
Matches(t, n, x) ==
    /\ t[x] # None
    /\ IF query.route = "live" THEN InView(query.view, t[x], n) ELSE t[x].keep

Entry(x) == [row |-> x, place |-> Place(table, x)]

\* The rows of S that stand after at
Select(S, at) == {Entry(x) : x \in {y \in S : table[y] # None /\ After(Place(table, y), at)}}

\* ORDER BY: the sequences of the entries in the order of the route
Orders(entries) ==
    {s \in Bijection(1..Cardinality(entries), entries) :
        \A i, j \in DOMAIN s : i < j => ~Precedes(s[j].place, s[i].place)}

First(s, n) == SubSeq(s, 1, IF Len(s) < n THEN Len(s) ELSE n)

-----------------------------------------------------------------------------
Request(at) == [step |-> "request", at |-> at, only |-> {}, todo |-> <<>>, kept |-> <<>>,
                seen |-> 0, end |-> FALSE]
Done == [Request(None) EXCEPT !.step = "done"]

\* live_events of one body for each feed
LiveTable(lists) ==
    [x \in Rows |->
        LET is == {i \in SelectLiveItems(lists[LiveFeed[x]]) : i.guid = x}
        IN IF is = {} THEN None ELSE CHOOSE i \in is : TRUE]

\* Row x has its place for itself
Alone(t, x) == \A y \in Rows \ {x} : t[y] # None => Place(t, y) # Place(t, x)

\* Mutant: the limit is taken as it comes
CappedLimit_Raw(n) == n

\* capped_limit: clamp(1, LIST_LIMIT_MAX)
CappedLimit(n) == IF n = 0 THEN 1 ELSE IF n > LimitMax THEN LimitMax ELSE n

Queries == [route : Routes, limit : {CappedLimit(n) : n \in Limits}, from : {0} \cup Dates,
            view : {"now", "upcoming", "all"}, unlinked : BOOLEAN]

Init ==
    /\ query \in Queries
    /\ query.route # "by_name" => query.from = 0
    /\ query.route # "live" => query.view = "all"
    /\ query.route # "filtered" => ~query.unlinked
    /\ IF query.route = "live"
       THEN \E lists \in [DOMAIN Offers -> UNION Range(Offers)] :
              /\ \A f \in DOMAIN Offers : lists[f] \in Offers[f] /\ PassesCheck(lists[f])
              /\ table = LiveTable(lists)
       ELSE table \in [Rows -> RouteRow \cup {None}]
    /\ now = 0
    /\ walk = Request(None)
    /\ given = <<>>
    /\ stable = {x \in Rows : /\ Matches(table, 0, x) /\ Alone(table, x)
                              /\ After(Place(table, x), None)}
    /\ writes = 0

At(route, step) == query.route = route /\ walk.step = step

\* The answer: the first rows up to the limit; with more, the place of the last
Answer(rows) ==
    LET page == First(rows, query.limit)
    IN /\ given' = given \o page
       /\ walk' = IF Len(rows) > query.limit
                  THEN Request(IF page = <<>> THEN None ELSE page[Len(page)].place) ELSE Done

Reads == UNCHANGED <<query, table, now, stable, writes>>

-----------------------------------------------------------------------------
(* Routes that read the page in one statement *)

OneRead(route) ==
    /\ At(route, "request")
    /\ \E rows \in Orders(Select({x \in Rows : Matches(table, now, x)}, walk.at)) : Answer(rows)
    /\ Reads

\* GET /v1/feeds/recent without a filter
RecentPage == OneRead("recent")

\* GET /v1/guid-changes: all rows, sorted and cut in memory
GuidChangesPage == OneRead("guid_changes")

\* The tracks of an artist, by created_at and track GUID
ArtistTracksPage == OneRead("artist_tracks")

\* GET /v1/search without words
ByDatePage == OneRead("by_date")

\* GET /v1/live-items: all rows after the cursor, the view in memory
LivePage == OneRead("live")

-----------------------------------------------------------------------------
(* Routes that read more than once *)

\* GET /v1/feeds/by-name and /recent with named_feed_guid: first the GUIDs of the
\* feeds that name it, then their rows
NamedOnly ==
    /\ query.route \in Named /\ walk.step = "request"
    /\ walk' = [walk EXCEPT !.step = "rows", !.only = {x \in Rows : Matches(table, now, x)}]
    /\ UNCHANGED given /\ Reads

NamedPage ==
    /\ query.route \in Named /\ walk.step = "rows"
    /\ \E rows \in Orders(Select(walk.only, walk.at)) : Answer(rows)
    /\ Reads

\* GET /v1/search with words and without a type: feeds, then tracks, merged
SearchFeeds ==
    /\ At("search", "request")
    /\ \E rows \in Orders(Select({x \in FeedHits : Matches(table, now, x)}, walk.at)) :
         walk' = [walk EXCEPT !.step = "tracks", !.kept = First(rows, query.limit + 1)]
    /\ UNCHANGED given /\ Reads

SearchPage ==
    /\ At("search", "tracks")
    /\ \E rows \in Orders(Select({x \in Rows \ FeedHits : Matches(table, now, x)}, walk.at)) :
         \E merged \in Orders(Range(walk.kept) \cup Range(First(rows, query.limit + 1))) :
             Answer(merged)
    /\ Reads

\* GET /v1/copies: the GUIDs with copies, the summary of each, then the page
CopiesGuids ==
    /\ At("copies", "request")
    /\ walk' = [walk EXCEPT !.step = "records", !.only = {x \in Rows : table[x] # None}]
    /\ UNCHANGED given /\ Reads

CopiesRecord(x) ==
    /\ At("copies", "records") /\ x \in walk.only
    /\ walk' = [walk EXCEPT !.only = @ \ {x},
                    !.kept = IF Matches(table, now, x) THEN Append(@, Entry(x)) ELSE @]
    /\ UNCHANGED given /\ Reads

CopiesPage ==
    /\ At("copies", "records") /\ walk.only = {}
    /\ \E rows \in Orders({e \in Range(walk.kept) : After(e.place, walk.at)}) : Answer(rows)
    /\ Reads

\* GET /v1/feeds/recent with a filter: at is moved with each row examined
FilterBatch ==
    /\ At("filtered", "request") /\ walk.todo = <<>> /\ ~walk.end
    /\ \E rows \in Orders(Select(Rows, walk.at)) :
         walk' = [walk EXCEPT !.todo = First(rows, Batch), !.end = Len(rows) < Batch]
    /\ UNCHANGED given /\ Reads

\* LinkFactFilter::keeps; a feed that is gone by now has no links
KeepsFacts(x) == IF table[x] = None THEN query.unlinked ELSE table[x].keep

\* Mutant: a page that is full continues after the last row examined
FullCursor_Examined(kept, at) == at

\* The position after a page with more rows than the limit
FullCursor(kept, at) == kept[Len(kept)].place

ScanIsFull(seen) == seen >= ScanMax

FilterRow ==
    LET e == Head(walk.todo)
        kept == IF KeepsFacts(e.row) THEN Append(walk.kept, e) ELSE walk.kept
        seen == walk.seen + 1
        page == First(kept, query.limit)
        full == Len(kept) > query.limit
    IN /\ At("filtered", "request") /\ walk.todo # <<>>
       /\ IF full \/ ScanIsFull(seen)
          THEN /\ given' = given \o page
               /\ walk' = Request(IF full THEN FullCursor(page, e.place) ELSE e.place)
          ELSE /\ walk' = [walk EXCEPT !.at = e.place, !.todo = Tail(@), !.kept = kept,
                                       !.seen = seen]
               /\ UNCHANGED given
       /\ Reads

FilterEnd ==
    /\ At("filtered", "request") /\ walk.todo = <<>> /\ walk.end
    /\ given' = given \o walk.kept
    /\ walk' = Done
    /\ Reads

-----------------------------------------------------------------------------
(* Writes *)

StillStable(t, n) ==
    {x \in stable : t[x] = table[x] /\ Matches(t, n, x) /\ Alone(t, x)}

Commit(t) ==
    /\ writes < MaxWrites /\ writes' = writes + 1
    /\ t # table
    /\ table' = t
    /\ stable' = StillStable(t, now)
    /\ UNCHANGED <<query, now, walk, given>>

\* A row appears, changes its key or its match, or goes
Change(x, r) ==
    /\ query.route # "live" /\ r \in RouteRow \cup {None}
    /\ Commit([table EXCEPT ![x] = r])

\* The live rows of a feed are replaced; a status text that the table does not
\* take fails the whole ingest
ReplaceLiveEvents(f, items) ==
    /\ query.route = "live"
    /\ PassesCheck(items)
    /\ LET new == LiveTable([g \in DOMAIN Offers |-> items])
       IN Commit([x \in Rows |-> IF LiveFeed[x] = f THEN new[x] ELSE table[x]])

Tick ==
    /\ query.route = "live" /\ now < MaxNow
    /\ now' = now + 1
    /\ stable' = StillStable(table, now')
    /\ UNCHANGED <<query, table, walk, given, writes>>

-----------------------------------------------------------------------------
ReadStep ==
    \/ RecentPage \/ GuidChangesPage \/ ArtistTracksPage \/ ByDatePage \/ LivePage
    \/ NamedOnly \/ NamedPage \/ SearchFeeds \/ SearchPage
    \/ CopiesGuids \/ CopiesPage \/ \E x \in Rows : CopiesRecord(x)
    \/ FilterBatch \/ FilterRow \/ FilterEnd

Next ==
    \/ ReadStep
    \/ \E x \in Rows, r \in Row \cup {None} : Change(x, r)
    \/ \E f \in DOMAIN Offers : \E items \in Offers[f] \cup {<<>>} : ReplaceLiveEvents(f, items)
    \/ Tick

\* The client follows the cursor until there is no more.
Spec == Init /\ [][Next]_vars /\ WF_vars(ReadStep)

-----------------------------------------------------------------------------
(* Properties *)

Places == (Nat \cup (IF query.route = "by_date" THEN {None} ELSE {})) \X Nat
Entries == [row : Rows, place : Places]
Steps == {"request", "rows", "tracks", "records", "done"}

TypeOK ==
    /\ query \in Queries
    /\ table \in [Rows -> (IF query.route = "live" THEN LiveItem ELSE RouteRow) \cup {None}]
    /\ now \in 0..MaxNow /\ writes \in 0..MaxWrites
    /\ walk \in [step : Steps, at : Places \cup {None}, only : SUBSET Rows, todo : Seq(Entries),
                 kept : Seq(Entries), seen : 0..(ScanMax - 1), end : BOOLEAN]
    /\ Len(walk.todo) <= Batch
    /\ Len(walk.kept) <= (IF query.route = "copies" THEN Cardinality(Rows) ELSE query.limit + 1)
    /\ given \in Seq(Entries) /\ stable \subseteq Rows

\* A row that matches from the first page to the last, with its key unchanged and
\* its place its own, is given: writes to other rows between and within pages, an
\* empty page of the filtered route and a row without a date lose no row (query.rs
\* list_live_items "skips no matching row", filtered_recent_rows).
NothingMissed == walk.step = "done" => stable \subseteq {e.row : e \in Range(given)}

\* The pages go forward: no row comes again at the same place, none comes after a
\* row that it precedes (query.rs list_live_items "and repeats none").
PagesGoForward ==
    \A i, j \in DOMAIN given : i < j =>
        given[i] # given[j] /\ ~Precedes(given[j].place, given[i].place)

\* A client that follows the cursor comes to the end, whatever limit it asks for
\* and although a page of the filtered route may be empty ("has_more: true never
\* pairs with a null cursor", query.rs handle_get_recent_feeds).
WalkEnds == <>(walk.step = "done")

\* A live row without a relay link is out of the now view a margin after the
\* longest window it may name, also when its feed never sends again: the ban at
\* ingest and the view rule together leave no show on for ever (live.rs
\* is_banned_live_item, in_now_view).
UnrelayedLeaves ==
    query.route = "live" =>
        \A x \in Rows : table[x] # None /\ table[x].relay = "none" /\ InNowView(table[x], now) =>
            table[x].start # None /\ now < table[x].start + MaxUnrelayed + EndMargin

\* A request keeps within its batch, its scan limit and its page, and the pages go
\* forward (query.rs filtered_recent_rows, encode_cursor).
PagesInv == TypeOK /\ PagesGoForward
=============================================================================
