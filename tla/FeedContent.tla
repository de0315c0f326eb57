----------------------------- MODULE FeedContent -----------------------------
(***************************************************************************)
(* The body of one record: its feed row, the lists of the feed, its tracks *)
(* with their routes, the search index over them, and the copies of the    *)
(* feed that other URLs serve under the same GUID (archived ADR 0058).     *)
(* The primary writes a whole body at each ingest and signs events only    *)
(* for what build_diff_events finds changed; a community node has nothing  *)
(* but the events.                                                         *)
(*                                                                         *)
(* A list (routes, remote items, claims, links, live events ...) is one    *)
(* value, 0 when it is empty.  Of the feed row, fields is what             *)
(* feed_fields_changed compares and built stands for the columns it does   *)
(* not.  A track's file is its enclosure URL, the one compared field       *)
(* outside the index, and its pay is its payment routes with its value     *)
(* time splits. Events reach the node in the order of the log (module      *)
(* Replication), so it applies them at once.  The events about lists,      *)
(* tracks and URLs go through the rows in one fixed order.  The block      *)
(* check of a submission runs before the writer lock and may be out of     *)
(* date (module FeedLifecycle), so no submission is stopped here.          *)
(***************************************************************************)
EXTENDS Naturals, FiniteSets, Sequences, Functions, TLC

CONSTANTS
    Urls, Tracks,
    Families,         \* the lists of a feed; "routes" and "items" among them
    Fields,           \* the compared fields of a feed or of a track
    MusicFields, PublisherFields,  \* the fields of a feed with that medium
    Bodies,           \* the bodies that the sources send
    None,
    MaxCopies,        \* MAX_COPIES_PER_GUID
    MaxOver,          \* bound: copies over the limit
    MaxActs           \* bound: operator actions, moves and crashes

Lists == 0..1
TrackRow == [fields : Fields, file : 0..1, pay : Lists, items : Lists]
TrackRows == [Tracks -> TrackRow \cup {None}]
Body == [fields : Fields, built : 0..2, lists : [Families -> Lists], tracks : TrackRows]

ASSUME BoundsAssumption == MaxCopies \in Nat \ {0} /\ MaxOver \in Nat /\ MaxActs \in Nat
ASSUME BodiesAssumption == Bodies \subseteq Body /\ {"routes", "items"} \subseteq Families
ASSUME FiniteAssumption == IsFiniteSet(Urls) /\ IsFiniteSet(Tracks) /\ IsFiniteSet(Families)
ASSUME MediumAssumption ==
    MusicFields \subseteq Fields /\ PublisherFields \subseteq Fields \ MusicFields

VARIABLES
    main,    \* the tables of the primary
    node,    \* the tables of a community node
    over,    \* feed_copy_overflow
    judged,  \* history: what the operator's last decision on a copy row was about
    seen,    \* history: the last body that the URL of each copy row sent as a mirror
    acts     \* history: the bounded steps so far

vars == <<main, node, over, judged, seen, acts>>

Record == [url : Urls, fields : Fields, built : 0..2, lists : [Families -> Lists],
           tracks : TrackRows]
Summary == [routes : Lists, pays : [Tracks -> Lists \cup {None}]]
Digests == [sum : Summary, list : Lists]
CopyBody == [sum : Summary, list : Lists, look : Fields]
CopyRow == [sum : Summary, list : Lists, look : Fields, done : Digests \cup {None}]
Index == [feed : Fields \cup {None}, publisher : Fields \cup {None},
          tracks : [Tracks -> Fields \cup {None}]]
Tables == [rec : Record \cup {None}, index : Index, copies : [Urls -> CopyRow \cup {None}],
           obs : SUBSET Urls, blocks : SUBSET Urls]

ASSUME NoneAssumption ==
    None \notin Fields \cup Lists \cup TrackRow \cup Record \cup CopyRow \cup Digests

NoTracks == [x \in Tracks |-> None]
NoCopies == [u \in Urls |-> None]

Init ==
    /\ main = [rec |-> None, index |-> [feed |-> None, publisher |-> None, tracks |-> NoTracks],
               copies |-> NoCopies, obs |-> {}, blocks |-> {}]
    /\ node = main
    /\ over = 0
    /\ judged = NoCopies
    /\ seen = NoCopies
    /\ acts = 0

-----------------------------------------------------------------------------
(* Writes of the tables, the same functions on the primary and on a node *)

\* Mutant: a feed that leaves the music medium keeps the rows of its tracks
SyncReadModels_KeepsTracks(t) ==
    IF t.rec = None THEN t ELSE
    LET f == t.rec.fields IN
    [t EXCEPT !.index =
        [feed |-> IF f \in MusicFields THEN f ELSE None,
         publisher |-> IF f \in PublisherFields THEN f ELSE None,
         tracks |-> [x \in Tracks |->
            IF t.rec.tracks[x] = None \/ f \notin MusicFields THEN @.tracks[x]
            ELSE t.rec.tracks[x].fields]]]

\* sync_source_read_models_for_feed: the rows of the feed and of its tracks
SyncReadModels(t) ==
    IF t.rec = None THEN t ELSE
    LET f == t.rec.fields IN
    [t EXCEPT !.index =
        [feed |-> IF f \in MusicFields THEN f ELSE None,
         publisher |-> IF f \in PublisherFields THEN f ELSE None,
         tracks |-> [x \in Tracks |->
            CASE t.rec.tracks[x] = None -> @.tracks[x]
              [] t.rec.tracks[x] # None /\ f \in MusicFields -> t.rec.tracks[x].fields
              [] OTHER -> None]]]

\* upsert_feed: a new row has no lists and no tracks yet
UpsertFeed(t, u, f, d) ==
    [t EXCEPT !.rec = [url |-> u, fields |-> f, built |-> d,
                       lists |-> IF @ = None THEN [l \in Families |-> 0] ELSE @.lists,
                       tracks |-> IF @ = None THEN NoTracks ELSE @.tracks]]

\* upsert_track, replace_payment_routes_*, replace_value_time_splits_*
UpsertTrack(t, x, w) ==
    [t EXCEPT !.rec.tracks[x] = [w EXCEPT !.items = IF t.rec.tracks[x] = None THEN 0 ELSE t.rec.tracks[x].items]]

\* replace_feed_* and replace_source_*: delete the rows, insert the list
ReplaceList(t, l, v) == [t EXCEPT !.rec.lists[l] = v]

\* replace_track_remote_items_raw_for_feed_track
ReplaceTrackItems(t, x, v) == [t EXCEPT !.rec.tracks[x].items = v]

\* delete_track_sql, with the index row of the track
DeleteTrack(t, x) == [t EXCEPT !.rec.tracks[x] = None, !.index.tracks[x] = None]

\* delete_feed_sql: index rows, lists, tracks, copies, the feed row
DeleteFeed(t) ==
    [t EXCEPT !.rec = None,
              !.index = [feed |-> None, publisher |-> None,
                         tracks |-> [x \in Tracks |->
                            IF t.rec.tracks[x] = None THEN @.tracks[x] ELSE None]],
              !.copies = NoCopies]

\* upsert_feed_copy_summary: the resolution columns stay
UpsertCopy(t, u, s) ==
    [t EXCEPT !.copies[u] =
        [sum |-> s.sum, list |-> s.list, look |-> s.look,
         done |-> IF @ = None THEN None ELSE @.done]]

\* set_feed_copy_resolution does nothing without a row
ResolveCopy(t, u, d) == IF t.copies[u] = None THEN t ELSE [t EXCEPT !.copies[u].done = d]

\* insert_feed_block of a URL: a new block deletes the copies at the URL
BlockUrl(t, u) ==
    IF u \in t.blocks THEN t ELSE [t EXCEPT !.blocks = @ \cup {u}, !.copies[u] = None]

-----------------------------------------------------------------------------
(* Events *)

FeedUpserted(r) == [type |-> "feed_upserted", url |-> r.url, fields |-> r.fields, built |-> r.built]
ListReplaced(l, v) == [type |-> "list_replaced", family |-> l, rows |-> v]
TrackUpserted(x, w) == [type |-> "track_upserted", track |-> x, row |-> [w EXCEPT !.items = 0]]
TrackItems(x, v) == [type |-> "track_remote_items_replaced", track |-> x, rows |-> v]
TrackRemoved(x) == [type |-> "track_removed", track |-> x]
FeedRetired == [type |-> "feed_retired"]
UrlObserved(u) == [type |-> "feed_url_observed", url |-> u]
CopyObserved(u, s) == [type |-> "feed_copy_observed", url |-> u, body |-> s]
CopyResolved(u, d) == [type |-> "feed_copy_resolved", url |-> u, digests |-> d]
Blocked(u) == [type |-> "feed_blocked", url |-> u]
Unblocked(u) == [type |-> "feed_unblocked", url |-> u]

\* apply_single_event_inner
ApplyEvent(t, e) ==
    CASE e.type = "feed_upserted" -> SyncReadModels(UpsertFeed(t, e.url, e.fields, e.built))
      [] e.type = "track_upserted" -> SyncReadModels(UpsertTrack(t, e.track, e.row))
      [] e.type = "list_replaced" -> ReplaceList(t, e.family, e.rows)
      [] e.type = "track_remote_items_replaced" -> ReplaceTrackItems(t, e.track, e.rows)
      [] e.type = "track_removed" ->
           IF t.rec.tracks[e.track] = None THEN t ELSE DeleteTrack(t, e.track)
      [] e.type = "feed_retired" -> IF t.rec = None THEN t ELSE DeleteFeed(t)
      [] e.type = "feed_url_observed" -> [t EXCEPT !.obs = @ \cup {e.url}]
      [] e.type = "feed_copy_observed" -> UpsertCopy(t, e.url, e.body)
      [] e.type = "feed_copy_resolved" -> ResolveCopy(t, e.url, e.digests)
      [] e.type = "feed_blocked" -> BlockUrl(t, e.url)
      [] e.type = "feed_unblocked" -> [t EXCEPT !.blocks = @ \ {e.url}]

\* The events about one row, in the order of the log; there are at most two
ApplyAll(t, es) ==
    CASE Len(es) = 0 -> t
      [] Len(es) = 1 -> ApplyEvent(t, es[1])
      [] OTHER -> ApplyEvent(ApplyEvent(t, es[1]), es[2])

\* The events about each row of a family, row by row
ApplyEach(t, order, es) ==
    LET after[n \in 0..Len(order)] ==
          IF n = 0 THEN t ELSE ApplyAll(after[n - 1], es[order[n]])
    IN after[Len(order)]

Sign(es) == node' = ApplyAll(node, es)

Order(S) == CHOOSE s \in Bijection(1..Cardinality(S), S) : TRUE
FamilyOrder == Order(Families)
TrackOrder == Order(Tracks)
UrlOrder == Order(Urls)

\* build_all_events: the first ingest sends everything that is not empty
AllEvents(r) ==
    [feed |-> <<FeedUpserted(r)>>,
     lists |-> [l \in Families |->
        IF r.lists[l] = 0 THEN <<>> ELSE <<ListReplaced(l, r.lists[l])>>],
     tracks |-> [x \in Tracks |->
        IF r.tracks[x] = None THEN <<>>
        ELSE IF r.tracks[x].items = 0 THEN <<TrackUpserted(x, r.tracks[x])>>
        ELSE <<TrackUpserted(x, r.tracks[x]), TrackItems(x, r.tracks[x].items)>>]]

\* Mutant: a list that became empty makes no event
ListChanged_NotEmptied(old, new) == old # new /\ new # 0

\* feed_routes_changed, feed_remote_items_changed, source_*_changed ...
ListChanged(old, new) == old # new

\* track_fields_changed compares neither the routes nor the splits
TrackFieldsChanged(old, new) ==
    old = None \/ <<old.fields, old.file>> # <<new.fields, new.file>>

\* The remote items of a track, none for a track that is new
ItemsOf(row) == IF row = None THEN 0 ELSE row.items

\* build_changed_events; built is none of the fields it compares
ChangedEvents(o, r) ==
    [feed |-> IF <<o.url, o.fields>> = <<r.url, r.fields>> THEN <<>> ELSE <<FeedUpserted(r)>>,
     lists |-> [l \in Families |->
        IF ListChanged(o.lists[l], r.lists[l]) THEN <<ListReplaced(l, r.lists[l])>> ELSE <<>>],
     tracks |-> [x \in Tracks |->
        IF r.tracks[x] = None THEN <<>>
        ELSE IF TrackFieldsChanged(o.tracks[x], r.tracks[x])
        THEN IF r.tracks[x].items = 0 /\ ItemsOf(o.tracks[x]) = 0
             THEN <<TrackUpserted(x, r.tracks[x])>>
             ELSE <<TrackUpserted(x, r.tracks[x]), TrackItems(x, r.tracks[x].items)>>
        ELSE IF ListChanged(ItemsOf(o.tracks[x]), r.tracks[x].items)
        THEN <<TrackItems(x, r.tracks[x].items)>> ELSE <<>>]]

\* build_diff_events
DiffEvents(o, r) == IF o = None THEN AllEvents(r) ELSE ChangedEvents(o, r)

\* The TrackRemoved events of ingest_transaction
Removals(o, r) ==
    [x \in Tracks |-> IF o # None /\ o.tracks[x] # None /\ r.tracks[x] = None
                      THEN <<TrackRemoved(x)>> ELSE <<>>]

\* The events of one ingest: the feed row, its lists, its tracks, the removals
ApplyIngest(t, o, r) ==
    LET diff == DiffEvents(o, r)
        listed == ApplyEach(ApplyAll(t, diff.feed), FamilyOrder, diff.lists)
    IN ApplyEach(ApplyEach(listed, TrackOrder, diff.tracks), TrackOrder, Removals(o, r))

-----------------------------------------------------------------------------
(* Ingest *)

Act == acts < MaxActs /\ acts' = acts + 1

\* The URLs of a submission with their observation events
ObserveEvents(us) ==
    [u \in Urls |-> IF u \in us \ main.obs THEN <<UrlObserved(u)>> ELSE <<>>]

\* ingest_transaction: the record becomes the body, stale tracks go, the read
\* models follow; then record_feed_url_observations_for_ingest in a transaction
\* of its own, which a crash may lose
Write(u, b, us) ==
    LET r == [url |-> u, fields |-> b.fields, built |-> b.built,
              lists |-> b.lists, tracks |-> b.tracks]
        kept == [x \in Tracks |-> IF r.tracks[x] = None THEN None ELSE main.index.tracks[x]]
        written == SyncReadModels([main EXCEPT !.rec = r, !.index.tracks = kept])
        applied == ApplyIngest(node, main.rec, r)
    IN \/ /\ main' = [written EXCEPT !.obs = @ \cup us]
          /\ node' = ApplyEach(applied, UrlOrder, ObserveEvents(us))
          /\ IF main.rec = None \/ main.rec.url = u THEN UNCHANGED acts ELSE Act
       \/ main' = written /\ node' = applied /\ Act

\* NewFeed case
Admit(u, b) ==
    /\ main.rec = None
    /\ Write(u, b, {u})
    /\ UNCHANGED <<over, judged, seen>>

\* Update case: an older copy does not replace a newer one
Update(b) ==
    /\ main.rec # None
    /\ ~(main.rec.built # 0 /\ b.built # 0 /\ b.built < main.rec.built)
    /\ Write(main.rec.url, b, {main.rec.url})
    /\ UNCHANGED <<over, judged, seen>>

\* Mirror case with a trigger, or a redirect: the record takes body and URL
Move(u, b) ==
    /\ main.rec # None /\ u # main.rec.url
    /\ Write(u, b, {u})
    /\ UNCHANGED <<over, judged, seen>>

\* copy_summary with its two digests
CopySummary(b) ==
    [sum |-> [routes |-> b.lists["routes"],
              pays |-> [x \in Tracks |-> IF b.tracks[x] = None THEN None ELSE b.tracks[x].pay]],
     list |-> b.lists["items"], look |-> b.fields]

CopyCount(t) == Cardinality({u \in Urls : t.copies[u] # None})

\* Mutant: the limit lets one row too many in
IsFull_ByOne(t) == CopyCount(t) > MaxCopies

IsFull(t) == CopyCount(t) >= MaxCopies

\* Mutant: a changed remote items list is no reason to write the row
CopyChanged_IgnoresList(row, s) == row.sum # s.sum \/ row.look # s.look

CopyChanged(row, s) == row.sum # s.sum \/ row.list # s.list \/ row.look # s.look

\* The row that record_feed_copy_for_ingest writes and signs, if it does
CopyEvents(t, u, s) ==
    IF IF t.copies[u] = None THEN ~IsFull(t) ELSE CopyChanged(t.copies[u], s)
    THEN <<CopyObserved(u, s)>> ELSE <<>>

\* Mirror case without a move, in the write phase or for an unchanged body:
\* the observations, a copy at the canonical URL, a copy at the source URL
Mirror(c, s, b) ==
    LET first == CopyEvents(main, c, CopySummary(b))
        mid == ApplyAll(main, first)
        second == IF s = c THEN <<>> ELSE CopyEvents(mid, s, CopySummary(b))
        last == ApplyAll(mid, second)
        refused == Cardinality({u \in {c, s} : last.copies[u] = None})
    IN /\ main.rec # None /\ main.rec.url \notin {c, s}
       /\ over + refused <= MaxOver
       /\ main' = [last EXCEPT !.obs = @ \cup {c, s}]
       /\ LET observed == ApplyEach(node, UrlOrder, ObserveEvents({c, s}))
          IN node' = ApplyAll(ApplyAll(observed, first), second)
       /\ over' = over + refused
       /\ seen' = [u \in Urls |->
                    IF u \in {c, s} /\ last.copies[u] # None THEN CopySummary(b) ELSE seen[u]]
       /\ UNCHANGED <<judged, acts>>

-----------------------------------------------------------------------------
(* Operator *)

\* relocate_feed clears last_build_date and signs the whole feed row
Relocated(t, u) == [t EXCEPT !.rec.url = u, !.rec.built = 0]

\* PATCH /v1/feeds/{guid}
Relocate(u) ==
    /\ main.rec # None /\ Act
    /\ main' = Relocated(main, u)
    /\ Sign(<<FeedUpserted(main'.rec)>>)
    /\ UNCHANGED <<over, judged, seen>>

\* POST /v1/feeds/{guid}/copies/resolve: the decision names the digests of the row
Resolve(u, decision) ==
    LET d == [sum |-> main.copies[u].sum, list |-> main.copies[u].list]
    IN /\ main.rec # None /\ main.copies[u] # None /\ Act
       /\ IF decision = "relocate"
          THEN /\ main' = ResolveCopy(Relocated(main, u), u, d)
               /\ Sign(<<FeedUpserted(main'.rec), CopyResolved(u, d)>>)
          ELSE /\ main' = ResolveCopy(main, u, d)
               /\ Sign(<<CopyResolved(u, d)>>)
       /\ judged' = [judged EXCEPT ![u] = d]
       /\ UNCHANGED <<over, seen>>

\* PATCH of a track: the enclosure URL; the event carries the stored routes
PatchTrack(x, f) ==
    /\ main.rec # None /\ main.rec.tracks[x] # None /\ Act
    /\ main' = [main EXCEPT !.rec.tracks[x].file = f]
    /\ Sign(<<TrackUpserted(x, main'.rec.tracks[x])>>)
    /\ UNCHANGED <<over, judged, seen>>

\* DELETE of a track
RemoveTrack(x) ==
    /\ main.rec # None /\ main.rec.tracks[x] # None /\ Act
    /\ main' = DeleteTrack(main, x)
    /\ Sign(<<TrackRemoved(x)>>)
    /\ UNCHANGED <<over, judged, seen>>

\* A retirement, by the operator or by the source
Retire ==
    /\ main.rec # None /\ Act
    /\ main' = DeleteFeed(main)
    /\ Sign(<<FeedRetired>>)
    /\ over' = 0
    /\ judged' = NoCopies /\ seen' = NoCopies

\* A new block of a URL, and its removal
Block(u) ==
    /\ u \notin main.blocks /\ Act
    /\ main' = BlockUrl(main, u)
    /\ Sign(<<Blocked(u)>>)
    /\ judged' = [judged EXCEPT ![u] = None] /\ seen' = [seen EXCEPT ![u] = None]
    /\ UNCHANGED over

Unblock(u) ==
    /\ u \in main.blocks /\ Act
    /\ main' = [main EXCEPT !.blocks = @ \ {u}]
    /\ Sign(<<Unblocked(u)>>)
    /\ UNCHANGED <<over, judged, seen>>

-----------------------------------------------------------------------------
Next ==
    \/ \E u \in Urls, b \in Bodies : Admit(u, b) \/ Move(u, b)
    \/ \E b \in Bodies : Update(b)
    \/ \E c, s \in Urls, b \in Bodies : Mirror(c, s, b)
    \/ \E u \in Urls : Relocate(u) \/ Block(u) \/ Unblock(u)
    \/ \E u \in Urls, d \in {"keep_source", "relocate"} : Resolve(u, d)
    \/ \E x \in Tracks : RemoveTrack(x) \/ \E f \in 0..1 : PatchTrack(x, f)
    \/ Retire

Symmetry == Permutations(Urls)

Spec == Init /\ [][Next]_vars

-----------------------------------------------------------------------------
(* Properties *)

TypeOK ==
    /\ main \in Tables /\ node \in Tables
    /\ over \in 0..MaxOver
    /\ judged \in [Urls -> Digests \cup {None}]
    /\ seen \in [Urls -> CopyBody \cup {None}]
    /\ acts \in 0..MaxActs

\* A row without its pay and the columns the diff does not compare
Carried(r) ==
    IF r = None THEN None
    ELSE [r EXCEPT !.built = 0,
                   !.tracks = [x \in Tracks |->
                       IF r.tracks[x] = None THEN None ELSE [r.tracks[x] EXCEPT !.pay = 0]]]

\* However bodies, operator changes and retirements follow each other, the events
\* that build_diff_events chooses leave the node with the feed row, the lists, the
\* tracks and their items of the primary, and with its copies, observations and
\* blocks (db.rs build_changed_events, apply.rs).
NodeHasTheTables ==
    /\ Carried(node.rec) = Carried(main.rec)
    /\ node.copies = main.copies /\ node.obs = main.obs /\ node.blocks = main.blocks

\* "A track was created or its metadata/payment routes changed" (TrackUpserted,
\* event.rs): the payment routes and splits of every track reach the node.
NodeHasTheRoutes ==
    main.rec # None =>
        \A x \in Tracks : main.rec.tracks[x] # None =>
            node.rec.tracks[x].pay = main.rec.tracks[x].pay

\* The search index of the primary and of the node holds exactly the rows that
\* the medium of the feed calls for, with the current text, after any change of
\* medium, removal of tracks and retirement (db.rs sync_source_read_models_for_feed).
IndexMatches(t) ==
    LET music == t.rec # None /\ t.rec.fields \in MusicFields
        publisher == t.rec # None /\ t.rec.fields \in PublisherFields
    IN /\ t.index.feed = IF music THEN t.rec.fields ELSE None
       /\ t.index.publisher = IF publisher THEN t.rec.fields ELSE None
       /\ \A x \in Tracks : t.index.tracks[x] =
            IF music /\ t.rec.tracks[x] # None THEN t.rec.tracks[x].fields ELSE None

IndexFollows == IndexMatches(main) /\ IndexMatches(node)

\* A GUID has at most MAX_COPIES_PER_GUID copy rows on either side, and none, with
\* no overflow count, once its record is gone (api.rs record_feed_copy_for_ingest).
CopiesBounded ==
    /\ \A t \in {main, node} :
         CopyCount(t) <= (IF t.rec = None THEN 0 ELSE MaxCopies)
    /\ main.rec = None => over = 0

\* copy_resolution_holds
ResolutionHolds(row) == row.done = [sum |-> row.sum, list |-> row.list]

\* A copy is hidden by a resolution only while the last body its URL sent has the
\* summary and the remote items the operator decided on; any other body opens it
\* again, on the node too (db.rs copy_resolution_holds, upsert_feed_copy_summary).
ResolutionIsForThisBody ==
    \A t \in {main, node}, u \in Urls :
        t.copies[u] # None /\ ResolutionHolds(t.copies[u]) =>
            judged[u] = [sum |-> seen[u].sum, list |-> seen[u].list]

\* The tables are well formed and the node has those of the primary (db.rs
\* build_diff_events, apply.rs).
ContentInv == TypeOK /\ NodeHasTheTables
=============================================================================
